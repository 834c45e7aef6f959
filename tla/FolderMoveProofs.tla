--------------------------- MODULE FolderMoveProofs ---------------------------
(***************************************************************************)
(* Safety of the move of a folder for every number of agents, attempts and *)
(* edits: the types, that nothing people wrote is lost, that no unfinished  *)
(* copy is ever published, and that the edits have arrived when the         *)
(* operation is ready.  Both last ones need to know what agents that were   *)
(* overtaken may still do: who is copying copies alone, who is about to     *)
(* publish either has a finished copy or comes too late, and what an agent  *)
(* saw of the folders stays true of them.                                   *)
(***************************************************************************)
EXTENDS FolderMove, TLAPS

\* Only the staging folder is ever half copied, and no agent has taken the
\* manifest of a half copied folder.
OnlyStagingHalf ==
  /\ \A p \in Places \ {"staging"} : fs[p] # Half
  /\ \A a \in Agents : agent[a].seen # Half

\* At most one agent copies, into a folder that is not finished.
CopyingAlone ==
  /\ \A a \in Agents : agent[a].pc = "copy" => fs["staging"] = Half
  /\ \A a, b \in Agents : agent[a].pc = "copy" /\ agent[b].pc = "copy" => a = b

\* An agent about to publish has a finished copy, or the destination exists.
PublishersAreSafe ==
  \A a \in Agents :
    agent[a].pc = "publish" => \/ fs["destination"] # Absent
                               \/ fs["staging"] \notin {Absent, Half}

IInv ==
  /\ TypeOK
  /\ OnlyStagingHalf
  /\ CopyingAlone
  /\ PublishersAreSafe
  /\ NothingLost

\* A half copied folder looks like no finished one, and a finished folder that
\* is edited stays finished.
LEMMA HalfIsNotWhole ==
  /\ Half # Absent
  /\ Half \notin SUBSET Marks
  /\ Contents = (SUBSET Marks) \cup {Half}
  /\ Absent \in SUBSET Marks
<1>1. MaxEdits + 1 \notin Marks
  BY MoveAssumption DEF Marks
<1> QED
  BY <1>1 DEF Half, Absent, Contents

\* Init: the folder stands at its source.
LEMMA InitIInv == Init => IInv
<1> SUFFICES ASSUME Init PROVE IInv
  OBVIOUS
<1> USE HalfIsNotWhole, MoveAssumption DEF Init
<1>0. 0 \in Marks
  BY DEF Marks
<1>1. TypeOK
  <2>1. job \in JobRow
    BY DEF JobRow, Stages
  <2>2. agent \in [Agents -> AgentRow]
    BY DEF AgentRow, Steps, NoTask
  <2>3. fs \in [Places -> Contents]
    BY <1>0
  <2>4. evidence \in Contents /\ atSource \in SUBSET Marks /\ strangers \in SUBSET Marks
    OBVIOUS
  <2>5. edits \in 0 .. MaxEdits
    OBVIOUS
  <2> QED
    BY <2>1, <2>2, <2>3, <2>4, <2>5 DEF TypeOK
<1>2. OnlyStagingHalf /\ CopyingAlone /\ PublishersAreSafe
  BY <1>0 DEF OnlyStagingHalf, CopyingAlone, PublishersAreSafe, Places, NoTask
<1>3. NothingLost
  <2>1. fs["source"] = {0} /\ "source" \in Places \ {"staging"}
    BY DEF Places
  <2>2. Whole("source")
    BY <1>0, <2>1 DEF Whole, Absent
  <2>3. \A e \in 0 .. edits : e = 0
    OBVIOUS
  <2> QED
    BY <2>1, <2>2, <2>3 DEF NothingLost
<1> QED
  BY <1>1, <1>2, <1>3 DEF IInv

\* What a step of an agent does to the agents: only its own row changes.
StepsTo(a, pc, seen) ==
  /\ agent' \in [Agents -> AgentRow]
  /\ agent'[a].pc = pc
  /\ agent'[a].seen = seen
  /\ \A b \in Agents \ {a} : agent'[b] = agent[b]

\* Goes, Sees and Idle write rows.
LEMMA AgentRows ==
  ASSUME TypeOK, NEW a \in Agents
  PROVE  /\ \A pc \in Steps : Goes(a, pc) => \/ StepsTo(a, pc, Absent)
                                             \/ StepsTo(a, pc, agent[a].seen)
         /\ \A pc \in Steps, p \in Places : Sees(a, p, pc) => StepsTo(a, pc, fs[p])
         /\ Idle(a) => StepsTo(a, "idle", Absent)
<1> USE HalfIsNotWhole DEF TypeOK
<1>1. agent[a] \in AgentRow
  OBVIOUS
<1>2. ASSUME NEW pc \in Steps, Goes(a, pc)
      PROVE  StepsTo(a, pc, Absent) \/ StepsTo(a, pc, agent[a].seen)
  <2> DEFINE row == [pc |-> pc, armed |-> FALSE,
                     seen |-> IF pc \in Forgetting THEN Absent ELSE agent[a].seen]
  <2>1. row \in AgentRow
    BY <1>1 DEF AgentRow
  <2>2. agent' = [agent EXCEPT ![a] = row]
    BY <1>2 DEF Goes
  <2> QED
    BY <2>1, <2>2 DEF StepsTo
<1>3. ASSUME NEW pc \in Steps, NEW p \in Places, Sees(a, p, pc)
      PROVE  StepsTo(a, pc, fs[p])
  <2> DEFINE row == [pc |-> pc, armed |-> FALSE, seen |-> fs[p]]
  <2>1. row \in AgentRow
    BY DEF AgentRow
  <2>2. agent' = [agent EXCEPT ![a] = row]
    BY <1>3 DEF Sees
  <2> QED
    BY <2>1, <2>2 DEF StepsTo
<1>4. ASSUME Idle(a)
      PROVE  StepsTo(a, "idle", Absent)
  <2>1. "idle" \in Steps
    BY DEF Steps
  <2>2. NoTask \in AgentRow /\ NoTask.pc = "idle" /\ NoTask.seen = Absent
    BY <2>1 DEF AgentRow, NoTask
  <2> QED
    BY <1>4, <2>2 DEF StepsTo, Idle
<1> QED
  BY <1>2, <1>3, <1>4

\* A step of one agent that leaves the disk alone keeps the invariant, if it
\* neither starts to copy nor makes ready to publish without a finished copy.
LEMMA DiskUntouched ==
  ASSUME IInv, NEW a \in Agents, NEW pc \in Steps, NEW seen \in Contents \ {Half},
         StepsTo(a, pc, seen),
         pc = "copy" => agent[a].pc = "copy",
         pc = "publish" => \/ agent[a].pc = "publish"
                           \/ fs["staging"] \notin {Absent, Half},
         job' \in JobRow, evidence' \in Contents,
         UNCHANGED <<volumes, fs, history>>
  PROVE  IInv'
<1> USE DEF IInv
<1>1. TypeOK'
  BY DEF TypeOK, StepsTo, history
<1>2. OnlyStagingHalf'
  BY DEF OnlyStagingHalf, StepsTo
<1>3. CopyingAlone'
  BY DEF CopyingAlone, StepsTo
<1>4. PublishersAreSafe'
  BY DEF PublishersAreSafe, StepsTo
<1>5. NothingLost'
  BY DEF NothingLost, Whole, history
<1> QED
  BY <1>1, <1>2, <1>3, <1>4, <1>5

\* Where an agent may go on without having looked at the staging folder.
Calm == Steps \ {"copy", "publish"}

\* The same for the forms in which the actions are written.
LEMMA CalmStep ==
  ASSUME IInv, NEW a \in Agents,
         \/ \E pc \in Calm : Goes(a, pc)
         \/ \E pc \in Calm, p \in Places \ {"staging"} : Sees(a, p, pc)
         \/ Idle(a),
         job' \in JobRow, evidence' \in Contents,
         UNCHANGED <<volumes, fs, history>>
  PROVE  IInv'
<1>1. agent[a].seen \in Contents \ {Half} /\ Absent \in Contents \ {Half}
  BY HalfIsNotWhole DEF IInv, TypeOK, OnlyStagingHalf, AgentRow
<1>2. \A p \in Places \ {"staging"} : fs[p] \in Contents \ {Half}
  BY DEF IInv, TypeOK, OnlyStagingHalf
<1>3. "idle" \in Calm /\ Calm \subseteq Steps
  BY DEF Calm, Steps
<1>4. \E pc \in Calm, seen \in Contents \ {Half} : StepsTo(a, pc, seen)
  BY <1>1, <1>2, <1>3, AgentRows DEF IInv
<1>5. PICK pc \in Calm, seen \in Contents \ {Half} : StepsTo(a, pc, seen)
  BY <1>4
<1> QED
  BY <1>3, <1>5, DiskUntouched DEF Calm

\* A rename to a place where nothing stands loses nothing and leaves nothing
\* half copied, if it does not take an unfinished copy.
LEMMA MovedKeeps ==
  ASSUME TypeOK, OnlyStagingHalf, NothingLost,
         NEW from \in Places, NEW to \in Places \ {"staging"}, from # to,
         fs[from] # Half, fs[to] = Absent,
         fs' = Moved(from, to), UNCHANGED edits
  PROVE  /\ fs' \in [Places -> Contents]
         /\ \A p \in Places \ {"staging"} : fs'[p] # Half
         /\ NothingLost'
<1> USE HalfIsNotWhole
<1>1. fs' \in [Places -> Contents]
  BY DEF TypeOK, Moved
<1>2. \A p \in Places : fs'[p] = IF p = from THEN Absent
                                 ELSE IF p = to THEN fs[from] ELSE fs[p]
  BY DEF TypeOK, Moved
<1>3. NothingLost'
  <2> SUFFICES ASSUME NEW e \in 0 .. edits
               PROVE  \E p \in Places \ {"staging"} : Whole(p)' /\ e \in fs'[p]
    BY DEF NothingLost
  <2>1. PICK p \in Places \ {"staging"} : Whole(p) /\ e \in fs[p]
    BY DEF NothingLost
  <2>2. p # to
    BY <2>1 DEF Whole
  <2>3. CASE p = from
    BY <2>1, <2>3, <1>2 DEF Whole
  <2>4. CASE p # from
    BY <2>1, <2>2, <2>4, <1>2 DEF Whole
  <2> QED
    BY <2>3, <2>4
<1> QED
  BY <1>1, <1>2, <1>3 DEF OnlyStagingHalf

\* Steps that only read the disk.
LEMMA ReadSteps ==
  ASSUME IInv, NEW a \in Agents,
         \/ LookAtSource(a) \/ LookAtDestination(a) \/ Recover(a) \/ Compare(a)
         \/ HashSource(a) \/ Verify(a) \/ LookForPublished(a) \/ LookForStaging(a)
         \/ MatchPublished(a) \/ HashDestination(a) \/ LookForSource(a)
         \/ LookForRecovery(a) \/ HashRetiring(a) \/ HashRetained(a) \/ Recheck(a)
  PROVE  IInv'
<1>1. UNCHANGED <<volumes, fs, evidence, job, history>>
  BY DEF LookAtSource, LookAtDestination, Recover, Compare, HashSource, Verify,
         LookForPublished, LookForStaging, MatchPublished, HashDestination,
         LookForSource, LookForRecovery, HashRetiring, HashRetained, Recheck, Reads
<1>2. /\ {"gone", "standing", "missing", "recover", "manual", "compare", "hash",
          "renamed", "failed", "match", "copied", "stale", "stage", "evidence",
          "stageOver", "stageNew", "stageMatch", "stageHash", "mkdir", "cleanLook",
          "cleanGone", "cleanStanding", "cleaned", "cleanHash", "retire",
          "recheck"} \subseteq Calm
      /\ {"source", "destination"} \subseteq Places \ {"staging"}
  BY DEF Calm, Steps, Running, Looking, Changing, Results, Places
<1>3. \/ \E pc \in Calm : Goes(a, pc)
      \/ \E pc \in Calm, p \in Places \ {"staging"} : Sees(a, p, pc)
  <2>1. CASE LookAtSource(a) \/ LookAtDestination(a) \/ Recover(a)
    BY <1>2, <2>1 DEF LookAtSource, LookAtDestination, Recover
  <2>2. CASE Compare(a) \/ HashSource(a)
    BY <1>2, <2>2 DEF Compare, HashSource
  <2>3. CASE Verify(a) \/ LookForPublished(a) \/ LookForStaging(a) \/ MatchPublished(a)
    BY <1>2, <2>3 DEF Verify, LookForPublished, LookForStaging, MatchPublished
  <2>4. CASE HashDestination(a) \/ LookForSource(a) \/ LookForRecovery(a)
    BY <1>2, <2>4 DEF HashDestination, LookForSource, LookForRecovery
  <2>5. CASE HashRetiring(a) \/ HashRetained(a) \/ Recheck(a)
    BY <1>2, <2>5 DEF HashRetiring, HashRetained, Recheck
  <2> QED
    BY <2>1, <2>2, <2>3, <2>4, <2>5
<1>4. job' \in JobRow /\ evidence' \in Contents
  BY <1>1 DEF IInv, TypeOK
<1> QED
  BY <1>1, <1>3, <1>4, CalmStep

\* An agent takes, reports or loses the job, or fails; only a step that reads
\* the staging folder makes ready to publish.
LEMMA JobSteps ==
  ASSUME IInv, NEW a \in Agents,
         \/ Claim(a) \/ ReportAccepted(a) \/ Abandon(a) \/ Crash(a) \/ Arm(a)
         \/ Fails(a) \/ HashStaging(a) \/ WriteEvidence(a)
  PROVE  IInv'
<1> USE HalfIsNotWhole
<1>0. /\ job \in JobRow /\ evidence \in Contents /\ agent[a] \in AgentRow
      /\ agent[a].seen \in Contents \ {Half}
      /\ {"idle", "look", "cleanDst", "failed", "manual", "rename"} \subseteq Calm
      /\ "publish" \in Steps
      /\ agent \in [Agents -> AgentRow]
  BY DEF IInv, TypeOK, OnlyStagingHalf, AgentRow, Calm, Steps, Running, Changing,
         Looking, Results
<1>1. CASE Claim(a)
  <2> DEFINE pc == IF job.stage = "apply" THEN "look" ELSE "cleanDst"
  <2>1. agent' = [agent EXCEPT ![a].pc = pc] /\ UNCHANGED <<volumes, fs, evidence, history>>
    BY <1>1 DEF Claim
  <2>2. pc \in Calm
    BY <1>0
  <2>3. agent'[a] = [agent[a] EXCEPT !.pc = pc] /\ agent'[a] \in AgentRow
    BY <1>0, <2>1, <2>2 DEF AgentRow, Calm
  <2>4. StepsTo(a, pc, agent[a].seen)
    BY <1>0, <2>1, <2>3 DEF StepsTo, AgentRow
  <2>5. job' \in JobRow
    <3>1. job.attempt + 1 \in 0 .. MaxAttempts
      BY <1>0, <1>1, MoveAssumption DEF Claim, BudgetLeft, JobRow
    <3> QED
      BY <1>0, <1>1, <3>1 DEF Claim, JobRow
  <2> QED
    BY <1>0, <2>1, <2>2, <2>4, <2>5, DiskUntouched DEF Calm
<1>2. CASE ReportAccepted(a)
  <2>1. job' \in JobRow
    <3> DEFINE r == agent[a].pc
    <3>1. StageAfter \in [Results \ {"failed"} -> Stages]
      BY DEF StageAfter, Results, Stages
    <3>2. r # "failed" => StageAfter[r] \in Stages
      BY <1>2, <3>1 DEF ReportAccepted
    <3>3. 0 \in 0 .. MaxAttempts /\ "failed" \in Stages /\ "manual" \in Stages
      BY MoveAssumption DEF Stages
    <3> QED
      BY <1>0, <1>2, <3>2, <3>3 DEF ReportAccepted, JobRow
  <2> QED
    BY <1>0, <1>2, <2>1, CalmStep DEF ReportAccepted
<1>3. CASE Abandon(a) \/ Crash(a)
  <2>1. evidence' \in Contents
    BY <1>0, <1>3 DEF Abandon, Crash
  <2> QED
    BY <1>0, <1>3, <2>1, CalmStep DEF Abandon, Crash
<1>4. CASE Arm(a)
  <2>1. agent' = [agent EXCEPT ![a].armed = TRUE]
        /\ UNCHANGED <<volumes, fs, evidence, job, history>>
    BY <1>4 DEF Arm
  <2>2. agent'[a] = [agent[a] EXCEPT !.armed = TRUE] /\ agent'[a] \in AgentRow
    BY <1>0, <2>1 DEF AgentRow
  <2>3. StepsTo(a, agent[a].pc, agent[a].seen) /\ agent[a].pc \in Steps
    BY <1>0, <2>1, <2>2 DEF StepsTo, AgentRow
  <2> QED
    BY <1>0, <2>1, <2>3, DiskUntouched
<1>5. CASE Fails(a)
  <2>1. \E pc \in Calm : Goes(a, pc)
    BY <1>0, <1>5 DEF Fails
  <2> QED
    BY <1>0, <1>5, <2>1, CalmStep DEF Fails
<1>6. CASE HashStaging(a)
  <2>0. UNCHANGED <<volumes, fs, evidence, job, history>>
    BY <1>6 DEF HashStaging, Reads
  <2>1. CASE fs["staging"] # Absent /\ StagingMatches(a)
    <3>1. Goes(a, "publish") /\ fs["staging"] \notin {Absent, Half}
      BY <1>0, <1>6, <2>1 DEF HashStaging, StagingMatches
    <3>2. \E seen \in Contents \ {Half} : StepsTo(a, "publish", seen)
      BY <1>0, <3>1, AgentRows DEF IInv
    <3> QED
      BY <1>0, <2>0, <3>1, <3>2, DiskUntouched
  <2>2. CASE ~(fs["staging"] # Absent /\ StagingMatches(a))
    <3>1. \E pc \in Calm : Goes(a, pc)
      BY <1>0, <1>6, <2>2 DEF HashStaging
    <3> QED
      BY <1>0, <2>0, <3>1, CalmStep
  <2> QED
    BY <2>1, <2>2
<1>7. CASE WriteEvidence(a)
  <2>1. UNCHANGED <<volumes, fs, job, history>>
    BY <1>7 DEF WriteEvidence, Changes
  <2>2. evidence' \in Contents /\ \E pc \in Calm : Goes(a, pc)
    BY <1>0, <1>7 DEF WriteEvidence
  <2> QED
    BY <1>0, <2>1, <2>2, CalmStep
<1> QED
  BY <1>1, <1>2, <1>3, <1>4, <1>5, <1>6, <1>7

\* The calls that rename a folder: one that fails leaves the disk alone.
LEMMA RenameSteps ==
  ASSUME IInv, NEW a \in Agents, Rename(a) \/ Publish(a) \/ Retire(a)
  PROVE  IInv'
<1> USE HalfIsNotWhole
<1>1. /\ UNCHANGED <<volumes, evidence, job, history>>
      /\ job' \in JobRow /\ evidence' \in Contents
  BY DEF Rename, Publish, Retire, Changes, IInv, TypeOK
<1>2. /\ {"failed", "stage", "verifyRename", "verifyCopy", "copied", "manual",
          "retained"} \subseteq Calm
      /\ {"source", "destination", "recovery", "staging"} \subseteq Places
      /\ Calm \subseteq Steps
  BY DEF Calm, Steps, Running, Looking, Changing, Results, Places
<1>3. \E pc \in Calm : Goes(a, pc)
  BY <1>2 DEF Rename, Publish, Retire
<1>4. CASE UNCHANGED fs
  BY <1>1, <1>3, <1>4, CalmStep
<1>5. CASE fs' # fs
  <2>1. \/ /\ fs' = Moved("source", "destination") /\ fs["destination"] = Absent
        \/ /\ fs' = Moved("source", "recovery") /\ fs["recovery"] = Absent
        \/ /\ fs' = Moved("staging", "destination") /\ fs["destination"] = Absent
           /\ fs["staging"] # Absent /\ agent[a].pc = "publish"
    BY <1>5 DEF Rename, Publish, Retire, Retired, Changes
  <2>2. fs["source"] # Half /\ (agent[a].pc = "publish" /\ fs["destination"] = Absent
                                  => fs["staging"] # Half)
    BY <1>2 DEF IInv, OnlyStagingHalf, PublishersAreSafe
  <2>3. /\ fs' \in [Places -> Contents]
        /\ \A p \in Places \ {"staging"} : fs'[p] # Half
        /\ NothingLost'
    BY <1>1, <1>2, <2>1, <2>2, MovedKeeps DEF IInv, history
  <2>4. PICK pc \in Calm, seen \in Contents \ {Half} : StepsTo(a, pc, seen)
    <3>1. agent[a].seen \in Contents \ {Half} /\ Absent \in Contents \ {Half}
      BY DEF IInv, TypeOK, OnlyStagingHalf, AgentRow
    <3> QED
      BY <1>2, <1>3, <3>1, AgentRows DEF IInv
  <2>5. TypeOK'
    BY <1>1, <2>3, <2>4 DEF IInv, TypeOK, StepsTo, history
  <2>6. OnlyStagingHalf'
    BY <2>3, <2>4 DEF IInv, OnlyStagingHalf, StepsTo
  <2>7. /\ fs'["staging"] = fs["staging"] \/ fs["staging"] # Half
        /\ fs["destination"] # Absent => fs'["destination"] # Absent
        /\ fs'["staging"] = fs["staging"] \/ fs'["destination"] # Absent
    BY <1>2, <2>1, <2>2 DEF Moved, IInv, TypeOK
  <2>8. CopyingAlone'
    BY <2>4, <2>7 DEF IInv, CopyingAlone, StepsTo, Calm
  <2>9. PublishersAreSafe'
    BY <2>4, <2>7 DEF IInv, PublishersAreSafe, StepsTo, Calm
  <2> QED
    BY <2>3, <2>5, <2>6, <2>8, <2>9 DEF IInv
<1> QED
  BY <1>4, <1>5

\* The calls that make and fill the staging folder.
LEMMA StagingSteps ==
  ASSUME IInv, NEW a \in Agents, MakeStaging(a) \/ CopyTree(a)
  PROVE  IInv'
<1> USE HalfIsNotWhole
<1>1. /\ UNCHANGED <<volumes, evidence, job, history>>
      /\ job' \in JobRow /\ evidence' \in Contents
  BY DEF MakeStaging, CopyTree, Changes, IInv, TypeOK
<1>2. /\ {"failed", "stageHash"} \subseteq Calm /\ "copy" \in Steps
      /\ {"source", "destination", "staging"} \subseteq Places
      /\ Calm \subseteq Steps
  BY DEF Calm, Steps, Running, Looking, Changing, Results, Places
<1>3. agent[a].seen \in Contents \ {Half} /\ Absent \in Contents \ {Half}
  BY DEF IInv, TypeOK, OnlyStagingHalf, AgentRow
<1>4. CASE UNCHANGED fs /\ Goes(a, "failed")
  BY <1>1, <1>2, <1>4, CalmStep
<1>5. ASSUME NEW c \in Contents, fs' = [fs EXCEPT !["staging"] = c]
      PROVE  /\ fs' \in [Places -> Contents]
             /\ \A p \in Places \ {"staging"} : fs'[p] = fs[p] /\ fs'[p] # Half
             /\ NothingLost'
  <2>1. fs' \in [Places -> Contents] /\ \A p \in Places \ {"staging"} : fs'[p] = fs[p]
    BY <1>5 DEF IInv, TypeOK
  <2> QED
    BY <1>1, <2>1 DEF IInv, OnlyStagingHalf, NothingLost, Whole, history
<1>6. CASE MakeStaging(a) /\ fs["staging"] = Absent
  <2>1. fs' = [fs EXCEPT !["staging"] = Half] /\ Goes(a, "copy")
    BY <1>6 DEF MakeStaging
  <2>2. PICK seen \in Contents \ {Half} : StepsTo(a, "copy", seen)
    BY <1>2, <1>3, <2>1, AgentRows DEF IInv
  <2>3. Half \in Contents /\ fs'["staging"] = Half
    BY <1>2, <2>1 DEF IInv, TypeOK
  <2>4. TypeOK'
    BY <1>1, <1>5, <2>1, <2>2, <2>3 DEF IInv, TypeOK, StepsTo, history
  <2>5. OnlyStagingHalf'
    BY <1>5, <2>1, <2>2, <2>3 DEF IInv, OnlyStagingHalf, StepsTo
  <2>6. \A b \in Agents : agent[b].pc # "copy"
    BY <1>6 DEF IInv, CopyingAlone
  <2>7. CopyingAlone'
    BY <2>2, <2>3, <2>6 DEF CopyingAlone, StepsTo
  <2>8. \A b \in Agents : agent[b].pc = "publish" => fs["destination"] # Absent
    BY <1>6 DEF IInv, PublishersAreSafe
  <2>9. PublishersAreSafe'
    BY <1>2, <1>5, <2>1, <2>2, <2>3, <2>8 DEF PublishersAreSafe, StepsTo
  <2> QED
    BY <1>5, <2>1, <2>3, <2>4, <2>5, <2>7, <2>9 DEF IInv
<1>7. CASE CopyTree(a) /\ ~(UNCHANGED fs /\ Goes(a, "failed"))
  <2>1. PICK c \in SUBSET fs["source"] :
          fs' = [fs EXCEPT !["staging"] = c] /\ Goes(a, "stageHash")
    BY <1>7 DEF CopyTree
  <2>2. c \in SUBSET Marks
    BY <1>2 DEF IInv, TypeOK, OnlyStagingHalf
  <2>3. PICK seen \in Contents \ {Half} : StepsTo(a, "stageHash", seen)
    BY <1>2, <1>3, <2>1, AgentRows DEF IInv
  <2>4. TypeOK'
    BY <1>1, <1>5, <2>1, <2>2, <2>3 DEF IInv, TypeOK, StepsTo, history
  <2>5. OnlyStagingHalf'
    BY <1>5, <2>1, <2>2, <2>3 DEF IInv, OnlyStagingHalf, StepsTo
  <2>6. agent[a].pc = "copy" /\ fs["staging"] = Half
    BY <1>7 DEF CopyTree, Changes, IInv, CopyingAlone
  <2>7. CopyingAlone'
    BY <2>3, <2>6 DEF IInv, CopyingAlone, StepsTo
  <2>8. PublishersAreSafe'
    BY <1>2, <1>5, <2>1, <2>2, <2>3, <2>6 DEF IInv, PublishersAreSafe, StepsTo
  <2> QED
    BY <1>5, <2>1, <2>2, <2>4, <2>5, <2>7, <2>8 DEF IInv
<1>8. MakeStaging(a) => \/ fs["staging"] = Absent
                        \/ UNCHANGED fs /\ Goes(a, "failed")
  BY DEF MakeStaging
<1> QED
  BY <1>4, <1>6, <1>7, <1>8

\* People edit finished folders, make new ones and drag the source about.
LEMMA PeopleSteps == IInv /\ PeopleStep => IInv'
<1> SUFFICES ASSUME IInv, PeopleStep PROVE IInv'
  OBVIOUS
<1> USE HalfIsNotWhole
<1>1. /\ UNCHANGED <<volumes, evidence, job, agent>>
      /\ job' \in JobRow /\ evidence' \in Contents
  BY DEF PeopleStep, Edit, MakeFolder, Drag, IInv, TypeOK
<1>2. {"source", "destination", "recovery", "elsewhere"} \subseteq Places \ {"staging"}
  BY DEF Places
<1>3. edits \in 0 .. MaxEdits
  BY DEF IInv, TypeOK
<1>4. /\ edits' \in 0 .. MaxEdits
      /\ atSource' \in SUBSET Marks /\ strangers' \in SUBSET Marks
  <2>1. edits < MaxEdits => edits + 1 \in 0 .. MaxEdits /\ edits + 1 \in Marks
    BY <1>3, MoveAssumption DEF Marks
  <2> QED
    BY <1>3, <2>1 DEF PeopleStep, Edit, MakeFolder, Drag, IInv, TypeOK, history
<1>5. /\ fs' \in [Places -> Contents]
      /\ fs'["staging"] = fs["staging"]
      /\ \A p \in Places \ {"staging"} : fs'[p] # Half
      /\ fs["destination"] # Absent => fs'["destination"] # Absent
      /\ NothingLost'
  <2>1. CASE \/ \E p \in {"source", "destination", "recovery"} : Edit(p)
             \/ \E p \in {"source", "destination"} : MakeFolder(p)
    <3>0. PICK p \in Places \ {"staging"} : Edit(p) \/ MakeFolder(p)
      BY <1>2, <2>1
    <3> DEFINE old == fs[p]
    <3>8. old \in SUBSET Marks
      BY <3>0 DEF Edit, MakeFolder, Whole, IInv, TypeOK
    <3>9. MakeFolder(p) => old \cup {edits + 1} = {edits + 1}
      BY DEF MakeFolder, Absent
    <3>1. /\ fs' = [fs EXCEPT ![p] = old \cup {edits + 1}]
          /\ edits < MaxEdits /\ edits' = edits + 1
      BY <3>0, <3>9 DEF Edit, MakeFolder
    <3> HIDE DEF old
    <3>2. edits + 1 \in Marks /\ 0 .. edits' = (0 .. edits) \cup {edits + 1}
      BY <1>3, <3>1, MoveAssumption DEF Marks
    <3>3. old \cup {edits + 1} \in SUBSET Marks /\ old \cup {edits + 1} # Absent
      BY <3>8, <3>2 DEF Absent
    <3>4. /\ fs' \in [Places -> Contents]
          /\ \A q \in Places : fs'[q] = IF q = p THEN old \cup {edits + 1} ELSE fs[q]
      BY <3>1, <3>3 DEF IInv, TypeOK
    <3>5. NothingLost'
      <4> SUFFICES ASSUME NEW e \in 0 .. edits'
                   PROVE  \E q \in Places \ {"staging"} : Whole(q)' /\ e \in fs'[q]
        BY DEF NothingLost
      <4>1. Whole(p)' /\ edits + 1 \in fs'[p]
        BY <3>3, <3>4 DEF Whole
      <4>2. CASE e \in 0 .. edits
        <5>1. PICK q \in Places \ {"staging"} : Whole(q) /\ e \in fs[q]
          BY <4>2 DEF IInv, NothingLost
        <5> QED
          BY <3>1, <3>4, <4>1, <5>1 DEF Whole, old
      <4> QED
        BY <3>2, <4>1, <4>2
    <3>6. \A q \in Places \ {"staging"} : fs'[q] # Half
      BY <3>3, <3>4 DEF IInv, OnlyStagingHalf
    <3>7. "staging" \in Places /\ "destination" \in Places
      BY DEF Places
    <3> QED
      BY <3>0, <3>3, <3>4, <3>5, <3>6, <3>7
  <2>2. CASE \E p \in {"destination", "elsewhere"} : Drag(p)
    <3>1. PICK p \in {"destination", "elsewhere"} :
            fs' = Moved("source", p) /\ fs[p] = Absent /\ UNCHANGED edits
      BY <2>2 DEF Drag, history
    <3>2. fs["source"] # Half
      BY <1>2 DEF IInv, OnlyStagingHalf
    <3>5. p \in Places \ {"staging"} /\ p # "source" /\ "source" \in Places
      BY <1>2
    <3>3. "staging" \in Places
      BY DEF Places
    <3>4. fs'["staging"] = fs["staging"]
          /\ (fs["destination"] # Absent => fs'["destination"] # Absent)
      BY <1>2, <3>1, <3>3 DEF Moved, IInv, TypeOK
    <3> QED
      BY <1>2, <3>1, <3>2, <3>4, <3>5, MovedKeeps DEF IInv
  <2> QED
    BY <2>1, <2>2 DEF PeopleStep
<1>6. TypeOK'
  BY <1>1, <1>4, <1>5 DEF IInv, TypeOK
<1>7. OnlyStagingHalf' /\ CopyingAlone' /\ PublishersAreSafe'
  BY <1>1, <1>5 DEF IInv, OnlyStagingHalf, CopyingAlone, PublishersAreSafe
<1> QED
  BY <1>5, <1>6, <1>7 DEF IInv

\* The clock and the people at the desk change the job only.
LEMMA QueueSteps == IInv /\ (JobStep \/ UNCHANGED vars) => IInv'
<1> SUFFICES ASSUME IInv, JobStep \/ UNCHANGED vars PROVE IInv'
  OBVIOUS
<1>1. UNCHANGED <<volumes, fs, evidence, agent, history>>
  BY DEF JobStep, ClaimExhausted, LeaseExpires, ApproveRetry, vars, history
<1>2. job' \in JobRow
  <2>1. job \in JobRow /\ 0 \in 0 .. MaxAttempts
    BY MoveAssumption DEF IInv, TypeOK
  <2>2. {"apply", "failed", "manual"} \subseteq Stages
    BY DEF Stages
  <2> QED
    BY <2>1, <2>2 DEF JobStep, ClaimExhausted, LeaseExpires, ApproveRetry, JobRow, vars
<1> QED
  BY <1>1, <1>2 DEF IInv, TypeOK, OnlyStagingHalf, CopyingAlone, PublishersAreSafe,
     NothingLost, Whole, history

\* The inductive invariant holds in every state.
THEOREM Invariant == Spec => []IInv
<1>1. IInv /\ [Next]_vars => IInv'
  <2> SUFFICES ASSUME IInv, [Next]_vars PROVE IInv'
    OBVIOUS
  <2>1. CASE JobStep \/ UNCHANGED vars
    BY <2>1, QueueSteps
  <2>2. CASE PeopleStep
    BY <2>2, PeopleSteps
  <2>3. ASSUME NEW a \in Agents, AgentStep(a)
        PROVE  IInv'
    BY <2>3, ReadSteps, JobSteps, RenameSteps, StagingSteps DEF AgentStep
  <2> QED
    BY <2>1, <2>2, <2>3 DEF Next
<1> QED
  BY <1>1, InitIInv, PTL DEF Spec

\* Every row keeps its type, and no job is claimed more often than max_attempts.
THEOREM TypeCorrect == Spec => []TypeOK
<1>1. IInv => TypeOK
  BY DEF IInv
<1> QED
  BY <1>1, Invariant, PTL

\* Nothing people have put into the folder is lost, whatever agents do after
\* their lease: renames go only to places where nothing stands, and the source
\* of a copy is kept (the executor never deletes).
THEOREM NothingIsLost == Spec => []NothingLost
<1>1. IInv => NothingLost
  BY DEF IInv
<1> QED
  BY <1>1, Invariant, PTL

\* No unfinished copy ever stands at the destination, whatever number of agents
\* copy, crash and overtake one another (stagedCopy compares the staging folder
\* before it publishes, and never overwrites).
THEOREM OnlyFinishedCopies == Spec => []NeverHalfPublished
<1>1. IInv => NeverHalfPublished
  BY DEF IInv, OnlyStagingHalf, NeverHalfPublished, Places
<1> QED
  BY <1>1, Invariant, PTL

-----------------------------------------------------------------------------
(* Edits reach the destination                                             *)

\* The folder the operation was planned for does not stand at its source; and
\* then edits made in it at the source are where they belong.
Gone == 0 \notin fs["source"]
Reached == Gone /\ atSource \subseteq fs["destination"] \cup fs["elsewhere"]

\* The folder bears every edit that was made in it, wherever it has gone.
FolderBearsEdits ==
  IF Gone THEN \E p \in {"destination", "elsewhere", "recovery"} : atSource \subseteq fs[p]
          ELSE atSource \subseteq fs["source"]

Cleaning == {"cleanLook", "cleanGone", "cleanStanding", "cleanHash", "retire",
             "retained", "recheck"}
OnlyRename == {"recover", "renamed", "evidence", "rename", "verifyRename"}
OnlyCopy == Cleaning \cup
  {"cleanDst", "cleaned", "copied", "stage", "stageOver", "stageNew", "stageMatch",
   "stageHash", "verifyCopy", "mkdir", "copy", "publish"}

\* Within one volume folders are renamed, between two they are copied.
Suits(pc) ==
  /\ volumes = "one" => pc \notin OnlyCopy
  /\ volumes = "two" => pc \notin OnlyRename

\* What an agent at pc that has seen a manifest can rely on.
Knows(pc, seen) ==
  /\ pc \in {"gone", "recover", "verifyRename", "renamed", "cleanGone", "retained"} => Gone
  /\ pc \in Cleaning => seen \subseteq fs["destination"]
  /\ pc \in {"compare", "match"} => fs["destination"] # Absent
  /\ pc = "match" /\ volumes = "one" =>
       \E e \in seen : e \in 0 .. edits /\ e \notin fs["destination"]
  /\ pc \in {"recheck", "cleaned"} => Reached

\* Where nothing is copied every mark is in one folder, and nothing is retired.
OneOfEach ==
  /\ job.stage # "cleanup" /\ fs["recovery"] = Absent
  /\ \A p \in Places : fs[p] \subseteq 0 .. edits
  /\ \A p, q \in Places : p # q => \A e \in fs[p] : e \notin fs[q]

Kept ==
  /\ FolderBearsEdits
  /\ volumes = "one" => OneOfEach
  /\ job.holder # NoAgent => job.stage \in {"apply", "cleanup"}
  /\ \A a \in Agents : Suits(agent[a].pc) /\ Knows(agent[a].pc, agent[a].seen)
  /\ job.stage = "ready" => Reached

\* What a step does to the disk and to what is remembered of it.
DiskStep ==
  \/ UNCHANGED <<fs, atSource, edits>>
  \/ \E p \in {"source", "destination", "recovery"} : Edit(p)
  \/ \E p \in {"source", "destination"} : MakeFolder(p)
  \/ \E p \in {"destination", "elsewhere", "recovery"} :
       /\ fs[p] = Absent /\ fs' = Moved("source", p) /\ UNCHANGED <<atSource, edits>>
       /\ p = "recovery" => \E a \in Agents : agent[a].pc = "retire"
  \/ /\ \E a \in Agents : agent[a].pc \in {"mkdir", "copy", "publish"}
     /\ UNCHANGED <<atSource, edits>>
     /\ \/ fs["destination"] = Absent /\ fs' = Moved("staging", "destination")
        \/ \E c \in Contents : fs' = [fs EXCEPT !["staging"] = c]

LEMMA StepsOfTheDisk ==
  ASSUME IInv, [Next]_vars
  PROVE  DiskStep /\ UNCHANGED volumes
<1> USE DEF DiskStep
<1>1. CASE JobStep \/ UNCHANGED vars
  BY <1>1 DEF JobStep, ClaimExhausted, LeaseExpires, ApproveRetry, vars, history
<1>2. CASE PeopleStep
  BY <1>2 DEF PeopleStep, Edit, MakeFolder, Drag, history
<1>3. ASSUME NEW a \in Agents, AgentStep(a)
      PROVE  DiskStep /\ UNCHANGED volumes
  <2>1. CASE Rename(a) \/ Retire(a)
    BY <2>1 DEF Rename, Retire, Retired, Changes, history
  <2>2. CASE Publish(a)
    BY <2>2 DEF Publish, Changes, history
  <2>3. CASE MakeStaging(a) \/ CopyTree(a)
    <3>1. \A c \in SUBSET fs["source"] : c \in Contents
      BY HalfIsNotWhole DEF IInv, TypeOK, OnlyStagingHalf, Places
    <3>2. Half \in Contents
      BY DEF Contents
    <3> QED
      BY <2>3, <3>1, <3>2 DEF MakeStaging, CopyTree, Changes, history
  <2>4. CASE UNCHANGED <<volumes, fs, history>>
    BY <2>4 DEF history
  <2> QED
    BY <1>3, <2>1, <2>2, <2>3, <2>4
    DEF AgentStep, Claim, ReportAccepted, Abandon, Crash, Arm, Fails, Reads, Changes,
        LookAtSource, LookAtDestination, Recover, Compare, HashSource, WriteEvidence, Verify,
        LookForPublished, LookForStaging, MatchPublished, HashStaging, HashDestination,
        LookForSource, LookForRecovery, HashRetiring, HashRetained, Recheck
<1> QED
  BY <1>1, <1>2, <1>3 DEF Next

\* Folders outside of the staging place and the source only grow, and what has
\* gone from the source does not come back.
Grown ==
  /\ fs["destination"] \subseteq fs'["destination"]
  /\ fs["elsewhere"] \subseteq fs'["elsewhere"]
  /\ fs["destination"] # Absent =>
       fs'["destination"] \subseteq fs["destination"] \cup {edits + 1}
  /\ edits \in Nat /\ edits' \in {edits, edits + 1}
  /\ Gone => Gone' /\ atSource' = atSource

LEMMA FoldersGrow ==
  ASSUME IInv, DiskStep
  PROVE  Grown /\ (FolderBearsEdits => FolderBearsEdits')
<1>1. fs \in [Places -> Contents] /\ edits \in Nat
  BY DEF IInv, TypeOK
<1>2. {"source", "staging", "destination", "recovery", "elsewhere"} = Places
  BY DEF Places
<1> USE DEF Grown, Gone, FolderBearsEdits
<1>3. CASE UNCHANGED <<fs, atSource, edits>>
  BY <1>1, <1>3
<1>4. ASSUME NEW p \in {"source", "destination", "recovery"}, Edit(p)
      PROVE  Grown /\ (FolderBearsEdits => FolderBearsEdits')
  <2>1. /\ \A q \in Places : fs'[q] = IF q = p THEN fs[p] \cup {edits + 1} ELSE fs[q]
        /\ edits' = edits + 1 /\ edits + 1 # 0
    BY <1>1, <1>2, <1>4 DEF Edit
  <2>2. atSource' = IF p = "source" /\ 0 \in fs[p] THEN atSource \cup {edits + 1} ELSE atSource
    BY <1>4 DEF Edit
  <2> QED
    BY <1>1, <1>2, <2>1, <2>2
<1>5. ASSUME NEW p \in {"source", "destination"}, MakeFolder(p)
      PROVE  Grown /\ (FolderBearsEdits => FolderBearsEdits')
  <2>1. /\ fs[p] = {} /\ edits' = edits + 1 /\ edits + 1 # 0 /\ atSource' = atSource
        /\ \A q \in Places : fs'[q] = IF q = p THEN {edits + 1} ELSE fs[q]
    BY <1>1, <1>2, <1>5 DEF MakeFolder, Absent
  <2> QED
    BY <1>1, <1>2, <2>1 DEF Absent
<1>6. ASSUME NEW from \in {"source", "staging"}, NEW p \in {"destination", "elsewhere", "recovery"},
             fs[p] = Absent, fs' = Moved(from, p), UNCHANGED <<atSource, edits>>
      PROVE  Grown /\ (FolderBearsEdits => FolderBearsEdits')
  <2>1. /\ fs[p] = {}
        /\ \A q \in Places : fs'[q] = IF q = from THEN {} ELSE IF q = p THEN fs[from] ELSE fs[q]
    BY <1>1, <1>2, <1>6 DEF Moved, Absent
  <2> QED
    BY <1>1, <1>2, <1>6, <2>1 DEF Absent
<1>7. ASSUME NEW c \in Contents, fs' = [fs EXCEPT !["staging"] = c], UNCHANGED <<atSource, edits>>
      PROVE  Grown /\ (FolderBearsEdits => FolderBearsEdits')
  <2>1. \A q \in Places \ {"staging"} : fs'[q] = fs[q]
    BY <1>1, <1>2, <1>7
  <2> QED
    BY <1>1, <1>2, <1>7, <2>1
<1> HIDE DEF Grown, Gone, FolderBearsEdits
<1> QED
  BY <1>3, <1>4, <1>5, <1>6, <1>7 DEF DiskStep

\* Where nothing is copied a mark that was in one folder stays in one.
LEMMA OneFolderEach ==
  ASSUME IInv, DiskStep, volumes = "one", Kept, job'.stage # "cleanup"
  PROVE  OneOfEach'
<1>1. fs \in [Places -> Contents] /\ edits \in Nat
  BY DEF IInv, TypeOK
<1>2. {"source", "staging", "destination", "recovery", "elsewhere"} = Places
  BY DEF Places
<1>3. OneOfEach
  BY DEF Kept
<1>4. \A a \in Agents : agent[a].pc \notin {"mkdir", "copy", "publish", "retire"}
  BY DEF Kept, Suits, OnlyCopy, Cleaning
<1>5. CASE UNCHANGED <<fs, atSource, edits>>
  BY <1>3, <1>5 DEF OneOfEach
<1>6. ASSUME NEW p \in {"source", "destination", "recovery"}, Edit(p)
      PROVE  OneOfEach'
  <2>1. /\ \A q \in Places : fs'[q] = IF q = p THEN fs[p] \cup {edits + 1} ELSE fs[q]
        /\ edits' = edits + 1 /\ p # "recovery" /\ \A e \in 0 .. edits : e # edits + 1
    BY <1>1, <1>2, <1>3, <1>6 DEF Edit, Whole, OneOfEach
  <2>2. 0 .. edits \subseteq 0 .. edits' /\ edits + 1 \in 0 .. edits'
    BY <1>1, <2>1
  <2>3. \A q \in Places : edits + 1 \notin fs[q]
    BY <1>3, <2>1 DEF OneOfEach
  <2> QED
    BY <1>2, <1>3, <2>1, <2>2, <2>3 DEF OneOfEach
<1>7. ASSUME NEW p \in {"source", "destination"}, MakeFolder(p)
      PROVE  OneOfEach'
  <2>1. /\ \A q \in Places : fs'[q] = IF q = p THEN {edits + 1} ELSE fs[q]
        /\ edits' = edits + 1 /\ \A e \in 0 .. edits : e # edits + 1
    BY <1>1, <1>2, <1>7 DEF MakeFolder
  <2>2. 0 .. edits \subseteq 0 .. edits' /\ edits + 1 \in 0 .. edits'
    BY <1>1, <2>1
  <2>3. \A q \in Places : edits + 1 \notin fs[q]
    BY <1>3, <2>1 DEF OneOfEach
  <2> QED
    BY <1>2, <1>3, <2>1, <2>2, <2>3 DEF OneOfEach
<1>8. ASSUME NEW p \in {"destination", "elsewhere"},
             fs[p] = Absent, fs' = Moved("source", p), UNCHANGED edits
      PROVE  OneOfEach'
  <2>1. \A q \in Places : fs'[q] = IF q = "source" THEN {}
                                   ELSE IF q = p THEN fs["source"] ELSE fs[q]
    BY <1>1, <1>2, <1>8 DEF Moved, Absent
  <2> QED
    BY <1>2, <1>3, <1>8, <2>1 DEF OneOfEach
<1> QED
  BY <1>4, <1>5, <1>6, <1>7, <1>8 DEF DiskStep

\* What Goes, Sees and Idle write into the row of an agent.
LEMMA RowsWritten ==
  ASSUME TypeOK, NEW a \in Agents
  PROVE  /\ \A pc : Goes(a, pc) => /\ agent'[a].pc = pc
                                  /\ agent'[a].seen \in {Absent, agent[a].seen}
         /\ \A pc, p : Sees(a, p, pc) => agent'[a].pc = pc /\ agent'[a].seen = fs[p]
         /\ Idle(a) => agent'[a].pc = "idle"
<1>1. agent \in [Agents -> AgentRow]
  BY DEF TypeOK
<1>2. ASSUME NEW pc, Goes(a, pc)
      PROVE  agent'[a].pc = pc /\ agent'[a].seen \in {Absent, agent[a].seen}
  BY <1>1, <1>2 DEF Goes
<1>3. ASSUME NEW pc, NEW p, Sees(a, p, pc)
      PROVE  agent'[a].pc = pc /\ agent'[a].seen = fs[p]
  BY <1>1, <1>3 DEF Sees
<1>4. Idle(a) => agent'[a].pc = "idle"
  BY <1>1 DEF Idle, NoTask
<1> QED
  BY <1>2, <1>3, <1>4

\* What an agent relies on stays true whatever the others do.
LEMMA KnowledgeLasts ==
  ASSUME Grown, UNCHANGED volumes, NEW pc, NEW seen, Suits(pc), Knows(pc, seen)
  PROVE  Suits(pc)' /\ Knows(pc, seen)'
<1>1. Suits(pc)'
  BY DEF Suits
<1>2. (Gone => Gone') /\ (Reached => Reached')
  BY DEF Grown, Reached
<1>3. fs["destination"] # Absent => fs'["destination"] # Absent
  BY DEF Grown, Absent
<1>4. ASSUME pc = "match", volumes = "one"
      PROVE  \E e \in seen : e \in 0 .. edits' /\ e \notin fs'["destination"]
  <2>1. PICK e \in seen : e \in 0 .. edits /\ e \notin fs["destination"]
    BY <1>4 DEF Knows
  <2>2. fs["destination"] # Absent
    BY <1>4 DEF Knows
  <2>3. e # edits + 1 /\ e \in 0 .. edits'
    BY <2>1 DEF Grown
  <2> QED
    BY <2>1, <2>2, <2>3 DEF Grown
<1>5. pc \in Cleaning => seen \subseteq fs'["destination"]
  BY DEF Knows, Grown
<1> QED
  BY <1>1, <1>2, <1>3, <1>4, <1>5 DEF Knows, Cleaning

\* Steps at which an agent relies on nothing, in one volume as in two.
Plain == {"idle", "look", "standing", "hash", "failed", "missing", "stale", "manual"}

\* What an agent relies on after a step of its own that reads the disk.
LEMMA ReadersKnow ==
  ASSUME IInv, Kept, volumes # "hidden", NEW a \in Agents,
         \/ LookAtSource(a) \/ LookAtDestination(a) \/ Recover(a) \/ Compare(a)
         \/ HashSource(a) \/ Verify(a) \/ LookForPublished(a) \/ LookForStaging(a)
         \/ MatchPublished(a) \/ HashStaging(a) \/ HashDestination(a) \/ LookForSource(a)
         \/ LookForRecovery(a) \/ HashRetiring(a) \/ HashRetained(a) \/ Recheck(a)
  PROVE  Suits(agent[a].pc)' /\ Knows(agent[a].pc, agent[a].seen)'
<1> DEFINE pc == agent[a].pc
           seen == agent[a].seen
<1>1. UNCHANGED <<volumes, fs, atSource, edits>>
  BY DEF LookAtSource, LookAtDestination, Recover, Compare, HashSource, Verify,
         LookForPublished, LookForStaging, MatchPublished, HashStaging, HashDestination,
         LookForSource, LookForRecovery, HashRetiring, HashRetained, Recheck, Reads, history
<1>2. Suits(pc) /\ Knows(pc, seen)
  BY DEF Kept
<1>3. volumes \in {"one", "two"}
  BY DEF IInv, TypeOK
<1>4. TypeOK
  BY DEF IInv
<1>5. agent'[a].pc \in Plain => Suits(pc)' /\ Knows(pc, seen)'
  BY DEF Plain, Suits, Knows, OnlyCopy, OnlyRename, Cleaning
<1>6. CASE LookAtSource(a) \/ LookAtDestination(a) \/ Recover(a)
  <2>1. \/ agent'[a].pc \in Plain
        \/ agent'[a].pc = "gone" /\ Gone
        \/ agent'[a].pc = "recover" /\ Gone /\ volumes = "one"
        \/ agent'[a].pc = "compare" /\ fs["destination"] # Absent
        \/ agent'[a].pc = "renamed" /\ Gone /\ volumes = "one"
    BY <1>2, <1>3, <1>4, <1>6, RowsWritten
    DEF LookAtSource, LookAtDestination, Recover, Reads, Plain, Gone, Absent, Strategy,
        Knows, Suits, OnlyRename
  <2> QED
    BY <1>1, <1>5, <2>1 DEF Suits, Knows, OnlyCopy, OnlyRename, Cleaning, Gone, Reached
<1>7. CASE Compare(a)
  <2>1. CASE Reads(a, "compare") /\ fs["source"] # Absent
    <3>1. agent'[a].pc = "match" /\ agent'[a].seen = fs["source"]
      BY <1>4, <1>7, <2>1, RowsWritten DEF Compare, Reads
    <3>2. fs["destination"] # Absent
      BY <1>2, <2>1 DEF Knows, Reads
    <3>3. volumes = "one" => \E e \in fs["source"] : e \in 0 .. edits /\ e \notin fs["destination"]
      BY <2>1 DEF Kept, OneOfEach, Places, Absent
    <3> QED
      BY <1>1, <3>1, <3>2, <3>3 DEF Suits, Knows, OnlyCopy, OnlyRename, Cleaning
  <2>2. CASE ~(Reads(a, "compare") /\ fs["source"] # Absent)
    <3>1. agent'[a].pc \in Plain \/ (agent'[a].pc = "copied" /\ volumes = "two")
      BY <1>2, <1>3, <1>4, <1>7, <2>2, RowsWritten
      DEF Compare, Reads, Plain, Knows, Strategy
    <3> QED
      BY <1>1, <1>5, <3>1 DEF Suits, Knows, OnlyCopy, OnlyRename, Cleaning
  <2> QED
    BY <2>1, <2>2
<1>8. CASE HashSource(a)
  <2>1. \/ agent'[a].pc \in Plain
        \/ agent'[a].pc = "stage" /\ volumes = "two"
        \/ agent'[a].pc = "evidence" /\ volumes = "one"
    BY <1>3, <1>4, <1>8, RowsWritten DEF HashSource, Plain, Strategy
  <2> QED
    BY <1>1, <1>5, <2>1 DEF Suits, Knows, OnlyCopy, OnlyRename, Cleaning
<1>9. CASE \/ Verify(a) \/ LookForPublished(a) \/ LookForStaging(a) \/ MatchPublished(a)
           \/ HashStaging(a)
  <2>1. \/ agent'[a].pc \in Plain
        \/ agent'[a].pc = "renamed" /\ pc = "verifyRename"
        \/ /\ agent'[a].pc \in OnlyCopy \ (Cleaning \cup {"cleaned"})
           /\ pc \in OnlyCopy
    BY <1>4, <1>9, RowsWritten
    DEF Verify, LookForPublished, LookForStaging, MatchPublished, HashStaging, Reads,
        Plain, OnlyCopy, Cleaning
  <2> QED
    BY <1>1, <1>2, <1>3, <1>5, <2>1 DEF Suits, Knows, OnlyCopy, OnlyRename, Cleaning, Gone
<1>10. CASE HashDestination(a) \/ LookForSource(a) \/ HashRetiring(a)
  <2>1. pc \in OnlyCopy
    BY <1>10 DEF HashDestination, LookForSource, HashRetiring, Reads, OnlyCopy, Cleaning
  <2>2. \/ agent'[a].pc \in Plain
        \/ /\ agent'[a].pc \in {"cleanLook", "cleanGone", "cleanStanding", "retire"}
           /\ agent'[a].seen \subseteq fs["destination"]
           /\ agent'[a].pc = "cleanGone" => Gone
    BY <1>2, <1>4, <1>10, RowsWritten
    DEF HashDestination, LookForSource, HashRetiring, Reads, Plain, Knows, Cleaning, Gone, Absent
  <2> QED
    BY <1>1, <1>2, <1>3, <1>5, <2>1, <2>2 DEF Suits, Knows, OnlyCopy, OnlyRename, Cleaning, Gone
<1>11. CASE LookForRecovery(a) \/ HashRetained(a) \/ Recheck(a)
  <2>1. pc \in Cleaning /\ seen \subseteq fs["destination"]
    BY <1>2, <1>11 DEF LookForRecovery, HashRetained, Recheck, Reads, Cleaning, Knows
  <2>2. Gone /\ fs["recovery"] \subseteq fs["destination"] => Reached
    BY DEF Kept, FolderBearsEdits, Reached
  <2>3. \/ agent'[a].pc \in Plain
        \/ agent'[a].pc \in {"recheck", "cleaned"} /\ Reached
        \/ agent'[a].pc = "cleanHash"
    BY <1>2, <1>4, <1>11, <2>1, <2>2, RowsWritten
    DEF LookForRecovery, HashRetained, Recheck, RetainedMatches, Reads, Plain, Knows, Absent
  <2>4. agent'[a].pc \in Cleaning => agent'[a].seen \subseteq fs["destination"]
    BY <1>4, <1>11, <2>1, RowsWritten
    DEF LookForRecovery, HashRetained, Recheck, Cleaning, Absent
  <2> QED
    BY <1>1, <1>2, <1>3, <1>5, <2>1, <2>3, <2>4
    DEF Suits, Knows, OnlyCopy, OnlyRename, Cleaning, Gone, Reached
<1> QED
  BY <1>6, <1>7, <1>8, <1>9, <1>10, <1>11

\* The same after a step that changes the disk, or that takes or leaves the job.
LEMMA WritersKnow ==
  ASSUME IInv, Kept, Grown, volumes # "hidden", NEW a \in Agents,
         \/ Claim(a) \/ ReportAccepted(a) \/ Abandon(a) \/ Crash(a) \/ Arm(a) \/ Fails(a)
         \/ WriteEvidence(a) \/ Rename(a) \/ MakeStaging(a) \/ CopyTree(a)
         \/ Publish(a) \/ Retire(a)
  PROVE  Suits(agent[a].pc)' /\ Knows(agent[a].pc, agent[a].seen)'
<1> DEFINE pc == agent[a].pc
           seen == agent[a].seen
<1>1. UNCHANGED volumes
  BY DEF Claim, ReportAccepted, Abandon, Crash, Arm, Fails, WriteEvidence, Rename,
         MakeStaging, CopyTree, Publish, Retire, Changes
<1>2. Suits(pc) /\ Knows(pc, seen)
  BY DEF Kept
<1>3. volumes \in {"one", "two"} /\ TypeOK /\ agent \in [Agents -> AgentRow]
  BY DEF IInv, TypeOK
<1>4. agent'[a].pc \in Plain => Suits(pc)' /\ Knows(pc, seen)'
  BY DEF Plain, Suits, Knows, OnlyCopy, OnlyRename, Cleaning
<1>5. agent'[a].pc = "cleanDst" /\ volumes = "two" => Suits(pc)' /\ Knows(pc, seen)'
  BY <1>1 DEF Suits, Knows, OnlyCopy, OnlyRename, Cleaning
<1>6. CASE Claim(a)
  <2>1. agent'[a].pc = IF job.stage = "apply" THEN "look" ELSE "cleanDst"
    BY <1>3, <1>6 DEF Claim
  <2>2. volumes = "one" => job.stage = "apply"
    BY <1>6 DEF Claim, Free, Kept, OneOfEach
  <2> QED
    BY <1>3, <1>4, <1>5, <2>1, <2>2 DEF Plain
<1>7. CASE Fails(a)
  <2>1. \/ agent'[a].pc = "failed"
        \/ agent'[a].pc = (IF job.stage = "apply" THEN "look" ELSE "cleanDst") /\ Holds(a)
    BY <1>3, <1>7, RowsWritten DEF Fails
  <2>2. Holds(a) /\ volumes = "one" => job.stage = "apply"
    BY MoveAssumption DEF Holds, Kept, OneOfEach
  <2> QED
    BY <1>3, <1>4, <1>5, <2>1, <2>2 DEF Plain
<1>8. CASE ReportAccepted(a) \/ Abandon(a) \/ Crash(a)
  <2>1. agent'[a].pc = "idle"
    BY <1>3, <1>8, RowsWritten DEF ReportAccepted, Abandon, Crash
  <2> QED
    BY <1>4, <2>1 DEF Plain
<1>9. CASE Arm(a)
  <2>1. agent'[a].pc = pc /\ agent'[a].seen = seen
    BY <1>3, <1>9 DEF Arm
  <2> QED
    BY <1>1, <1>2, <2>1, KnowledgeLasts
<1>10. CASE WriteEvidence(a) \/ Rename(a)
  <2>1. volumes = "one"
    BY <1>2, <1>3, <1>10 DEF WriteEvidence, Rename, Changes, Suits, OnlyRename
  <2>2. \/ agent'[a].pc \in Plain
        \/ agent'[a].pc = "rename"
        \/ agent'[a].pc = "verifyRename" /\ fs' = Moved("source", "destination")
    BY <1>3, <1>10, <2>1, RowsWritten DEF WriteEvidence, Rename, Plain
  <2>3. fs' = Moved("source", "destination") => Gone'
    BY <1>3 DEF TypeOK, Moved, Absent, Gone, Places
  <2> QED
    BY <1>1, <1>4, <2>1, <2>2, <2>3 DEF Suits, Knows, OnlyCopy, OnlyRename, Cleaning
<1>11. CASE MakeStaging(a) \/ CopyTree(a) \/ Publish(a)
  <2>1. volumes = "two"
    BY <1>2, <1>3, <1>11 DEF MakeStaging, CopyTree, Publish, Changes, Suits, OnlyCopy
  <2>2. \/ agent'[a].pc \in Plain
        \/ agent'[a].pc \in {"copy", "stageHash", "verifyCopy", "copied"}
    BY <1>3, <1>11, RowsWritten DEF MakeStaging, CopyTree, Publish, Plain
  <2> QED
    BY <1>1, <1>4, <2>1, <2>2 DEF Suits, Knows, OnlyCopy, OnlyRename, Cleaning
<1>12. CASE Retire(a)
  <2>1. volumes = "two" /\ seen \subseteq fs'["destination"]
    BY <1>2, <1>3, <1>12 DEF Retire, Changes, Suits, Knows, OnlyCopy, Cleaning, Grown
  <2>2. \/ agent'[a].pc \in Plain
        \/ /\ agent'[a].pc = "retained" /\ fs' = Moved("source", "recovery")
           /\ agent'[a].seen \in {Absent, seen}
    BY <1>3, <1>12, RowsWritten DEF Retire, Retired, Plain
  <2>3. fs' = Moved("source", "recovery") => Gone'
    BY <1>3 DEF TypeOK, Moved, Absent, Gone, Places
  <2> QED
    BY <1>1, <1>4, <2>1, <2>2, <2>3 DEF Suits, Knows, OnlyCopy, OnlyRename, Cleaning, Absent
<1> QED
  BY <1>6, <1>7, <1>8, <1>9, <1>10, <1>11, <1>12

\* The job: only a holder works on it, within one volume nothing is cleaned up,
\* and it is ready only when the edits have arrived.
LEMMA JobKeepsUp ==
  ASSUME IInv, Kept, Grown, volumes # "hidden", [Next]_vars
  PROVE  /\ job'.holder # NoAgent => job'.stage \in {"apply", "cleanup"}
         /\ volumes = "one" => job'.stage # "cleanup"
         /\ job'.stage = "ready" => Reached'
<1> DEFINE Goal == /\ job'.holder # NoAgent => job'.stage \in {"apply", "cleanup"}
                   /\ volumes = "one" => job'.stage # "cleanup"
                   /\ job'.stage = "ready" => Reached'
<1>1. job \in JobRow /\ volumes \in {"one", "two"}
  BY DEF IInv, TypeOK
<1>2. Reached => Reached'
  BY DEF Reached, Grown
<1>3. ASSUME job'.stage = job.stage \/ job'.stage \in Stages \ {"cleanup", "ready"},
             \/ job'.holder = NoAgent
             \/ job'.holder = job.holder /\ job'.stage = job.stage
             \/ job'.stage \in {"apply", "cleanup"}
      PROVE  Goal
  BY <1>2, <1>3 DEF Kept, OneOfEach
<1>4. CASE ClaimExhausted
  BY <1>1, <1>3, <1>4 DEF ClaimExhausted, JobRow, Stages
<1>5. CASE LeaseExpires \/ UNCHANGED job
  <2>1. job'.stage = job.stage /\ job'.holder = job.holder
    BY <1>1, <1>5 DEF LeaseExpires, JobRow
  <2> QED
    BY <1>3, <2>1
<1>6. CASE ApproveRetry
  BY <1>1, <1>3, <1>6 DEF ApproveRetry, JobRow, Stages
<1>7. ASSUME NEW a \in Agents, Claim(a)
      PROVE  Goal
  BY <1>1, <1>3, <1>7 DEF Claim, Free, JobRow
<1>8. ASSUME NEW a \in Agents, ReportAccepted(a)
      PROVE  Goal
  <2> DEFINE r == agent[a].pc
  <2>1. job'.holder = NoAgent
    BY <1>1, <1>8 DEF ReportAccepted, JobRow
  <2>2. job'.stage = IF r # "failed" THEN StageAfter[r]
                     ELSE IF BudgetLeft THEN job.stage
                     ELSE IF job.stage = "apply" THEN "failed" ELSE "manual"
    BY <1>1, <1>8 DEF ReportAccepted, JobRow
  <2>3. Suits(r) /\ Knows(r, agent[a].seen)
    BY DEF Kept
  <2>4. CASE r = "failed"
    BY <1>3, <2>1, <2>2, <2>4 DEF Stages
  <2>5. CASE r = "copied"
    BY <2>1, <2>2, <2>3, <2>5 DEF StageAfter, Suits, OnlyCopy
  <2>6. CASE r = "cleaned"
    BY <1>2, <2>1, <2>2, <2>3, <2>6 DEF StageAfter, Knows
  <2>7. CASE r = "renamed"
    <3>1. volumes = "one" /\ Gone
      BY <1>1, <2>3, <2>7 DEF Suits, Knows, OnlyRename
    <3>2. Reached
      BY <3>1 DEF Kept, OneOfEach, FolderBearsEdits, Reached, Absent
    <3> QED
      BY <1>2, <2>1, <2>2, <2>7, <3>2 DEF StageAfter
  <2>8. CASE r \in {"missing", "stale", "manual"}
    BY <1>3, <2>1, <2>2, <2>8 DEF StageAfter, Stages
  <2> QED
    BY <1>8, <2>4, <2>5, <2>6, <2>7, <2>8 DEF ReportAccepted, Results
<1> QED
  BY <1>4, <1>5, <1>6, <1>7, <1>8
  DEF Next, JobStep, PeopleStep, AgentStep, vars, Edit, MakeFolder, Drag, Abandon, Crash,
      Arm, Fails, Reads, Changes, LookAtSource, LookAtDestination, Recover, Compare,
      HashSource, WriteEvidence, Rename, Verify, LookForPublished, LookForStaging,
      MatchPublished, MakeStaging, CopyTree, HashStaging, Publish, HashDestination,
      LookForSource, LookForRecovery, HashRetiring, Retire, HashRetained, Recheck

\* A step of an agent writes its own row only.
LEMMA OnlyItsRow ==
  ASSUME IInv, NEW a \in Agents, AgentStep(a)
  PROVE  \A b \in Agents \ {a} : agent'[b] = agent[b]
<1>1. agent \in [Agents -> AgentRow]
  BY DEF IInv, TypeOK
<1>2. \E row : agent' = [agent EXCEPT ![a] = row]
  BY DEF AgentStep, Claim, ReportAccepted, Abandon, Crash, Arm, Fails, Reads,
    Changes, LookAtSource, LookAtDestination, Recover, Compare, HashSource,
    WriteEvidence, Rename, Verify, LookForPublished, LookForStaging, MatchPublished,
    MakeStaging, CopyTree, HashStaging, Publish, HashDestination, LookForSource,
    LookForRecovery, HashRetiring, Retire, HashRetained, Recheck, Goes, Sees, Idle
<1> QED
  BY <1>1, <1>2

\* Every step keeps what the folders, the job and the agents say of the edits.
LEMMA KeptStays ==
  ASSUME IInv, Kept, volumes # "hidden", [Next]_vars
  PROVE  Kept' /\ volumes' # "hidden"
<1>1. DiskStep /\ UNCHANGED volumes
  BY StepsOfTheDisk
<1>2. Grown /\ FolderBearsEdits'
  BY <1>1, FoldersGrow DEF Kept
<1>3. /\ job'.holder # NoAgent => job'.stage \in {"apply", "cleanup"}
      /\ volumes = "one" => job'.stage # "cleanup"
      /\ job'.stage = "ready" => Reached'
  BY <1>2, JobKeepsUp
<1>4. volumes = "one" => OneOfEach'
  BY <1>1, <1>3, OneFolderEach
<1>5. ASSUME NEW b \in Agents, agent'[b] = agent[b]
      PROVE  Suits(agent[b].pc)' /\ Knows(agent[b].pc, agent[b].seen)'
  BY <1>1, <1>2, <1>5, KnowledgeLasts DEF Kept
<1>6. CASE UNCHANGED agent
  BY <1>1, <1>2, <1>3, <1>4, <1>5, <1>6 DEF Kept
<1>7. ASSUME NEW a \in Agents, AgentStep(a)
      PROVE  \A b \in Agents : Suits(agent[b].pc)' /\ Knows(agent[b].pc, agent[b].seen)'
  <2>1. Suits(agent[a].pc)' /\ Knows(agent[a].pc, agent[a].seen)'
    BY <1>2, <1>7, ReadersKnow, WritersKnow DEF AgentStep
  <2>2. \A b \in Agents \ {a} : agent'[b] = agent[b]
    BY <1>7, OnlyItsRow
  <2> QED
    BY <1>5, <2>1, <2>2
<1>8. \/ UNCHANGED agent
      \/ \E a \in Agents : AgentStep(a)
  BY DEF Next, JobStep, PeopleStep, vars, ClaimExhausted, LeaseExpires, ApproveRetry,
         Edit, MakeFolder, Drag
<1>9. CASE \E a \in Agents : AgentStep(a)
  BY <1>1, <1>2, <1>3, <1>4, <1>7, <1>9 DEF Kept
<1> QED
  BY <1>1, <1>6, <1>8, <1>9

LEMMA InitKept == Init => Kept
<1> SUFFICES ASSUME Init PROVE Kept
  OBVIOUS
<1>1. \A p \in Places : fs[p] = IF p = "source" THEN {0} ELSE Absent
  BY DEF Init
<1>2. fs["source"] = {0} /\ fs["recovery"] = Absent
  BY <1>1 DEF Places
<1>3. FolderBearsEdits
  BY <1>2 DEF Init, FolderBearsEdits, Gone
<1>4. OneOfEach
  BY <1>1, <1>2 DEF Init, OneOfEach, Absent
<1>5. \A a \in Agents : Suits(agent[a].pc) /\ Knows(agent[a].pc, agent[a].seen)
  BY DEF Init, NoTask, Suits, Knows, OnlyCopy, OnlyRename, Cleaning
<1> QED
  BY <1>3, <1>4, <1>5 DEF Init, Kept

\* An operation is called ready only when every edit made in the source folder
\* is at the destination, or in the folder that somebody dragged elsewhere:
\* with any number of agents, attempts and edits, and wherever an edit falls
\* between copy, manifest and cleanup (cleanupOperation's last comparisons).
THEOREM EditsArrive == Spec => []EditsReachDestination
<1> DEFINE Edits == volumes # "hidden" => Kept
<1>1. Init => Edits
  BY InitKept
<1>2. IInv /\ Edits /\ [Next]_vars => Edits'
  <2> SUFFICES ASSUME IInv, Edits, [Next]_vars, volumes' # "hidden" PROVE Kept'
    OBVIOUS
  <2>1. volumes' = volumes
    BY StepsOfTheDisk
  <2> QED
    BY <2>1, KeptStays
<1>3. Edits => EditsReachDestination
  BY DEF Kept, Reached, EditsReachDestination
<1> HIDE DEF Edits
<1> QED
  BY <1>1, <1>2, <1>3, Invariant, PTL DEF Spec

-----------------------------------------------------------------------------
(* The location is switched only to the folder itself                      *)

\* The marks that there are, the one of an unfinished copy included.
Given == (0 .. edits) \cup Half

\* A folder that nobody made at the destination stands there.
OursStands == fs["destination"] # Absent /\ fs["destination"] \cap strangers = {}

\* An agent here bears the manifest of the source; and here it cleans up.
ReadSource == {"match", "evidence", "rename", "verifyRename", "stage", "stageOver",
               "stageNew", "stageMatch", "stageHash", "verifyCopy", "mkdir", "copy", "publish"}
CleansUp == Cleaning \cup {"cleanDst", "cleaned"}

\* What an agent at pc that has seen a manifest knows of whose folder is whose.
TellsApart(pc, seen) ==
  /\ seen \subseteq Given
  /\ pc \in ReadSource => seen # Absent /\ seen \cap strangers = {}
  /\ pc = "recover" => fs["destination"] # Absent
  /\ pc \in {"renamed", "copied"} => OursStands
  /\ pc \in CleansUp => job.stage \notin {"apply", "failed"}

\* What people made at the destination is nowhere but there.
StrangersApart ==
  /\ strangers \subseteq 0 .. edits
  /\ \A p \in Places : fs[p] \subseteq Given
  /\ \A p \in Places \ {"destination"} : fs[p] \cap strangers = {}

Told ==
  /\ StrangersApart
  /\ evidence \subseteq Given /\ evidence \cap strangers = {}
  /\ job.holder # NoAgent => job.stage \in {"apply", "cleanup"}
  /\ \A a \in Agents : TellsApart(agent[a].pc, agent[a].seen)

\* What a step does to the folders, and to what is remembered of who made them.
FolderStep ==
  \/ UNCHANGED <<fs, edits, strangers>>
  \/ \E p \in {"source", "destination", "recovery"} : Edit(p)
  \/ \E p \in {"source", "destination"} : MakeFolder(p)
  \/ /\ UNCHANGED <<edits, strangers>>
     /\ \/ \E from \in {"source", "staging"}, to \in {"destination", "elsewhere", "recovery"} :
             fs[from] # Absent /\ fs[to] = Absent /\ fs' = Moved(from, to)
        \/ \E c \in (SUBSET fs["source"]) \cup {Half} : fs' = [fs EXCEPT !["staging"] = c]

LEMMA StepsOfTheFolders ==
  ASSUME [Next]_vars
  PROVE  FolderStep
<1> USE DEF FolderStep
<1>1. CASE JobStep \/ UNCHANGED vars
  BY <1>1 DEF JobStep, ClaimExhausted, LeaseExpires, ApproveRetry, vars, history
<1>2. CASE PeopleStep
  BY <1>2 DEF PeopleStep, Drag, history
<1>3. ASSUME NEW a \in Agents, AgentStep(a)
      PROVE  FolderStep
  <2>1. CASE Rename(a) \/ Retire(a) \/ Publish(a)
    BY <2>1 DEF Rename, Retire, Retired, Publish, Changes, history
  <2>2. CASE MakeStaging(a) \/ CopyTree(a)
    BY <2>2 DEF MakeStaging, CopyTree, Changes, history
  <2>3. CASE UNCHANGED <<fs, history>>
    BY <2>3 DEF history
  <2> QED
    BY <1>3, <2>1, <2>2, <2>3
    DEF AgentStep, Claim, ReportAccepted, Abandon, Crash, Arm, Fails, Reads, Changes,
        LookAtSource, LookAtDestination, Recover, Compare, HashSource, WriteEvidence, Verify,
        LookForPublished, LookForStaging, MatchPublished, HashStaging, HashDestination,
        LookForSource, LookForRecovery, HashRetiring, HashRetained, Recheck
<1> QED
  BY <1>1, <1>2, <1>3 DEF Next

\* No step mixes the folders of others with the one that is moved, and what was
\* known of either stays so.
Apart ==
  /\ Given \subseteq Given'
  /\ fs["destination"] # Absent => fs'["destination"] # Absent
  /\ OursStands => OursStands'
  /\ \A S \in SUBSET Given : S \cap strangers = {} => S \cap strangers' = {}

LEMMA StrangersStayApart ==
  ASSUME IInv, StrangersApart, FolderStep
  PROVE  StrangersApart' /\ Apart
<1>1. fs \in [Places -> Contents] /\ edits \in 0 .. MaxEdits /\ edits \in Nat
  BY MoveAssumption DEF IInv, TypeOK
<1>2. {"source", "staging", "destination", "recovery", "elsewhere"} = Places
  BY DEF Places
<1>3. 0 .. edits \subseteq 0 .. (edits + 1) /\ edits + 1 \in 0 .. (edits + 1)
  BY <1>1
<1> USE DEF StrangersApart, Apart, OursStands, Given
<1>4. CASE UNCHANGED <<fs, edits, strangers>>
  BY <1>4
<1>5. ASSUME NEW p \in {"source", "destination", "recovery"}, Edit(p)
      PROVE  StrangersApart' /\ Apart
  <2>1. /\ \A q \in Places : fs'[q] = IF q = p THEN fs[p] \cup {edits + 1} ELSE fs[q]
        /\ edits' = edits + 1 /\ strangers' = strangers
    BY <1>1, <1>2, <1>5 DEF Edit
  <2>2. edits + 1 \notin strangers
    BY <1>1
  <2> QED
    BY <1>2, <1>3, <2>1, <2>2 DEF Absent
<1>6. ASSUME NEW p \in {"source", "destination"}, MakeFolder(p)
      PROVE  StrangersApart' /\ Apart
  <2>1. /\ fs[p] = {} /\ edits < MaxEdits
        /\ \A q \in Places : fs'[q] = IF q = p THEN {edits + 1} ELSE fs[q]
        /\ edits' = edits + 1
        /\ strangers' = IF p = "destination" THEN strangers \cup {edits + 1} ELSE strangers
    BY <1>1, <1>2, <1>6 DEF MakeFolder, Absent
  <2>2. edits + 1 \notin Given
    BY <1>1, <2>1, MoveAssumption DEF Half
  <2>3. p = "source" => edits + 1 \notin strangers
    BY <2>2
  <2>4. StrangersApart'
    <3>1. strangers' \subseteq 0 .. edits' /\ \A q \in Places : fs'[q] \subseteq Given'
      BY <1>3, <2>1
    <3>2. ASSUME NEW q \in Places \ {"destination"}
          PROVE  fs'[q] \cap strangers' = {}
      <4>1. edits + 1 \notin fs[q] /\ fs[q] \cap strangers = {}
        BY <2>2
      <4> QED
        BY <2>1, <2>3, <4>1
    <3> QED
      BY <3>1, <3>2
  <2>5. Apart
    BY <1>2, <1>3, <2>1, <2>2 DEF Absent
  <2> QED
    BY <2>4, <2>5
<1>7. ASSUME UNCHANGED <<edits, strangers>>,
             NEW from \in {"source", "staging"}, NEW to \in {"destination", "elsewhere", "recovery"},
             fs[from] # Absent, fs[to] = Absent, fs' = Moved(from, to)
      PROVE  StrangersApart' /\ Apart
  <2>1. \A q \in Places : fs'[q] = IF q = from THEN {} ELSE IF q = to THEN fs[from] ELSE fs[q]
    BY <1>1, <1>2, <1>7 DEF Moved, Absent
  <2> QED
    BY <1>2, <1>7, <2>1 DEF Absent
<1>8. ASSUME UNCHANGED <<edits, strangers>>,
             NEW c \in (SUBSET fs["source"]) \cup {Half}, fs' = [fs EXCEPT !["staging"] = c]
      PROVE  StrangersApart' /\ Apart
  <2>1. \A q \in Places : fs'[q] = IF q = "staging" THEN c ELSE fs[q]
    BY <1>1, <1>2, <1>8
  <2>2. Half \cap strangers = {}
    <3>1. \A e \in 0 .. edits : e # MaxEdits + 1
      BY <1>1, MoveAssumption
    <3> QED
      BY <3>1 DEF Half
  <2>3. c \subseteq Given /\ c \cap strangers = {}
    BY <1>2, <2>2
  <2> QED
    BY <1>2, <1>8, <2>1, <2>3
<1> HIDE DEF StrangersApart, Apart, OursStands, Given
<1> QED
  BY <1>4, <1>5, <1>6, <1>7, <1>8 DEF FolderStep

\* What an agent knows stays so, whatever the others do.
LEMMA TellingLasts ==
  ASSUME Apart, job.stage \notin {"apply", "failed"} => job'.stage \notin {"apply", "failed"},
         NEW pc, NEW seen, TellsApart(pc, seen)
  PROVE  TellsApart(pc, seen)'
BY DEF Apart, TellsApart

\* A job that was past the move does not come back to it, and only a holder
\* works on it.
LEMMA StagesGoOn ==
  ASSUME IInv, [Next]_vars, job.holder # NoAgent => job.stage \in {"apply", "cleanup"}
  PROVE  /\ job'.holder # NoAgent => job'.stage \in {"apply", "cleanup"}
         /\ job.stage \notin {"apply", "failed"} => job'.stage \notin {"apply", "failed"}
<1> DEFINE Goal ==
      /\ job'.holder # NoAgent => job'.stage \in {"apply", "cleanup"}
      /\ job.stage \notin {"apply", "failed"} => job'.stage \notin {"apply", "failed"}
<1>1. job \in JobRow
  BY DEF IInv, TypeOK
<1>2. CASE ClaimExhausted
  BY <1>1, <1>2 DEF ClaimExhausted, JobRow
<1>3. CASE LeaseExpires \/ UNCHANGED job
  BY <1>1, <1>3 DEF LeaseExpires, JobRow
<1>4. CASE ApproveRetry
  BY <1>1, <1>4 DEF ApproveRetry, JobRow
<1>5. ASSUME NEW a \in Agents, Claim(a)
      PROVE  Goal
  BY <1>1, <1>5 DEF Claim, Free, JobRow
<1>6. ASSUME NEW a \in Agents, ReportAccepted(a)
      PROVE  Goal
  <2> DEFINE r == agent[a].pc
  <2>1. /\ job'.holder = NoAgent /\ r \in Results
        /\ job'.stage = IF r # "failed" THEN StageAfter[r]
                        ELSE IF BudgetLeft THEN job.stage
                        ELSE IF job.stage = "apply" THEN "failed" ELSE "manual"
    BY <1>1, <1>6 DEF ReportAccepted, JobRow
  <2>2. r # "failed" => StageAfter[r] \notin {"apply", "failed"}
    BY <2>1 DEF StageAfter, Results
  <2> QED
    BY <2>1, <2>2
<1> QED
  BY <1>2, <1>3, <1>4, <1>5, <1>6
  DEF Next, JobStep, PeopleStep, AgentStep, vars, Edit, MakeFolder, Drag, Abandon, Crash,
      Arm, Fails, Reads, Changes, LookAtSource, LookAtDestination, Recover, Compare,
      HashSource, WriteEvidence, Rename, Verify, LookForPublished, LookForStaging,
      MatchPublished, MakeStaging, CopyTree, HashStaging, Publish, HashDestination,
      LookForSource, LookForRecovery, HashRetiring, Retire, HashRetained, Recheck

\* An agent that goes on with the manifest it has seen.
LEMMA SeenKept ==
  ASSUME TypeOK, NEW a \in Agents, NEW pc, Goes(a, pc), pc \in ReadSource
  PROVE  agent'[a].seen = agent[a].seen
<1>1. agent \in [Agents -> AgentRow]
  BY DEF TypeOK
<1>2. pc \notin Forgetting
  BY DEF ReadSource, Forgetting, Results
<1> QED
  BY <1>1, <1>2 DEF Goes

\* What an agent knows after a step of its own.
LEMMA AgentsTellApart ==
  ASSUME IInv, Told, Apart, NEW a \in Agents, AgentStep(a),
         job.stage \notin {"apply", "failed"} => job'.stage \notin {"apply", "failed"}
  PROVE  TellsApart(agent[a].pc, agent[a].seen)'
<1> DEFINE pc == agent[a].pc
           seen == agent[a].seen
           Rest == Steps \ (ReadSource \cup CleansUp \cup {"recover", "renamed", "copied"})
<1>1. TellsApart(pc, seen)
  BY DEF Told
<1>2. TypeOK /\ agent \in [Agents -> AgentRow]
  BY DEF IInv, TypeOK
<1>3. agent'[a].seen \in {Absent, seen} => agent'[a].seen \subseteq Given'
  BY <1>1 DEF TellsApart, Apart, Absent
<1>4. agent'[a].pc \in Rest /\ agent'[a].seen \subseteq Given' => TellsApart(pc, seen)'
  BY DEF TellsApart
<1>5. /\ {"idle", "look", "gone", "standing", "compare", "hash", "failed", "missing", "stale",
         "manual"} \subseteq Rest
  BY DEF Steps, Running, Results, Looking, Changing, ReadSource, CleansUp, Cleaning
<1> HIDE DEF Rest
\* It keeps the manifest of the source, and goes on with it.
<1>6. ASSUME pc \in ReadSource, agent'[a].seen \in {Absent, seen},
             agent'[a].pc \in ReadSource \cup {"renamed", "copied"},
             agent'[a].pc \in ReadSource => agent'[a].seen = seen,
             agent'[a].pc \in {"renamed", "copied"} => seen = fs["destination"]
      PROVE  TellsApart(pc, seen)'
  <2>1. seen # Absent /\ seen \cap strangers = {} /\ seen \subseteq Given
    BY <1>1, <1>6 DEF TellsApart
  <2>2. seen \cap strangers' = {} /\ seen \subseteq Given'
    BY <2>1 DEF Apart
  <2>3. agent'[a].pc \in {"renamed", "copied"} => OursStands'
    BY <1>6, <2>1 DEF Apart, OursStands
  <2> QED
    BY <1>3, <1>6, <2>1, <2>2, <2>3 DEF TellsApart, ReadSource, CleansUp, Cleaning
<1>7. ASSUME agent'[a].pc \in CleansUp, agent'[a].seen \subseteq Given',
             job.stage \notin {"apply", "failed"}
      PROVE  TellsApart(pc, seen)'
  BY <1>7 DEF TellsApart, ReadSource, CleansUp, Cleaning
<1>8. CASE Claim(a)
  <2>1. agent'[a].pc = (IF job.stage = "apply" THEN "look" ELSE "cleanDst")
        /\ agent'[a].seen = seen
    BY <1>2, <1>8 DEF Claim
  <2>2. job.stage # "apply" => job.stage \notin {"apply", "failed"}
    BY <1>8 DEF Claim, Free
  <2> QED
    BY <1>3, <1>4, <1>5, <1>7, <2>1, <2>2 DEF CleansUp
<1>9. CASE Fails(a)
  <2>1. /\ agent'[a].seen \in {Absent, seen}
        /\ \/ agent'[a].pc = "failed"
           \/ agent'[a].pc = (IF job.stage = "apply" THEN "look" ELSE "cleanDst") /\ Holds(a)
    BY <1>2, <1>9, RowsWritten DEF Fails
  <2>2. Holds(a) /\ job.stage # "apply" => job.stage \notin {"apply", "failed"}
    BY MoveAssumption DEF Holds, Told
  <2> QED
    BY <1>3, <1>4, <1>5, <1>7, <2>1, <2>2 DEF CleansUp
<1>10. CASE ReportAccepted(a) \/ Abandon(a) \/ Crash(a)
  <2>1. agent'[a] = NoTask
    BY <1>2, <1>10 DEF ReportAccepted, Abandon, Crash, Idle
  <2> QED
    BY <1>3, <1>4, <1>5, <2>1 DEF NoTask
<1>11. CASE Arm(a)
  <2>1. agent'[a].pc = pc /\ agent'[a].seen = seen
    BY <1>2, <1>11 DEF Arm
  <2> QED
    BY <1>1, <2>1, TellingLasts
<1>12. CASE LookAtSource(a) \/ LookAtDestination(a) \/ Recover(a)
  <2>1. /\ agent'[a].seen \in {Absent, seen}
        /\ \/ agent'[a].pc \in Rest
           \/ agent'[a].pc = "recover" /\ fs["destination"] # Absent
           \/ agent'[a].pc = "renamed" /\ evidence = fs["destination"] /\ pc = "recover"
    BY <1>2, <1>5, <1>12, RowsWritten
    DEF LookAtSource, LookAtDestination, Recover, MatchesEvidence, Reads
  <2>2. evidence = fs["destination"] /\ pc = "recover" => OursStands
    BY <1>1 DEF TellsApart, Told, OursStands
  <2>3. agent'[a].pc \in {"recover", "renamed"} =>
          agent'[a].pc \notin ReadSource \cup CleansUp \cup {"copied"}
    BY DEF ReadSource, CleansUp, Cleaning
  <2> QED
    BY <1>3, <1>4, <2>1, <2>2, <2>3 DEF TellsApart, Apart
<1>13. CASE Compare(a)
  <2>1. CASE Reads(a, "compare") /\ fs["source"] # Absent
    <3>1. agent'[a].pc = "match" /\ agent'[a].seen = fs["source"]
      BY <1>2, <1>13, <2>1, RowsWritten DEF Compare, Reads
    <3>2. fs["source"] \subseteq Given /\ fs["source"] \cap strangers = {}
      BY DEF Told, StrangersApart, Places
    <3> QED
      BY <2>1, <3>1, <3>2 DEF TellsApart, Apart, ReadSource, CleansUp, Cleaning
  <2>2. CASE ~(Reads(a, "compare") /\ fs["source"] # Absent)
    <3>1. /\ agent'[a].seen \in {Absent, seen}
          /\ \/ agent'[a].pc \in Rest
             \/ /\ agent'[a].pc \in {"renamed", "copied"}
                /\ pc = "match" /\ fs["destination"] = seen
      BY <1>2, <1>5, <1>13, <2>2, RowsWritten DEF Compare, Reads
    <3> QED
      BY <1>3, <1>4, <1>6, <3>1 DEF ReadSource
  <2> QED
    BY <2>1, <2>2
<1>14. CASE HashSource(a)
  <2>1. \/ agent'[a].pc \in Rest /\ agent'[a].seen \in {Absent, seen}
        \/ /\ fs["source"] # Absent
           /\ agent'[a].pc \in {"stage", "evidence"} /\ agent'[a].seen = fs["source"]
    BY <1>2, <1>5, <1>14, RowsWritten DEF HashSource
  <2>2. fs["source"] \subseteq Given /\ fs["source"] \cap strangers = {}
    BY DEF Told, StrangersApart, Places
  <2> QED
    BY <1>3, <1>4, <2>1, <2>2 DEF TellsApart, Apart, ReadSource, CleansUp, Cleaning
<1>15. CASE \/ WriteEvidence(a) \/ Rename(a) \/ Verify(a) \/ LookForPublished(a)
            \/ LookForStaging(a) \/ MatchPublished(a) \/ MakeStaging(a) \/ CopyTree(a)
            \/ HashStaging(a) \/ Publish(a)
  <2>1. pc \in ReadSource
    BY <1>15 DEF WriteEvidence, Rename, Verify, LookForPublished, LookForStaging,
         MatchPublished, MakeStaging, CopyTree, HashStaging, Publish, Reads, Changes, ReadSource
  <2>2. \E new \in Rest \cup ReadSource \cup {"renamed", "copied"} :
          Goes(a, new) /\ (new \in {"renamed", "copied"} => seen = fs["destination"])
    <3>1. CASE WriteEvidence(a) \/ Rename(a) \/ Verify(a)
      BY <1>5, <3>1 DEF WriteEvidence, Rename, Verify, ReadSource
    <3>2. CASE LookForPublished(a) \/ LookForStaging(a) \/ MatchPublished(a)
      BY <1>5, <3>2 DEF LookForPublished, LookForStaging, MatchPublished, ReadSource
    <3>3. CASE MakeStaging(a) \/ CopyTree(a) \/ HashStaging(a) \/ Publish(a)
      BY <1>5, <3>3 DEF MakeStaging, CopyTree, HashStaging, Publish, ReadSource
    <3> QED
      BY <1>15, <3>1, <3>2, <3>3
  <2>3. PICK new \in Rest \cup ReadSource \cup {"renamed", "copied"} :
          Goes(a, new) /\ (new \in {"renamed", "copied"} => seen = fs["destination"])
    BY <2>2
  <2>4. agent'[a].pc = new /\ agent'[a].seen \in {Absent, seen}
    BY <1>2, <2>3, RowsWritten
  <2>5. new \in ReadSource => agent'[a].seen = seen
    BY <1>2, <2>3, SeenKept
  <2> QED
    BY <1>3, <1>4, <1>6, <2>1, <2>3, <2>4, <2>5
<1>16. CASE \/ HashDestination(a) \/ LookForSource(a) \/ LookForRecovery(a) \/ HashRetiring(a)
            \/ Retire(a) \/ HashRetained(a) \/ Recheck(a)
  <2>1. pc \in CleansUp
    BY <1>16 DEF HashDestination, LookForSource, LookForRecovery, HashRetiring, Retire,
         HashRetained, Recheck, Reads, Changes, CleansUp, Cleaning
  <2>2. job.stage \notin {"apply", "failed"}
    BY <1>1, <2>1 DEF TellsApart
  <2>3. /\ agent'[a].pc \in Rest \cup CleansUp
        /\ agent'[a].seen \in {Absent, seen, fs["destination"]}
    BY <1>2, <1>5, <1>16, RowsWritten
    DEF HashDestination, LookForSource, LookForRecovery, HashRetiring, Retire,
        HashRetained, Recheck, CleansUp, Cleaning
  <2>4. fs["destination"] \subseteq Given'
    BY DEF Told, StrangersApart, Places, Apart
  <2> QED
    BY <1>3, <1>4, <1>7, <2>2, <2>3, <2>4
<1> QED
  BY <1>8, <1>9, <1>10, <1>11, <1>12, <1>13, <1>14, <1>15, <1>16 DEF AgentStep

\* What the evidence file says is of the source, or of nothing.
LEMMA EvidenceApart ==
  ASSUME IInv, Told, Apart, [Next]_vars
  PROVE  evidence' \subseteq Given' /\ evidence' \cap strangers' = {}
<1>1. evidence \subseteq Given /\ evidence \cap strangers = {}
  BY DEF Told
<1>2. CASE UNCHANGED evidence
  BY <1>1, <1>2 DEF Apart
<1>3. ASSUME NEW a \in Agents, WriteEvidence(a)
      PROVE  evidence' \in {evidence, agent[a].seen} /\ agent[a].pc = "evidence"
  BY <1>3 DEF WriteEvidence, Changes
<1>4. ASSUME NEW a \in Agents, Crash(a)
      PROVE  evidence' = evidence \/ (evidence' = Half /\ UNCHANGED <<edits, strangers>>)
  BY <1>4 DEF Crash, history
<1>5. ASSUME NEW a \in Agents, agent[a].pc = "evidence"
      PROVE  agent[a].seen \subseteq Given /\ agent[a].seen \cap strangers = {}
  BY <1>5 DEF Told, TellsApart, ReadSource
<1>6. Half \subseteq Given /\ Half \cap strangers = {}
  <2>1. edits \in 0 .. MaxEdits /\ strangers \subseteq 0 .. edits
    BY DEF IInv, TypeOK, Told, StrangersApart
  <2>2. \A e \in 0 .. edits : e # MaxEdits + 1
    BY <2>1, MoveAssumption
  <2> QED
    BY <2>1, <2>2 DEF Given, Half
<1>7. \/ UNCHANGED evidence
      \/ \E a \in Agents : WriteEvidence(a) \/ Crash(a)
  BY DEF Next, JobStep, PeopleStep, AgentStep, vars, ClaimExhausted, LeaseExpires,
      ApproveRetry, Edit, MakeFolder, Drag, Claim, ReportAccepted, Abandon,
      Arm, Fails, Reads, Changes, LookAtSource, LookAtDestination, Recover, Compare,
      HashSource, Rename, Verify, LookForPublished, LookForStaging,
      MatchPublished, MakeStaging, CopyTree, HashStaging, Publish, HashDestination,
      LookForSource, LookForRecovery, HashRetiring, Retire, HashRetained, Recheck
<1> QED
  BY <1>1, <1>2, <1>3, <1>4, <1>5, <1>6, <1>7 DEF Apart

LEMMA ToldStays ==
  ASSUME IInv, Told, [Next]_vars
  PROVE  Told'
<1>1. StrangersApart' /\ Apart
  BY StepsOfTheFolders, StrangersStayApart DEF Told
<1>2. /\ job'.holder # NoAgent => job'.stage \in {"apply", "cleanup"}
      /\ job.stage \notin {"apply", "failed"} => job'.stage \notin {"apply", "failed"}
  BY StagesGoOn DEF Told
<1>3. evidence' \subseteq Given' /\ evidence' \cap strangers' = {}
  BY <1>1, EvidenceApart
<1>4. ASSUME NEW b \in Agents, agent'[b] = agent[b]
      PROVE  TellsApart(agent[b].pc, agent[b].seen)'
  BY <1>1, <1>2, <1>4, TellingLasts DEF Told
<1>5. ASSUME NEW a \in Agents, AgentStep(a)
      PROVE  \A b \in Agents : TellsApart(agent[b].pc, agent[b].seen)'
  BY <1>1, <1>2, <1>4, <1>5, AgentsTellApart, OnlyItsRow
<1>6. \/ UNCHANGED agent
      \/ \E a \in Agents : AgentStep(a)
  BY DEF Next, JobStep, PeopleStep, vars, ClaimExhausted, LeaseExpires, ApproveRetry,
         Edit, MakeFolder, Drag
<1> QED
  BY <1>1, <1>2, <1>3, <1>4, <1>5, <1>6 DEF Told

LEMMA InitTold == Init => Told
<1> SUFFICES ASSUME Init PROVE Told
  OBVIOUS
<1>1. \A p \in Places : fs[p] \subseteq {0}
  BY DEF Init, Absent
<1>2. StrangersApart
  BY <1>1 DEF Init, StrangersApart, Given
<1>3. \A a \in Agents : TellsApart(agent[a].pc, agent[a].seen)
  BY DEF Init, NoTask, TellsApart, ReadSource, CleansUp, Cleaning, Absent
<1> QED
  BY <1>2, <1>3 DEF Init, Told, Absent

\* The location of a case is switched only to a finished folder that nobody made
\* at the destination in the meantime, with any number of agents that crash and
\* overtake one another: what an agent publishes or takes for its own work has
\* the manifest it read from the source, or wrote into the evidence file.
THEOREM SwitchIsSafe == Spec => SwitchesToTheFolder
<1> DEFINE Step == job.stage = "apply" /\ job'.stage \in {"ready", "cleanup"}
                   => Whole("destination") /\ fs["destination"] \cap strangers = {}
<1>1. IInv /\ Told /\ [Next]_vars => Step
  <2> SUFFICES ASSUME IInv, Told, [Next]_vars,
                      job.stage = "apply", job'.stage \in {"ready", "cleanup"}
               PROVE  Whole("destination") /\ fs["destination"] \cap strangers = {}
    OBVIOUS
  <2>1. PICK a \in Agents : ReportAccepted(a)
    <3>1. job \in JobRow
      BY DEF IInv, TypeOK
    <3> QED
      BY <3>1
      DEF Next, JobStep, PeopleStep, AgentStep, vars, Edit, MakeFolder, Drag, Abandon, Crash,
        Arm, Fails, Reads, Changes, LookAtSource, LookAtDestination, Recover, Compare,
        HashSource, WriteEvidence, Rename, Verify, LookForPublished, LookForStaging,
        MatchPublished, MakeStaging, CopyTree, HashStaging, Publish, HashDestination,
        LookForSource, LookForRecovery, HashRetiring, Retire, HashRetained, Recheck,
        Claim, ClaimExhausted, LeaseExpires, ApproveRetry, JobRow
  <2>2. agent[a].pc \in {"renamed", "copied", "cleaned"}
    <3>1. job \in JobRow
      BY DEF IInv, TypeOK
    <3> QED
      BY <2>1, <3>1 DEF ReportAccepted, Results, StageAfter, JobRow
  <2>3. TellsApart(agent[a].pc, agent[a].seen)
    BY DEF Told
  <2>4. OursStands
    BY <2>2, <2>3 DEF TellsApart, CleansUp
  <2>5. fs["destination"] # Half
    BY DEF IInv, OnlyStagingHalf, Places
  <2> QED
    BY <2>4, <2>5 DEF OursStands, Whole
<1>2. IInv /\ Told /\ [Next]_vars => Told'
  BY ToldStays
<1> QED
  BY <1>1, <1>2, InitTold, Invariant, PTL DEF Spec, SwitchesToTheFolder
=============================================================================
