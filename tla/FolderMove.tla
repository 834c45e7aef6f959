------------------------------ MODULE FolderMove ------------------------------
(***************************************************************************)
(* How the File Agent moves the folder of a case: by one rename, or, between*)
(* volumes, by a copy into a staging folder that is published by a rename,  *)
(* the source being retired later by a cleanup job (executor: file-agent/   *)
(* src/file-operation-executor.ts).                                         *)
(*                                                                          *)
(* Agents crash between any two calls of the file system.  ownership.check  *)
(* runs before every call that changes the disk, but the lease may run out  *)
(* between the check and the change, so a change is two steps: Arm and the  *)
(* act itself.  People edit files through every one of these steps.         *)
(***************************************************************************)
EXTENDS Naturals, FiniteSets

CONSTANTS
  Agents,       \* File Agent processes
  NoAgent,      \* nobody has claimed the job
  MaxAttempts,  \* jobs.max_attempts
  MaxEdits      \* bound on the edits that people make

ASSUME MoveAssumption ==
  /\ NoAgent \notin Agents
  /\ MaxAttempts \in Nat \ {0}
  /\ MaxEdits \in Nat

\* The contents of a folder are the marks it bears: 0 is the folder the
\* operation was planned for, every edit adds a mark of its own.  Equal
\* contents stand for equal manifests.  A folder always bears a mark.
Marks == 0 .. MaxEdits
Absent == {}
Half == {MaxEdits + 1}   \* a copy that is not finished
Contents == (SUBSET Marks) \cup {Half}

Places == {"source", "staging", "destination", "recovery", "elsewhere"}

VARIABLES
  volumes,   \* "one"; "two" (different roots); "hidden" (one root, but EXDEV)
  fs,        \* what stands at each place
  evidence,  \* the manifest in the evidence file of the operation
  job,       \* the operation and its active job
  agent,     \* each agent: where it is, whether it is past ownership.check
  edits,     \* edits made so far
  atSource,  \* history: the edits made in the folder while it was at the source
  strangers  \* history: the marks of folders people created at the destination

vars == <<volumes, fs, evidence, job, agent, edits, atSource, strangers>>

Stages == {"apply", "cleanup", "ready", "failed", "missing", "stale", "manual"}

\* What an agent may have to report.
Results == {"renamed", "copied", "cleaned", "failed", "missing", "stale", "manual"}

\* Where an agent is before a call that changes the disk.
Changing == {"evidence", "rename", "mkdir", "copy", "publish", "retire"}
Looking == {"look", "gone", "standing", "recover", "compare", "match", "hash",
            "stage", "stageOver", "stageNew", "stageMatch", "stageHash",
            "verifyRename", "verifyCopy",
            "cleanDst", "cleanLook", "cleanGone", "cleanStanding", "cleanHash",
            "retained", "recheck"}
Running == Changing \cup Looking
Steps == Running \cup Results \cup {"idle"}

JobRow == [stage : Stages, holder : Agents \cup {NoAgent}, valid : BOOLEAN,
           attempt : 0 .. MaxAttempts, payload : Contents]
AgentRow == [pc : Steps, armed : BOOLEAN, seen : Contents]
NoTask == [pc |-> "idle", armed |-> FALSE, seen |-> Absent]

\* Everything is well typed, and the attempt budget is kept.
TypeOK ==
  /\ volumes \in {"one", "two", "hidden"}
  /\ fs \in [Places -> Contents]
  /\ evidence \in Contents
  /\ job \in JobRow
  /\ agent \in [Agents -> AgentRow]
  /\ edits \in 0 .. MaxEdits
  /\ atSource \in SUBSET Marks
  /\ strangers \in SUBSET Marks

Init ==
  /\ volumes \in {"one", "two", "hidden"}
  /\ fs = [p \in Places |-> IF p = "source" THEN {0} ELSE Absent]
  /\ evidence = Absent
  /\ job = [stage |-> "apply", holder |-> NoAgent, valid |-> FALSE,
            attempt |-> 0, payload |-> Absent]
  /\ agent = [a \in Agents |-> NoTask]
  /\ edits = 0
  /\ atSource = {}
  /\ strangers = {}

Whole(p) == fs[p] \notin {Absent, Half}
Strategy == IF volumes = "two" THEN "staged_copy" ELSE "atomic_rename"

history == <<edits, atSource, strangers>>

-----------------------------------------------------------------------------
(* The job and its lease (agent/store.ts claimJob, reportResult)           *)

Holds(a) == job.holder = a /\ job.valid
Free == job.stage \in {"apply", "cleanup"} /\ ~(job.holder # NoAgent /\ job.valid)

\* Mutant of BudgetLeft: one attempt too many.
BudgetLeftOffByOne == job.attempt <= MaxAttempts

BudgetLeft == job.attempt < MaxAttempts

Claim(a) ==
  /\ Free /\ BudgetLeft
  /\ agent[a].pc = "idle"
  /\ job' = [job EXCEPT !.holder = a, !.valid = TRUE, !.attempt = @ + 1]
  /\ agent' = [agent EXCEPT ![a].pc =
                 IF job.stage = "apply" THEN "look" ELSE "cleanDst"]
  /\ UNCHANGED <<volumes, fs, evidence, history>>

\* A lost final lease gives no proof that the disk is unchanged.
ClaimExhausted ==
  /\ Free /\ ~BudgetLeft
  /\ job' = [job EXCEPT !.holder = NoAgent, !.valid = FALSE,
               !.stage = IF job.stage = "apply" /\ job.holder = NoAgent
                         THEN "failed" ELSE "manual"]
  /\ UNCHANGED <<volumes, fs, evidence, agent, history>>

LeaseExpires ==
  /\ job.holder # NoAgent /\ job.valid
  /\ job' = [job EXCEPT !.valid = FALSE]
  /\ UNCHANGED <<volumes, fs, evidence, agent, history>>

\* A person approves the failed operation again: a new job, the same folders,
\* the same evidence file (case-lifecycle/store.ts approve).
ApproveRetry ==
  /\ job.stage = "failed"
  /\ job' = [job EXCEPT !.stage = "apply", !.attempt = 0]
  /\ UNCHANGED <<volumes, fs, evidence, agent, history>>

Idle(a) == agent' = [agent EXCEPT ![a] = NoTask]

StageAfter ==
  [renamed |-> "ready", copied |-> "cleanup", cleaned |-> "ready",
   missing |-> "missing", stale |-> "stale", manual |-> "manual"]

\* The report of the agent that holds the lease; a copy leaves a cleanup job
\* with the manifest that was verified, a failure leaves the job to be retried.
ReportAccepted(a) ==
  LET r == agent[a].pc IN
  /\ r \in Results
  /\ Holds(a)
  /\ job' = [job EXCEPT
               !.holder = NoAgent, !.valid = FALSE,
               !.attempt = IF r = "copied" THEN 0 ELSE @,
               !.payload = IF r = "copied" THEN agent[a].seen ELSE @,
               !.stage = IF r # "failed" THEN StageAfter[r]
                         ELSE IF BudgetLeft THEN @
                         ELSE IF @ = "apply" THEN "failed" ELSE "manual"]
  /\ Idle(a)
  /\ UNCHANGED <<volumes, fs, evidence, history>>

\* The lease is lost: the next check throws, or the API refuses the report.
Abandon(a) ==
  /\ agent[a].pc # "idle" /\ ~agent[a].armed
  /\ ~Holds(a)
  /\ Idle(a)
  /\ UNCHANGED <<volumes, fs, evidence, job, history>>

\* A crash while the evidence file is being written may leave it empty.
Crash(a) ==
  /\ agent[a].pc # "idle"
  /\ Idle(a)
  /\ \/ UNCHANGED evidence
     \/ /\ agent[a].pc = "evidence" /\ agent[a].armed /\ evidence = Absent
        /\ evidence' = Half
  /\ UNCHANGED <<volumes, fs, job, history>>

-----------------------------------------------------------------------------
(* Steps of an agent                                                       *)

\* The agent goes on at pc; only a copy's report needs the manifest.
Forgetting == (Results \ {"copied"}) \cup {"look", "cleanDst"}

Goes(a, pc) ==
  agent' = [agent EXCEPT ![a] =
              [pc |-> pc, armed |-> FALSE,
               seen |-> IF pc \in Forgetting THEN Absent ELSE @.seen]]

Sees(a, p, pc) ==
  agent' = [agent EXCEPT ![a] = [pc |-> pc, armed |-> FALSE, seen |-> fs[p]]]

\* A step that reads the disk, and one that changes it.
Reads(a, pc) ==
  agent[a].pc = pc /\ UNCHANGED <<volumes, fs, evidence, job, history>>
Changes(a, pc) ==
  agent[a].pc = pc /\ agent[a].armed /\ UNCHANGED <<volumes, job, history>>

\* ownership.check, and the call is issued.
Arm(a) ==
  /\ agent[a].pc \in Changing /\ ~agent[a].armed
  /\ Holds(a)
  /\ agent' = [agent EXCEPT ![a].armed = TRUE]
  /\ UNCHANGED <<volumes, fs, evidence, job, history>>

\* Any other call may fail: the operation is tried again at once (a locked
\* file) or reported as failed.
Fails(a) ==
  /\ agent[a].pc \in Running \ {"publish"}
  /\ \/ Goes(a, "failed")
     \/ Goes(a, IF job.stage = "apply" THEN "look" ELSE "cleanDst") /\ Holds(a)
  /\ UNCHANGED <<volumes, fs, evidence, job, history>>

(* applyOperation                                                          *)

LookAtSource(a) ==
  /\ Reads(a, "look")
  /\ Goes(a, IF fs["source"] = Absent THEN "gone" ELSE "standing")

LookAtDestination(a) ==
  LET there == fs["destination"] # Absent IN
  \/ /\ Reads(a, "gone")
     /\ Goes(a, IF ~there THEN "missing"
                ELSE IF Strategy = "atomic_rename" THEN "recover" ELSE "manual")
  \/ /\ Reads(a, "standing")
     /\ Goes(a, IF there THEN "compare" ELSE "hash")

\* Mutant of MatchesEvidence: whatever stands at the destination is taken.
MatchesAnything == TRUE

MatchesEvidence == evidence = fs["destination"]

\* The source is gone: was it this operation that renamed it?
Recover(a) ==
  /\ Reads(a, "recover")
  /\ Goes(a, IF MatchesEvidence THEN "renamed" ELSE "manual")

\* Both stand: is the destination a copy of the source?
Compare(a) ==
  \/ /\ Reads(a, "compare")
     /\ IF fs["source"] = Absent THEN Goes(a, "failed") ELSE Sees(a, "source", "match")
  \/ /\ Reads(a, "match")
     /\ Goes(a, IF fs["destination"] # agent[a].seen THEN "manual"
                ELSE IF Strategy = "staged_copy" THEN "copied" ELSE "renamed")

\* A file newer than the plan makes the operation stale; an edit may keep the
\* time of an older file.
HashSource(a) ==
  /\ Reads(a, "hash")
  /\ \/ fs["source"] = Absent /\ Goes(a, "failed")
     \/ fs["source"] \notin {Absent, {0}} /\ Goes(a, "stale")
     \/ /\ fs["source"] # Absent
        /\ Sees(a, "source", IF Strategy = "staged_copy" THEN "stage" ELSE "evidence")

WriteEvidence(a) ==
  /\ Changes(a, "evidence")
  /\ UNCHANGED fs
  /\ IF evidence = Absent
     THEN evidence' = agent[a].seen /\ Goes(a, "rename")
     ELSE /\ UNCHANGED evidence
          /\ Goes(a, IF evidence = agent[a].seen THEN "rename" ELSE "manual")

Moved(from, to) == [fs EXCEPT ![to] = fs[from], ![from] = Absent]

\* rename never replaces a folder; between volumes it fails with EXDEV.
Rename(a) ==
  /\ Changes(a, "rename")
  /\ UNCHANGED evidence
  /\ IF fs["source"] = Absent \/ fs["destination"] # Absent
     THEN UNCHANGED fs /\ Goes(a, "failed")
     ELSE IF volumes = "hidden"
     THEN UNCHANGED fs /\ Goes(a, "stage")
     ELSE fs' = Moved("source", "destination") /\ Goes(a, "verifyRename")

Verify(a) ==
  \E how \in {"Rename", "Copy"} :
    /\ Reads(a, IF how = "Rename" THEN "verifyRename" ELSE "verifyCopy")
    /\ Goes(a, IF fs["destination"] = Absent THEN "failed"
               ELSE IF fs["destination"] # agent[a].seen THEN "manual"
               ELSE IF how = "Rename" THEN "renamed" ELSE "copied")

(* stagedCopy                                                              *)

LookForPublished(a) ==
  /\ Reads(a, "stage")
  /\ Goes(a, IF fs["destination"] # Absent THEN "stageOver" ELSE "stageNew")

LookForStaging(a) ==
  LET there == fs["staging"] # Absent IN
  \/ /\ Reads(a, "stageOver")
     /\ Goes(a, IF there THEN "manual" ELSE "stageMatch")
  \/ /\ Reads(a, "stageNew")
     /\ Goes(a, IF there THEN "stageHash" ELSE "mkdir")

\* An earlier attempt has published its copy.
MatchPublished(a) ==
  /\ Reads(a, "stageMatch")
  /\ Goes(a, IF fs["destination"] = agent[a].seen THEN "copied" ELSE "manual")

MakeStaging(a) ==
  /\ Changes(a, "mkdir")
  /\ UNCHANGED evidence
  /\ IF fs["staging"] # Absent
     THEN UNCHANGED fs /\ Goes(a, "failed")
     ELSE fs' = [fs EXCEPT !["staging"] = Half] /\ Goes(a, "copy")

\* The last file is copied.  A file edited since the manifest was read comes
\* along as it was, or as it is now.
CopyTree(a) ==
  LET copies == {c \in SUBSET fs["source"] : agent[a].seen \subseteq c} IN
  /\ Changes(a, "copy")
  /\ UNCHANGED evidence
  /\ \/ copies = {} /\ UNCHANGED fs /\ Goes(a, "failed")
     \/ \E c \in copies :
          fs' = [fs EXCEPT !["staging"] = c] /\ Goes(a, "stageHash")

\* Mutant of StagingMatches: a staging folder of an earlier attempt is taken
\* for complete.
StagingTrusted(a) == TRUE

StagingMatches(a) == fs["staging"] = agent[a].seen

HashStaging(a) ==
  /\ Reads(a, "stageHash")
  /\ Goes(a, IF fs["staging"] = Absent THEN "failed"
             ELSE IF StagingMatches(a) THEN "publish" ELSE "manual")

\* A rename that fails may be one that another attempt has made.
Publish(a) ==
  /\ Changes(a, "publish")
  /\ UNCHANGED evidence
  /\ \/ /\ fs["destination"] = Absent /\ fs["staging"] # Absent
        /\ fs' = Moved("staging", "destination")
        /\ Goes(a, "verifyCopy")
     \/ /\ UNCHANGED fs
        /\ Goes(a, IF fs["destination"] = agent[a].seen /\ fs["staging"] = Absent
                   THEN "copied" ELSE "manual")

(* cleanupOperation                                                        *)

HashDestination(a) ==
  /\ Reads(a, "cleanDst")
  /\ IF fs["destination"] = job.payload THEN Sees(a, "destination", "cleanLook")
     ELSE Goes(a, IF fs["destination"] = Absent THEN "failed" ELSE "manual")

LookForSource(a) ==
  /\ Reads(a, "cleanLook")
  /\ Goes(a, IF fs["source"] = Absent THEN "cleanGone" ELSE "cleanStanding")

\* Mutant of RetainedMatches: what was retained is not looked at.
RetainedUnread(a) == TRUE

\* What the source was when it was retired is what the destination is.
RetainedMatches(a) == fs["recovery"] = agent[a].seen

LookForRecovery(a) ==
  LET there == fs["recovery"] # Absent IN
  \/ /\ Reads(a, "cleanGone")
     /\ Goes(a, IF there /\ ~RetainedMatches(a) THEN "manual" ELSE "cleaned")
  \/ /\ Reads(a, "cleanStanding")
     /\ Goes(a, IF there THEN "manual" ELSE "cleanHash")

HashRetiring(a) ==
  /\ Reads(a, "cleanHash")
  /\ Goes(a, IF fs["source"] = Absent THEN "failed"
             ELSE IF fs["source"] = job.payload THEN "retire" ELSE "manual")

\* Mutant of Retired: the source is deleted once its manifest was right.
Deleted == [fs EXCEPT !["source"] = Absent]

\* The source is kept where no scan looks.
Retired == Moved("source", "recovery")

Retire(a) ==
  /\ Changes(a, "retire")
  /\ UNCHANGED evidence
  /\ IF fs["source"] # Absent /\ fs["recovery"] = Absent
     THEN fs' = Retired /\ Goes(a, "retained")
     ELSE /\ UNCHANGED fs
          /\ Goes(a, IF fs["recovery"] = Absent THEN "failed" ELSE "manual")

\* An edit made between the manifest and the rename is found here.
HashRetained(a) ==
  /\ Reads(a, "retained")
  /\ Goes(a, IF RetainedMatches(a) THEN "recheck" ELSE "manual")

Recheck(a) ==
  /\ Reads(a, "recheck")
  /\ Goes(a, IF fs["destination"] = agent[a].seen /\ fs["source"] = Absent
             THEN "cleaned" ELSE "manual")

-----------------------------------------------------------------------------
(* People                                                                  *)

\* A file is saved, perhaps by a program that opened it before the folder was
\* moved.
Edit(p) ==
  /\ edits < MaxEdits
  /\ Whole(p)
  /\ fs' = [fs EXCEPT ![p] = @ \cup {edits + 1}]
  /\ edits' = edits + 1
  /\ atSource' = IF p = "source" /\ 0 \in fs[p] THEN atSource \cup {edits + 1}
                 ELSE atSource
  /\ UNCHANGED <<volumes, evidence, job, agent, strangers>>

\* Somebody makes a folder of that name.
MakeFolder(p) ==
  /\ edits < MaxEdits
  /\ fs[p] = Absent
  /\ fs' = [fs EXCEPT ![p] = {edits + 1}]
  /\ edits' = edits + 1
  /\ strangers' = IF p = "destination" THEN strangers \cup {edits + 1} ELSE strangers
  /\ UNCHANGED <<volumes, evidence, job, agent, atSource>>

\* Somebody drags the folder away, or to where the agent would move it.
Drag(p) ==
  /\ fs["source"] # Absent /\ fs[p] = Absent
  /\ fs' = Moved("source", p)
  /\ UNCHANGED <<volumes, evidence, job, agent, history>>

-----------------------------------------------------------------------------
JobStep == ClaimExhausted \/ LeaseExpires \/ ApproveRetry

AgentStep(a) ==
  \/ Claim(a) \/ ReportAccepted(a) \/ Abandon(a) \/ Crash(a) \/ Arm(a) \/ Fails(a)
  \/ LookAtSource(a) \/ LookAtDestination(a) \/ Recover(a) \/ Compare(a)
  \/ HashSource(a) \/ WriteEvidence(a) \/ Rename(a) \/ Verify(a)
  \/ LookForPublished(a) \/ LookForStaging(a) \/ MatchPublished(a)
  \/ MakeStaging(a) \/ CopyTree(a) \/ HashStaging(a) \/ Publish(a)
  \/ HashDestination(a) \/ LookForSource(a) \/ LookForRecovery(a)
  \/ HashRetiring(a) \/ Retire(a) \/ HashRetained(a) \/ Recheck(a)

PeopleStep ==
  \/ \E p \in {"source", "destination", "recovery"} : Edit(p)
  \/ \E p \in {"source", "destination"} : MakeFolder(p)
  \/ \E p \in {"destination", "elsewhere"} : Drag(p)

Next == JobStep \/ PeopleStep \/ \E a \in Agents : AgentStep(a)

Spec == Init /\ [][Next]_vars

-----------------------------------------------------------------------------
(* Safety                                                                  *)

\* Nothing people have put into a folder is ever lost, however agents crash,
\* overtake each other after a lost lease or race with an open editor: every
\* edit, and the folder itself, is in a finished folder that people or the
\* recovery procedure can find ("Never delete the retained source").
NothingLost ==
  \A e \in 0 .. edits :
    \E p \in Places \ {"staging"} : Whole(p) /\ e \in fs[p]

\* What stands at the destination is never an unfinished copy, not even after
\* a crash in the middle of one: staging is published only when it matches.
NeverHalfPublished == fs["destination"] # Half

\* The operation is not called ready while an edit made in the source folder
\* is missing from the destination: an edit that fell between copy, manifest
\* and cleanup leads to manual recovery, whatever agent saw it and however
\* often it crashed.  A folder somebody has dragged away keeps its edits.
EditsReachDestination ==
  job.stage = "ready" /\ volumes # "hidden"
  => atSource \subseteq fs["destination"] \cup fs["elsewhere"]

\* The location of the case is switched only to a finished folder, and never
\* to one that somebody made there in the meantime (evidence file, manifests).
SwitchesToTheFolder ==
  [][job.stage = "apply" /\ job'.stage \in {"ready", "cleanup"}
     => Whole("destination") /\ fs["destination"] \cap strangers = {}]_vars

\* "A content that matches the source is [...] handled as with staged_copy"
\* (the comment at file-operation-executor.ts:393): a copy that is recovered
\* leads to a cleanup, so a ready operation leaves no second folder behind.
\* The code reports the strategy of the payload, and for a copy made after
\* EXDEV that is atomic_rename, which has no cleanup.
ReadyLeavesNoSource ==
  job.stage = "ready" => 0 \notin fs["source"]
=============================================================================
