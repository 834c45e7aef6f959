# Verification of HasarBotu V2

HasarBotu V2 keeps the claim files ("cases") of a motor-damage assessor's office. Three
programs share the work:

- the **API** (`services/api`, Fastify over PostgreSQL) owns all metadata and takes every decision;
- the **File Agent** (`services/file-agent`, a Windows service) is the only program that changes
  the office's folders. It polls the API for jobs, does what a job says and reports what it saw;
- the **desktop client** (`apps/desktop`) and the web interface (`src`) present the data and send commands.

Every command of a person is one transaction of the API. What reaches the disk goes through jobs: a
transaction inserts a job, an agent leases it, acts, and reports; the report is again one transaction. AI providers,
Google and the mail box are called between transactions. Between any two of these steps a process can
crash, a lease can expire, an answer can get lost, and people go on editing files and dragging
folders. That is where the system is hard, and what these modules are about.

The modules are written from the code. `PROJECT.json` names, for every definition, the lines it
stands for.

## 1. The system

Every part, with its files, is under "components" in `PROJECT.json`. Those with behaviour of their own:

| Part | State it keeps | Operations | What makes it correct | Module |
|---|---|---|---|---|
| Job queue (`agent/store.ts`, `enqueue.ts`), agent loop (`agent.ts`, `job-lease.ts`, `verifier.ts`), locations (`storage/store.ts`) | `jobs`: status, attempts, holder, lease; `case_locations` | claim, heartbeat, report; assign, verify | a job ends once, with the row it serves; a stale report changes nothing; a verdict belongs to the version it names | `JobQueue` |
| File operations, close and reopen (`file-operations/`, `case-lifecycle/`) | `case_file_operations`, `case_lifecycle_operations`: status, snapshot, linked operation, job | plan, approve, retry, replace, cancel; results | one active operation per case; location, operation, plan and job change together; a case closes only by a finished move | `FileOperationSaga` |
| Executor (`file-operation-executor.ts`) | the disk: source, staging, destination, recovery folder, evidence file | rename, staged copy, cleanup | nothing is lost; nothing half-copied is published; a stranger's folder is never taken for the case's | `FolderMove` |
| Workspaces (`workspace/`, `workspace-provisioner.ts`) | `case_workspace_provisionings`, the new folder and its marker | plan, approve, make, report | one folder per case, made for it | `WorkspaceProvisioning` |
| Folders of cases (`cases/*folder*.ts`, `automatic-folder-discovery.mjs`) | registrations, locations, what a scan saw, repair receipts | scan, relocate, register, bind, inventory, repair, roll back | no registration gives a claim a second case; a case follows its folder and is hidden only if the folder is gone | `FolderRegistry` |
| Field photos (`field-photos/`, `field-photo-worker.ts`) | uploads and their pieces, names, files | append, complete, claim, reserve a name, publish, report | what is called ready is in the folder, once | `FieldPhotos` |
| Tracked documents (`document-tracker.ts`, `tracking/store.ts`, `storage/file-location.ts`) | `tracked_files`, observations, reviews | scan, observe, review, reconcile, move | missing means away; ready means these bytes were approved | `DocumentTracking` |
| Accident registry (`tracking/store.ts`, `mail-worker.ts`) | `tramer_requests`, `sbm_messages` | ask, save number, cancel; receive, review | every answer finds its request, once | `TramerResults` |
| Text extraction, policy OCR (`text-extractions/`, `policy-ocr/`, extractors) | rows of runs and pages, jobs | create, cancel, retry; chunk, report | a text is whole and of one attempt | `PolicyText`, `PolicyReading` |
| Policy analysis (`policy-analysis/`, `policy-ai/review-store.ts`) | versions, conflicts, candidate reviews | write, resolve, approve, reject, promote | one policy in force, the one that was shown | `PolicyAnalysis` |
| AI calls (`policy-ai/store.ts`, `email-ai/store.ts`) | runs, receipts, ledger | plan, start, record, settle, recover | no call is paid twice; what the ledger knows stays within the budget | `AiCalls` |
| E-mail drafts (`email-drafts/`) | drafts, handoffs | preview, create, revise, hand over | what leaves is what was seen | `EmailDrafts` |
| Fees and retried commands (`fees/`, `db/idempotency.ts`) | fee versions; answers by key | candidate, approve, correct | a repeated request is answered as before | `ClosureFees` |
| Value loss (`traffic-value-loss/`) | versions, reports | draft, submit, approve, reject, report | the closing sees what is in force | `ValueLoss` |
| Accounts (`auth/`, `users/`, `google-routes.ts`) | users, sessions, lockout, flows | log in, change, disable, link | a session was earned; a lock runs its time | `Accounts` |

How they interact: commands of people and reports of agents meet in the same tables and are ordered
only by row locks (`SELECT ... FOR UPDATE`); agents and people meet on the disk and are ordered by
nothing. The hazards that follow are listed, each at its line, under "hazards" in `PROJECT.json`, with the properties that cover them.

## 2. Modules

| Module | State | Actions |
|---|---|---|
| `JobQueue` | `job`, `target`, `worker`, `net`; history `observed` | `Claim`, `ClaimExhausted`, `LeaseExpires`, `BackoffElapses`, `SendReport`, `Abandon`, `LoseReport`, `ReportRefused`, `ReportFailed`, `ReportDefinitive`, `AssignLocation` |
| `FileOperationSaga` | `case`, `complete`, `loc`, `op`, `plan`, `disk`, `evidence`; history `applied`, `hands` and the field `given` of `loc` | the commands of `file-operations/store.ts` and `case-lifecycle/store.ts`, claims, the agent's changes of the disk, one action per branch of the result handlers, discovery, inventory, people |
| `FolderMove` | `volumes`, `fs`, `evidence`, `job`, `agent`; history `edits`, `atSource`, `strangers` | one action per call of the file system; `Arm` for the ownership check; crashes; edits, drags and new folders of people |
| `WorkspaceProvisioning` | `plan`, `job`, `loc`, `disk`, `agent`; history `published`, `hands` | `CreatePlan`, `Approve`, `AssignLocation`; claims and reports; the agent call by call; crashes; people |
| `PolicyReading` | `state`, `result`, `seen`: what a reading is for its user | `Order`, `Attempt`, `Read`, `GiveUp`, `Cancel`: the abstract specification of a reading |
| `PolicyText` | rows, jobs, agents, chunks in flight | creation, cancellation, claims, chunks, finalisation and failure, lost leases, the high-quality retry |
| `FolderRegistry`, `FieldPhotos`, `DocumentTracking`, `TramerResults`, `PolicyAnalysis`, `AiCalls`, `EmailDrafts`, `ClosureFees`, `ValueLoss`, `Accounts` | the tables named above, requests, pages on screen, scans, processes in the middle of their work | one action per transaction, per call of the file system, and per event outside (crash, edit, lost answer) |
| `Office` | all of the previous row and `PolicyText` | a step of one part, which leaves the rows of the others |
| `...Proofs` | theorems; those of `Office` are in `DecisionProofs`, `MoneyProofs` and `RecordProofs` | |
| `MCOffice` | `Office`, and `part` | a step of the part that moves |
| other `MC...` | instances for TLC | |

The first three look at the same machinery at three grains. `JobQueue` has the clock (lease and backoff as two
bits per job) and the network. `FileOperationSaga` has the rows and takes clock and network as
nondeterminism: a leased job may be claimed again at any moment, a report may never come. `FolderMove` has
the disk and reduces the database to the stage of one operation. `FolderRegistry` sees many cases and folders,
where `FileOperationSaga` sees one case with its operations.

**Composition.** `Office` puts eleven parts side by side: it extends `PolicyText` and instantiates ten modules over variables of their own. Every step
of `OfficeNext` is one of one part, and no two of these parts write a row in common: an
interleaving of two of them is each alone, in some order. The theorems are about `OfficeSpec`, in which all parts move. TLC checks `MCOffice`, where a behaviour moves one
part, chosen at the start, so that the state space is the sum of
theirs and not their product; where one part's effect matters to another (an edited case to an e-mail, the move of a folder
to a photo) it is an event of the second that may happen at any time.

**Abstract specification and refinement.** `PolicyReading` says what a reading of a PDF promises: it is ordered, attempts see pages, and it settles
once, with all the pages one attempt saw and the status they derive, or fails, or is cancelled; what is ordered settles. `PolicyText` implements it with leases, chunks that
are sent twice or arrive late, retries and a second reader: `Promise == INSTANCE PolicyReading WITH ...` maps the rows, and
the property `SettlesAsOneAttempt` is the abstract specification, with its fairness.

**How data is abstracted.** A folder path is a storage root and whether it lies below a `KAPALI`
(closed) folder. A folder's content is a set of marks, 0 for the folder that was planned for and one for
every edit; equal marks stand for equal manifests. A verification is its outcome, a page is its kind, a hash stands for the bytes. Closing
requirements are one Boolean that people change at any time.

**How code maps to actions.** A transaction is an action: its early returns are guards (or other actions, where
they write: `ApproveStale`, `ReportUnwanted`). A transaction is cut where it reads before it queues for a lock: a retried command
in `ClosureFees`, a password in `Accounts`, two resolutions in `PolicyAnalysis`, the receipt and the review of a message in
`TramerResults`, the cases a registration compares and the number it waits for in `FolderRegistry`. In the agent every awaited call that reads or changes the disk is a step
of its own; a call that changes the disk under a lease is two, `Arm`, which is
`ownership.check` (file-operation-executor.ts:530), and the call, because the lease can run out in between.

### Choices a reader should know

- A manifest is read in one step. Edits during the real reading are seen as before or after it; the comparisons that follow
  are separate steps, with edits between them.
- `source_changed_since_plan` looks at modification times with two seconds of grace, and copying tools
  preserve times; an edited source may or may not be found stale (`HashSource`).
- The retry of a locked file is bounded by a few attempts in the process; the model lets it happen as often as it likes.
- The agent's clock and the server's agree on when a lease ends. `Abandon` covers a lease that the
  agent believes lost; a report after the end of the lease is refused by the API.
- Staging folders have a name no person uses. A destination that has been published stays where it is while the operation lasts.
- A cancelled or replaced operation keeps its job row's status as the code does; `job.version` is `target_version`.
- In `WorkspaceProvisioning` all cases have one plate, so that path `p` is the `p`-th name; in `FolderRegistry` too, so that the name never
  helps the scan. A marker that a crash cuts off counts as none.
  Nobody touches a folder in the instant between its mkdir and its marker (`BeingMarked`): no program could exclude an exchange there.
- In `FileOperationSaga` the agent changes the disk only while the lease is held. What an agent does after
  it lost the lease is the subject of `FolderMove`.
- In `FieldPhotos` every kind of photo is named like the damage photos. In `DocumentTracking` one file name stands for all: tracked files do not meet.
- A command that the server refuses is no step. How a command that is repeated gets its answer is in `ClosureFees` only; the divergences of
  other stores are in section 6.

## 3. Runs

| Run | Instance | Shows |
|---|---|---|
| `job_queue` | 1 agent, 1 document, 1 location with 2 versions, 2 attempts, 2 reports in flight, fairness | `TypeOK`, `SettleTogether`, `VerifiedWasObserved`, `SettledForGood`, `EveryJobSettles` |
| `case_moves` | 2 roots, 2 file operations, 2 lifecycle operations, 2 attempts, nobody touches folders by hand | `TypeOK`, `OneAtATime`, `PlanFollowsOperation`, `JobServesOperation`, `LocationHoldsFolder`, `CopyLeavesNoSource` |
| `case_moves_disturbed` | 2 roots, 1 file operation, 1 lifecycle operation, 2 attempts, one intervention by hand, one relocation by discovery, two edits of the case, fairness | `StatusFollowsFolder`, `AssignmentsStand`, `ApprovedPlanEnds` |
| `folder_moves` | 2 agents, 2 attempts and a new approval, 2 edits; one volume, two roots, or a hidden volume boundary (EXDEV) | `TypeOK`, `NothingLost`, `NeverHalfPublished`, `EditsReachDestination`, `SwitchesToTheFolder` |
| `workspaces` | 2 cases, 2 agents, 2 names, 1 subfolder, 1 attempt per job, 1 intervention | `TypeOK`, `OneOwner`, `PlanFollowsJob`, `PublishesOwnFolder`, `AssignmentWins` |
| `workspaces_end` | 1 case, 2 agents, 2 names, 1 subfolder, 2 attempts, 2 interventions, fairness | `MarkersOnlyInOwn`, `ProvisioningEnds` |
| `office` | the eleven parts of `MCOffice`, below | fourteen properties, below |
| `cancel_after_move`, `reopen_into_archive`, `copy_left_behind`, `half_made_folder`, `resolved_together` | the smallest instances that show them | the findings below |

The parts of `office`, their instances and what is shown of each (`OfficeTypeOK` is the types of all):

| Part | Instance | Shows |
|---|---|---|
| `PolicyText` | 1 agent that may come twice, a text page and an image page, 2 attempts, 2 faults | `RowFollowsJob`: a row waits, is worked on or has ended as its job does. `SettlesAsOneAttempt`: the refinement |
| `PolicyAnalysis` | 2 analyses, 1 document, 1 AI run with 2 disputed candidates, 2 versions | `ActivePolicyIsCurrent`: one policy in force, the one shown. `DecidedAsShown`: approvals and promotions act on what is on screen |
| `AiCalls` | a policy run and an e-mail run that do not both fit the budget, 2 requests, 2 months | `CallsArePaidOnce`: one call per run, which may cost anything up to its estimate, or nobody knows how much; what the receipts of a month know and reserve stays within the budget; run, receipt and ledger agree after every crash |
| `Accounts` | 1 account, 1 Google identity, 2 logins, 1 flow, 2 failures to a lock, 2 passwords | `SessionsAreEarned`, `LockRunsItsTime` |
| `ClosureFees` | 1 case, 1 report, 3 keys, 2 requests, 3 versions, closed or reopened once | `AnsweredAsBefore`: a key is answered as it was, its effect is there once |
| `EmailDrafts` | 2 people, 1 draft of 2 versions, 1 attachment, 1 AI run, 1 edit of the case | `DecidedAsShown`: drafts start from, and handoffs send, what is on screen |
| `ValueLoss` | 2 people, 2 versions, 1 edit of the case | `ValueStaysInForce`: an approved version stays in force until another is approved, and the closing sees it |
| `FolderRegistry` | twice, with 3 cases and 2 interventions. `registry`: 2 folders, 2 paths of which one is closed. `duplicates`: a third folder and a third path, one case hidden and one folder not bound at first, no review and no repair | `CasesFollowFolders`: nobody is hidden whose folder is only moved or copied, and no registration gives a claim a second case. `MovesAreFollowed`: a scan follows in the end, and shows what it had hidden, unless two folders with one marker keep stopping it. `DecidedAsShown`: repairs act on what was reviewed |
| `FieldPhotos` | 2 photos of which one is given up, 2 agents, 1 move, 3 names, 1 attempt, 1 foreign file | `RecordsAreTrue`: a photo that is called ready is in the folder and no acknowledged piece is lost; no photo is there twice (but for the case in section 6) |
| `TramerResults` | 2 requests for 1 case, 1 number, 2 messages | `RecordsAreTrue`: every answer finds its request, once |
| `DocumentTracking` | 2 agents, 2 rows, 2 contents, 1 move, 1 edit, 2 revisions | `MissingWasAway`: a file called missing was away. `RecordsAreTrue`: a file that counts as ready was approved with these bytes |

**Why the bounds are enough.** Two agents: every race is between the agent that holds the lease and one that held it; where one agent may lose its lease and
claim again it plays both. Two attempts: a lost one and
the last one, which the code treats differently. Two versions: the verdict, the approval or the page of the old one can meet
the new one. Two reports in flight: one of them can overtake the other. Two operations of each kind: the next one after a failed,
replaced, cancelled or finished one, and a reopening after a closing. Two edits: one before and one
after a manifest, or one in the folder and one foreign folder. One intervention by hand together with one relocation
is already more than any handler defends against; a new folder takes two to exchange it. Two names for two cases: one free, or
none. Three cases for two folders: one bound to each, and one to be created. Two interventions: one before a look, one between
it and its transaction. A third folder is needed for one thing only, two folders with one marker beside a case that waits to be shown (`duplicates`). Two requests: one that waits while the other commits; the third key of a
fee is the correction. A budget for one call and two runs of different modules: the second must see what the first reserved.
Larger instances of two parts were run apart and hold as well: `TramerResults` with 2 cases, 2 numbers and unclear messages (8.5 million
states), `DocumentTracking` with 2 edits and 3 revisions (1.8 million).

**Deadlock** is not checked: every job may have ended, every bound may have been reached, and then nothing is left to do.

**Symmetry.** Agents are interchangeable, and so are storage roots; the liveness runs use no symmetry sets. In `MCOffice`, where a symmetry set would have to be
sound for liveness too, like things are put in order by hand: the cases and folders of the registry at the start (`InOrder`), analyses, requests,
messages and tracked rows as they appear (`InTurn`). No action and no property tells them apart. Two more conditions leave out what no action reads:
`ChangesMatter` the changes of sources and the overdue calls that no run looks at any more, `OnceApplicable` fee commands that were never applicable,
which are refused like those that come too late. The foreign file leaves the last of the three names to the photos.

**Fairness.** `JobQueue!Fairness`: some agent keeps polling (`runLoop` in agent.ts), leases and backoffs end because clocks advance, and an agent's
work on a job ends, by a report or without one. Nothing is assumed of the network: every report may be lost. The queue still settles,
because a lost lease costs an attempt. `FileOperationSaga!Fairness` is the same at its grain: a job that can be claimed is
claimed, per operation, because agents serve jobs in the order of their age and the queue of an office is finite. `WorkspaceProvisioning!Fairness` and `PolicyText!Fairness`
assume the same. In the registry the scan goes on (`DiscoveryStep`) while the process runs: the service runs it in an endless loop. A transaction that has looked at
the cases ends (`EndReview`): it commits or its connection is lost. That a process which an error has ended is started again is not assumed
(`Start`): the service manager does it three times an hour (`set-office-service-recovery.ps1` 23-25) and then leaves it to people. No person is
assumed to do anything, no request to be sent again, and no provider to answer.

### Findings

1. **A moved folder's operation can be cancelled** (`cancel_after_move`). `cancel` asks whether the current job has been attempted;
   the retry of a lifecycle operation installs a fresh job for a file operation earlier attempts may have applied.
2. **A case can be reopened inside the archive** (`reopen_into_archive`). The destination of a reopening is the source of the last close. If
   the case was closed where it stood, below `KAPALI`, and its folder was moved since, that is a closed folder.
3. **A copy made after EXDEV can leave its source behind** (`copy_left_behind`). If the report of such a copy is lost, the next attempt finds both
   folders equal and reports the strategy of its payload, `atomic_rename`; the operation is ready without a cleanup.
4. **A folder made without its marker blocks its plan** (`half_made_folder`). The marker is written in a call after mkdir. An attempt
   that ends between the two leaves a folder that every retry refuses as somebody else's.
5. **The last two conflicts, resolved together, leave a version that nobody can approve** (`resolved_together`). `resolveConflict` locks its conflict only and
   counts the open ones its transaction sees; two at once each count the other's.

## 4. Proofs

The proofs hold for every value of the constants that satisfies the assumption of the module: `QueueAssumption`
(positive bounds, documents and locations distinct, `Nobody` no agent), `MoveAssumption` (`NoAgent` no agent, at least one attempt),
`ProvisioningAssumption` (positive bounds, `Nobody` and `Person` no case and no agent), those of `FileOperationSaga` and `PolicyText`, and the eight of `Office`.
These say of each part that its bounds are numbers (the limit of failed logins at least 2), that its markers (`Nothing`, `Nobody`, `NoUser`) are none of the things they
mark the absence of, and that what is added up or counted is finite: the runs under a budget, the disputed candidates of a run, the photos. Two say more.
`AnalysisAssumption` and `TramerAssumption` give the form of what comes from outside, a drafted version and the content of a message. `PhotosAssumption` takes photos to be told apart by
their bytes: a picture that is uploaded twice is two photos, of which "once" says nothing. An estimate may be 0, as Gemini's is.

**JobQueue.** The invariant `IInv` adds three facts to `TypeOK`, `SettleTogether` and `VerifiedWasObserved`, which are not inductive by
themselves. `VersionsFit`: a document has the one version its job verifies, a location one of the versions that have jobs.
`FutureJobsAbsent`: the versions a location has not reached have no job, so a new assignment starts with a job that has not ended.
`ReportsFit`: a report in flight says something an agent can find of that target, and `verified` only of what was
observed; without it a late report could make a row ready that nobody looked at. `FinishedIsFinal` uses the same
invariant and looks at each action: none changes a job that has ended, or a document with a verdict.

**FileOperationSaga.** `IInv` is `TypeOK`, `OneAtATime`, `PlanFollowsOperation`, `JobServesOperation` and three more. `LinksFit`: a lifecycle operation shares its
file operation with no other and moves the same folder, so what is told to one reaches the right other. `FailedPairAlone`: beside
a failed lifecycle operation whose file operation may be retried no lifecycle operation is active, so a retry cannot meet a second one. `HavePaths`: what has
been planned has a source and a destination. With these `StatusFollowsFolder` follows action by action.
Where the folder stands is a second invariant, `FolderInv`, inductive beside `IInv`. `FolderAtRest` says what `LocationHoldsFolder` and `CopyLeavesNoSource` say
without asking for a case at rest: as long as every operation that was applied has been completed, the location is where a folder stands.
`EvidenceFits`: evidence is written for renames only. `CopiesMove`: a copy has two places. `VersionsFit`: what is planned is planned from the version of the location
that is current, and later from a later one. `AssignmentsFit`: `AssignmentsStand`, in which `given`, a history field of the
location, remembers where and as which version a person or discovery last put it, and which operation was carried out since; a report that is accepted finds the version it was planned
from, and no operation is planned from a version that is yet to come. `FoundFits`: what an agent has found is still there when it reports, because no other job of the case lives
in between. Most actions insert or settle rows and touch no folder (`Calm`); one lemma treats them all (`CalmKeeps`).

**FolderMove.** `IInv` is `TypeOK`, `NothingLost` and three more. `OnlyStagingHalf`: an unfinished copy stands in the staging folder
only, and no agent has taken the manifest of one. `CopyingAlone`: at most one agent copies, into a staging folder that is not
finished. `PublishersAreSafe`: an agent about to publish either has a finished staging folder or comes too late, the destination
being there. With these a rename moves finished folders only, to places where nothing stands, and `NothingLost` is
preserved: the folder that bears a mark stays or is moved as a whole. Leases are not needed at any point, which is why
the theorems survive any number of agents that lost theirs.
`EditsArrive` adds `Kept`, which is inductive together with `IInv` where the volume boundary is not hidden: the folder the operation was planned for
bears every edit made in it, wherever it stands (`FolderBearsEdits`); within one volume nothing is copied and no mark is in two folders
(`OneOfEach`), so a rename never meets a copy; and what an agent at each step may rely on (`Suits`, `Knows`): an agent that saw the source gone
can rely on it, the manifest a cleaning agent took is part of the destination for good, and after the last comparison the edits have
arrived. `KnowledgeLasts` shows that no other agent and no person takes that away (`Grown`); each action then has to account for its own row
(`ReadersKnow`, `WritersKnow`) and for the job (`JobKeepsUp`).
`SwitchIsSafe` adds `Told`: the marks of a folder people made at the destination are nowhere else (`StrangersApart`), so the evidence, and every manifest that was
read from the source, are free of them (`TellsApart`); an agent that cleans up does so after the move (`StagesGoOn`). The report is made from
such a manifest, so the folder at the destination that matches it is not theirs.

**WorkspaceProvisioning.** `IInv` is the five state invariants the runs show, and `Helpers`. `PlansHavePaths` and `AgentsServePlans`: the agent's
target is a path. `ArmedAtSub`: an mkdir that has been issued is that of an existing subfolder number. `MarksWhatWasMade`: the folder
an agent is about to mark was made for its plan; it is what carries `MarkersOnlyInOwn` over the gap between mkdir and the marker, and it needs
`OneOwner` nowhere, because an agent marks only what its own mkdir has made. `SawOwn`: what an agent saw in its last look is its own
folder, which carries `MarkersOnlyInOwn` over to `PublishesOwnFolder`. `AssignmentWins` follows step by step from the types.

**PolicyText.** `IInv` is `TypeOK`, `RowFollowsJob` and three more. `Known`: what an agent holds, what its reports say and
what its chunks carry is, as long as the row has not ended, something an attempt has seen of pages that were ordered. `EndedForgotten`: a reading that has ended
keeps nothing of its attempts. `Fits`: no row was ordered more pages than the document has. From it `ReadingImplemented` shows that each step is a step of
`PolicyReading` or leaves its variables alone: only a report settles, and by `Known` with the pages of one
attempt.

**Office.** Each of the ten instantiated parts has four lemmas, all alike. `...Runs`: what the office does, the part does, or nothing, so `OfficeSpec` implements the
`Spec` of the part. `...Begins` and `...Keeps`: its invariant holds at first and is kept by every step. `...Holds`: it always holds. `TextRuns` does the same for `PolicyText`, whose
invariant is that of `PolicyTextProofs`. The theorems then follow from the invariants: what they say of a state directly, what they say of a step from the invariant in the state
before it. `OfficeTyped` puts the types of all eleven together. The invariants are these.

*DecisionProofs.*
- `PeopleInv` (`Accounts`): the types, that an absent account is not locked (`AbsentIsUnlocked`), that an account without a lock is below the limit of failures (`LimitLocks`), that logins
  under way are of accounts that exist and completed
  flows of the account their identity is linked to (`UnderWayExists`), and `SessionsAreEarned`. It is inductive because the one transaction that opens a session reads the row again under its
  lock (`StillValid`), and because whatever takes a right away also ends the sessions that rest on it (`Revoked`).
- `AnalysisInv` (`PolicyAnalysis`): of the versions of an analysis only the last can be in force, and then it has no open conflict (`VersionsFit`); of two analyses of one document one at
  most is in force; and a page that shows the version of now shows its content, or that of one that has been superseded (`PageFits`). The last carries `DecidedAsShown` over the time between the
  look and the click; the first two are what `approve` and `promote` rely on when they clear the version that was in force before.
- `MailInv` (`EmailDrafts`): the first version of a draft, and only it, is no revision (`FirstIsMade`); a page shows the version it names (`ShowsVersion`). Versions are never changed, so a version that
  still is the last one is the one that was seen.

*MoneyProofs.*
- `AiInv` (`AiCalls`): the types, `ReceiptTells` and `Agreed`. `ReceiptTells`: a run without a receipt has not been called and one with a receipt once, so
  what `Dispatchable` asks for (no receipt) is what makes a call the first. `Agreed` is `RunTellsItsCall`: the transaction that changes the receipt changes run and
  ledger with it, or finds that another one has.
- `CostsFit` and the budget: no call of which the cost is known costs more than its estimate, and the row of the ledger that books it is of the month of the call or of a later one. With it each action changes the
  charge of a month by what it reserves or settles and no more (a settled receipt whose cost is unknown counts nothing, as in the code): a new reservation has been compared with the budget under the lock, and every other action
  replaces an estimate by a cost that is not larger, or moves it out of the month. The charge is a sum over a set of runs. The library's induction theorems have an operator
  parameter no prover here can instantiate, so the sums are treated by two inductions stated with sets: `NumberInduction`, from the well-foundedness of the numbers, and
  `SubsetInduction` over the subsets of a finite set. From them come `SumIsNumber`, `SumGrows`, `SumOfBoth` and the rest.
- `FeesInv` (`ClosureFees`): the status of a version follows from its number, and each version is named by the stored answer of the key it bears (`Named`). The second look at the key under the row lock
  (`GuardedAgain`) is what makes a new version the first with its key.
- `LossInv` (`ValueLoss`): a version is active exactly if it is approved, and a person has approved it (`RowFits`); one version at most is approved (`OneApproved`); a report on screen is of a version that exists
  (`ReportOnScreen`).

*RecordProofs.*
- `PhotosInv` (`FieldPhotos`): the acknowledged pieces are on the disk (`PiecesKept`); rows of one version of the location are of one place, and a place once left is not the place of now unless the folder
  came back (`PlacesFit`); before the folder moves, names are given once (`NamesDiffer`); the run that holds an upload knows its name (`RunsFit`); `ReadyKept`; and `PhotosOnce`: where `PhotosAreKept`
  promises that a photo is there once, its only file has the name of its row, and no run, also none that lost its lease, is about to put it under another (`OnceFor`, `Pending`): who holds the
  upload either goes on with its name or has looked and found no file of the photo (`Clear`).
- `TramerInv` (`TramerResults`): `NumbersFit`: a number belongs to one request. `UnderWay`: what a transaction on a message has
  found is the holder of its number, and nobody saves that number meanwhile, because of the advisory lock. `Shown` and `Found`: a message in review shows the request that has its
  number, and misses none but one that was saved while it was locked (`missed`). `Says`: what has arrived says something. `AnswersFit`: one message at most has been applied to a request,
  and the request has a result exactly if one was, and its status from it. It is needed as a whole: what is applied rests on what was found, and that on the lock.
- `TrackingInv` (`DocumentTracking`): a scan of the version of now is of the place of now (`ScansFit`); a row whose file was always there was observed after the last move, and a scan that has not listed the
  file knows as fresh all rows that were not away (`AwayFits`); before the folder comes back to a place, one row at most is at the place of the case, with the bytes that were told last, and an approved row
  was approved with its bytes (`RowsAgree`).
- `RegistryInv` (`FolderRegistry`): the claims of folders and cases are those of existing cases or new ones (`ClaimsFit`), and a review of a folder lists no case of its claim (`ReviewFits`).
  `LooksFit` is about the time between a look and what rests on it: while a registration waits for its number, the cases it has not seen have neither a folder nor a workspace, because the
  advisory lock of the root keeps all transactions away that could give them one; and an inventory that was verified once more stands for the disk as the scan saw it. From these, `HiddenIsGone` and
  `NewCaseIsFirst` follow step by step; `StepRepairs` needs no invariant at all: a repair compares every row it touches.

| Theorem | Says |
|---|---|
| `JobQueue!TypeCorrect` (`TypeOK`) | For any number of agents, documents and locations, every row keeps its type and no job is leased more often than max_attempts. |
| `JobQueue!JobsAndTargetsSettleTogether` (`SettleTogether`) | A document has its verdict exactly when its job has ended, and a location exactly when the job of its current version has succeeded, for every number of agents, attempts, versions and reports. |
| `JobQueue!OnlyObservedIsReady` (`VerifiedWasObserved`) | No target is called ready (verified) at a version at which no agent has found it good, whatever reports are lost, late or reordered. |
| `JobQueue!FinishedIsFinal` (`SettledForGood`) | No step changes a job that has ended or a document that has its verdict. |
| `FolderMove!TypeCorrect` (`TypeOK`) | For any number of agents, attempts and edits, job, evidence and file system keep their types, and no job is claimed more often than max_attempts. |
| `FolderMove!NothingIsLost` (`NothingLost`) | Every mark people have put into a folder stands in a finished folder that is not the staging folder, for any number of agents that crash and overtake one another. |
| `FolderMove!OnlyFinishedCopies` (`NeverHalfPublished`) | An unfinished copy never stands at the destination, for any number of agents, crashes and lost leases. |
| `FolderMove!EditsArrive` (`EditsReachDestination`) | An operation is called ready only when every edit made in the source folder is at the destination or in the folder that somebody dragged elsewhere, for any number of agents, attempts and edits; a hidden volume boundary excepted. |
| `FolderMove!SwitchIsSafe` (`SwitchesToTheFolder`) | The location of a case is switched only to a finished folder that nobody made at the destination meanwhile, for any number of agents that crash, overtake one another and look at different times. |
| `WorkspaceProvisioning!TypeCorrect` (`TypeOK`) | For any number of cases, agents, names and interventions, rows, folders and agents keep their types, and no job is leased more often than max_attempts. |
| `WorkspaceProvisioning!PathsHaveOneOwner` (`OneOwner`) | No path ever belongs to two cases, by plan or by location, for any number of cases that compete for it. |
| `WorkspaceProvisioning!PlansFollowJobs` (`PlanFollowsJob`) | A plan is waiting, under way or finished exactly as its job is, through claims, lost leases, reports and approvals of retries. |
| `WorkspaceProvisioning!NoFolderIsAdopted` (`MarkersOnlyInOwn`) | No marker ever stands in a folder that was not made for the plan it names, for any number of agents that overtake one another and any interventions by people. |
| `WorkspaceProvisioning!OwnFolderIsPublished` (`PublishesOwnFolder`) | A plan becomes ready with the folder that was made for it and no other. |
| `WorkspaceProvisioning!AssignmentsWin` (`AssignmentWins`) | No step that changes the job of a case replaces a location the case has. |
| `FileOperationSaga!TypeCorrect` (`TypeOK`) | For any number of roots, operations, attempts, edits and interventions, the rows of a case keep their types, and no job is claimed more often than max_attempts. |
| `FileOperationSaga!OneOperationAtATime` (`OneAtATime`) | A case never has two file operations that reserve folders nor two lifecycle operations under way, for any number of operations: the commands ask for themselves what the unique indexes would refuse. |
| `FileOperationSaga!PlansFollowOperations` (`PlanFollowsOperation`) | A lifecycle operation tells of its file operation what is true, through claims, heartbeats, reports, retries, replacements and releases in any order. |
| `FileOperationSaga!JobsServeOperations` (`JobServesOperation`) | A file operation waits for an agent exactly while a job of the right kind and version lives for it. |
| `FileOperationSaga!AssignmentsAreKept` (`AssignmentsStand`) | A location that somebody assigned, or that discovery followed, stands until a move that was planned after it is carried out: no late report overwrites it, for any number of operations, attempts and edits. |
| `FileOperationSaga!StatusFollows` (`StatusFollowsFolder`) | The status of a case changes only in the transaction that publishes the destination of its lifecycle operation, with the requirements met, or to the place at which a scan finds the folder of an idle case. |
| `FileOperationSaga!LocationsHoldFolders` (`LocationHoldsFolder`) | The location of a case at rest is a place where its folder stands, for any number of operations, attempts, crashes, lost reports and retries, unless people moved folders by hand or an operation was dropped after it had moved the folder. |
| `FileOperationSaga!CopiesLeaveNoSource` (`CopyLeavesNoSource`) | When a copy between roots has been completed, its source is gone and the folder stands at the destination, for any number of operations and attempts. |
| `PolicyText!ReadingImplemented` | Every step of the leased, chunked and lossy reading is a step of PolicyReading or none, for any number of agents, pages, attempts and faults: a reading settles once, with all the pages one of its attempts saw and the status they derive (the safety part of SettlesAsOneAttempt). |
| `PolicyText!RowsFollowJobs` (`RowFollowsJob`) | A row waits, is worked on or has ended exactly as its job does, for any number of agents, attempts, lost chunks and late reports. |
| `PolicyText!TypeCorrect` | Rows, jobs, agents and messages keep their types, no job is leased more often than max_attempts and no row has more pages than were ordered. |
| `Office!SessionsEarned` (`SessionsAreEarned`) | For any number of accounts, identities, requests and flows: a session in use is of an active account and was opened with its password as it is, or with an identity linked to it, whatever changes while a password is verified or Google is asked. |
| `Office!LocksRunTheirTime` (`LockRunsItsTime`) | While an account is locked, no step shortens or recounts the lock or opens a session with the password, for any number of requests that began before it was locked. |
| `Office!PolicyInForce` (`ActivePolicyIsCurrent`) | For any number of analyses, versions, AI runs and people: a document has at most one policy in force, the current version of its analysis, and no conflict of it is open. |
| `Office!CallsPaidOnce` (`CallsArePaidOnce`) | For any number of runs of two modules, any estimates, requests, retries and crashes: a run is paid for once, run, receipt and ledger tell one story, and what is known to be spent in a month or is still reserved stays within the budget; a call settled without a known cost counts nothing. |
| `Office!RepeatsAnswered` (`AnsweredAsBefore`) | For any number of requests, keys and cases: every version of a fee is the effect of the one command whose key it bears, and a repeated key is answered as it was the first time. |
| `Office!ValueStays` (`ValueStaysInForce`) | For any number of people and versions: at most one value is in force, and only an approval replaces it; new drafts leave it, and its report, where the closing finds them. |
| `Office!RecordsTrue` (`RecordsAreTrue`) | For any number of photos, agents, messages, requests, documents and scans: a photo called ready is in the folder of its case and no acknowledged piece is lost; an answer of the registry is with the one request it belongs to; a document that counts as ready was approved with its bytes. |
| `Office!MissingAway` (`MissingWasAway`) | For any number of agents, scans and documents: a document is called missing only if its file was away since it was last observed. |
| `Office!CasesFollow` (`CasesFollowFolders`) | For any number of cases, folders and paths: a case is hidden only if no folder of its claim stood anywhere when the inventory was last verified (one that is another case's, or took the place of the registered one, apart), and no registration gives a claim a second case, except beside one that was typed without a workspace after the look. |
| `Office!DecisionsAsShown` (`DecidedAsShown`) | For any number of people: what is approved, promoted, drafted, sent or repaired is what was on the screen, or in the plan, and still is so. |
| `Office!OfficeTyped` (`OfficeTypeOK`) | The rows of all eleven parts keep their types, and the bounds on what is counted in them, for any values of the constants. |

Every invariant and every action property of the passing runs is stated by one of these theorems. The refinement `SettlesAsOneAttempt` is proved for its safety part (`ReadingImplemented`).

**Only model-checked**: liveness, which is beyond the prover: `EveryJobSettles`, `ApprovedPlanEnds`, `ProvisioningEnds`, `MovesAreFollowed`, and the fairness of `SettlesAsOneAttempt`. That
`MCOffice`, in which one part moves at a time, misses nothing that the properties could tell is an argument and no theorem; the theorems about `OfficeSpec` do not rest on it.

## 5. Not modelled, and why

- The case-only rename (two renames through a temporary name): `FolderMove` tells folders apart by place. The making of parent folders, and the
  refusal of links and paths outside the root: path arithmetic without state.
- Lock order and aborted transactions: an aborted transaction is a step that did not happen. Locks are taken in different orders in
  places (`claimJob` and `reportResult` take the job before the operation, `cancel` and the retry of `approve` the operation before the job), so PostgreSQL may
  abort one of two commands; the caller sends it again.
- Calculations without state and with golden tests of their own: the value-loss calculator and its rules, the evaluation of a
  policy, document requirements by kind of case, the parsers of PDFs and mails.
- Rows that only a version check protects (notes, tasks, PERT, notice sheets, preferences): the modelled commands show that check.
- The pCloud gates of the office host: they hash the whole folder before and after a waiting time and let an operator go on or
  not; they change nothing the program reads.
- The import of the first version's data and its remediations, written for one set of rows and run once.
- Audit rows, formatting, HTTP validation: no handler reads them back.
- Presentation, deployment scripts, windows and updates of the desktop client: see the notes in `PROJECT.json`.

## 6. What the modelling met besides

None of these is shown by a run; they are where the code, read closely, differs from what one might expect. Paths are below `services/api/src`
unless they say otherwise.

*Commands and money.*
- The monthly summary joins fees by their current version (`fees/store.ts` 415-450), the closure of a case counts the approved one; with a correction
  under way the two differ.
- `policy-analysis`, `text-extractions` and `traffic-value-loss` look for the stored answer of a key only before they lock; `db/idempotency.ts` 7-10 asks for a second look under the lock.
  `createDraft` and `prepareHandoff` of the e-mails rely on a unique index alone: the second copy of a request fails instead of being answered.
- Two administrators can take their roles from each other at once; each may not take his own, and nobody counts those that are left (`users/store.ts` 137).
- The login with Google does not look at the lock of the password.

*Readings and AI.*
- `create` of a text extraction returns a failed or cancelled one for ever (`text-extractions/store.ts` 86-87).
- A policy run whose process dies stays running, with its estimate reserved, for ever: only e-mail runs are recovered.
- Gemini's estimate is 0 (`policy-ai/gemini-provider.ts` 238): its calls pass any budget that is not exceeded.
- A call that failed, or was answered with usage figures that do not fit (`policy-ai/store.ts` 137-138), is settled with an unknown cost, and an unknown cost counts as nothing (`policy-ai/store.ts` 53, 138, 145, 173-176): neither its receipt nor the ledger
  says anything of it, and what the office really spends may pass the budget. Only a call whose outcome is unknown (`outcome_unknown`) keeps its estimate reserved.
  `CallsArePaidOnce` is about what the rows know. The ledger's row belongs to the month of the settlement.
- Two AI runs of one document promoted at once may each make an analysis.
- `canTransitionPolicyAnalysisStatus` (`packages/domain/src/casco-policy.ts` 212-221) forbids steps the store takes.
- A handoff of an e-mail does not look at the attachments again: it sends what the version of the draft lists.

*Folders and files.*
- A registration compares the cases there are (`cases/folder-registration.ts` 91) and then waits for `office_counters` (125). A case that is typed meanwhile without a workspace
  (`createCase` takes the advisory lock only with a root, `cases/write-store.ts` 138) is missed, and its claim gets a second case. `createCase` itself never asks for cases of the same plate. Both are the gap that `NoSecondCase` names.
- Two folders without a case that bear one workspace marker, as a copy leaves them, end the discovery process: `automatic_folder_duplicate_inventory` is thrown
  before the inventory (`cases/automatic-folder-registration.ts` 58) and is none of the errors the loop outlives (`automatic-folder-discovery.mjs` 335). Every process started after it
  ends with its second scan. It still follows moves, which come first, but registers nothing and shows no case until somebody tells the two folders apart (`Stop`, `Ambiguous`).
- `rollbackIdentityRepair` inserts registrations and locations row by row in the order of the cases; the trigger `hb_guard_folder_identity` can refuse an
  exchange of two bindings half-way, and the rollback with it.
- A case that an operator binds anew between the inventory's verification and its commit is hidden until the next scan. A new folder in place of the registered one hides the case, as the
  test means it to; so does the absence of a folder for a case made by hand.
- Claims of a photo are never limited: `attempt_count` limits reported failures only. A queued photo whose case becomes busy is called failed until a person tries again.
  The report of a failure is taken after the lease has run out. A photo may be published twice: when the folder comes back to a place it had left, or after one
  move, when another photo kept its name through a retry at the new place.
- A person's page may cancel a newer request to the accident registry than it shows, if the versions are equal. A message whose review comes to nothing is skipped
  (`SKIP LOCKED`) when the number is saved meanwhile, and stays without its request. A cancelled request keeps its number for ever.
- A second report of the same bytes does not renew `observed_at`: a file that was away and is back may be called missing right after another agent has
  seen it. A file edited after a move gets a second row, and if the folder comes back, the old row counts as ready with the old approval until the next report.
