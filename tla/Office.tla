-------------------------------- MODULE Office --------------------------------
(***************************************************************************)
(* The parts of the office that work on rows of their own, side by side:   *)
(* every step is a step of one part and leaves the rows of the others, for *)
(* no two of these parts write the same row.                               *)
(***************************************************************************)
EXTENDS PolicyText

CONSTANTS
  Users, Requests, Cases, FileAgents, Places,   \* shared by several parts
  Nothing,                                      \* no row, path, number or file
  MaxVersions, MaxMoves,
  Analyses, Policies, Reviewed, SourceOf, Candidates, Disputes, Approvers, Written, MaxReviews,
  Runs, ModuleOf, Estimate, Budget, Months,
  Addresses, Subjects, Flows, MaxFailed, MaxPasswords,
  Reports, Keys, MaxFeeVersions,
  Attachments, Drafts, MaxHandoffs, MaxRuns, MaxEdits, MaxFacts,
  KnownCases, Folders, Paths, Kapali, MaxHands,
  Uploads, Image, Pieces, MaxName, MaxUploads, MaxForeign,
  Inquiries, Numbers, Messages, Contents,
  Rows, Hashes, MaxFileEdits, MaxRev

VARIABLES
  analysis, ver, review, promoted, resolving, page,
  run, receipt, booked, month, overdue, changed, at, calls,
  user, linked, sessions, login, flow,
  case, verified, fee, stored, request, reply,
  mailed, ready, suggestions, draft, handoffs, screen,
  assessment, lossVer, facts, report, desk,
  folder, known, loc, reg, ws, scan, task, doubt, repair, hands,
  upload, spool, files, place, target, busy, courier, moves,
  entry, mailbox, hidden, answering, missed,
  paper, stands, listed, trips, traced, sweep, told, away, edits

Analysis == INSTANCE PolicyAnalysis WITH
  Documents <- Policies, Runs <- Reviewed, Users <- Approvers, Drafts <- Written
Ai == INSTANCE AiCalls
People == INSTANCE Accounts WITH Users <- Addresses, Logins <- Requests
Fees == INSTANCE ClosureFees WITH MaxVersions <- MaxFeeVersions, at <- request
Mail == INSTANCE EmailDrafts WITH case <- mailed, page <- screen
Loss == INSTANCE ValueLoss WITH ver <- lossVer, page <- desk
Registry == INSTANCE FolderRegistry WITH Cases <- KnownCases, case <- known, review <- doubt
Photos == INSTANCE FieldPhotos WITH
  Agents <- FileAgents, MaxAttempts <- MaxUploads, loc <- target, agent <- courier
Tramer == INSTANCE TramerResults WITH
  Requests <- Inquiries,
  request <- entry, message <- mailbox, archived <- hidden, tx <- answering
Tracking == INSTANCE DocumentTracking WITH
  Agents <- FileAgents, MaxEdits <- MaxFileEdits,
  disk <- paper, place <- stands, loc <- listed, moves <- trips, row <- traced, scan <- sweep

\* What the parts take for granted of their constants: markers for nothing are none
\* of the things, what is counted is finite, and bounds are numbers.
ASSUME AccountsAssumption ==
  People!NoUser \notin Addresses /\ MaxFailed \in Nat \ {0, 1} /\ MaxPasswords \in Nat \ {0}

\* A run of an extraction is of a document and has finitely many disputed candidates.
ASSUME AnalysisAssumption ==
  /\ MaxVersions \in Nat \ {0} /\ SourceOf \in [Reviewed -> Policies]
  /\ \A r \in Reviewed : IsFiniteSet(Disputes[r])
  /\ Written \subseteq
       [conflicts : Nat, complete : BOOLEAN, initial : {"draft", "awaiting_approval"}]

\* An estimate may be 0, as that of Gemini is (policy-ai/gemini-provider.ts:238).
ASSUME AiCallsAssumption ==
  /\ IsFiniteSet(Runs) /\ Estimate \in [Runs -> Nat]
  /\ Budget \in Nat /\ Months \in Nat \ {0}

ASSUME EmailDraftsAssumption == MaxEdits \in Nat

ASSUME TramerAssumption ==
  /\ Nothing \notin Inquiries \cup Numbers \cup {"completed", "cancelled", "unclear"}
  /\ Nothing \notin [status : {"completed", "cancelled"}, from : {"mail", "person"}]
  /\ Contents \subseteq
       [number : Numbers \cup {Nothing}, status : {"completed", "cancelled", "unclear"}]

ASSUME RegistryAssumption ==
  /\ MaxHands \in Nat
  /\ KnownCases \cap Folders = {} /\ Nothing \notin KnownCases \cup Folders

ASSUME TrackingAssumption ==
  /\ MaxMoves \in Nat /\ MaxFileEdits \in Nat /\ MaxRev \in Nat
  /\ Nothing \notin Places

\* Photos are told apart by their bytes: a picture that is uploaded twice is two
\* photos, and in the folder twice.
ASSUME PhotosAssumption ==
  /\ IsFiniteSet(Uploads)
  /\ MaxName \in Nat \ {0} /\ Pieces \in Nat /\ MaxUploads \in Nat /\ MaxMoves \in Nat
  /\ \A u \in Uploads : Image[u] \notin {Nobody, "other"}
  /\ \A u, v \in Uploads : Image[u] = Image[v] => u = v

analysisRows == <<analysis, ver, review, promoted, resolving, page>>
aiRows == <<run, receipt, booked, month, overdue, changed, at, calls>>
accountRows == <<user, linked, sessions, login, flow>>
feeRows == <<case, verified, fee, stored, request, reply>>
mailRows == <<mailed, ready, suggestions, draft, handoffs, screen>>
lossRows == <<assessment, lossVer, facts, report, desk>>
registryRows == <<folder, known, loc, reg, ws, scan, task, doubt, repair, hands>>
photoRows == <<upload, spool, files, place, target, busy, courier, moves>>
tramerRows == <<entry, mailbox, hidden, answering, missed>>
trackingRows == <<paper, stands, listed, trips, traced, sweep, told, away, edits>>

officeVars ==
  <<vars, analysisRows, aiRows, accountRows, feeRows, mailRows, lossRows, registryRows,
    photoRows, tramerRows, trackingRows>>

OfficeInit ==
  /\ Init /\ Analysis!Init /\ Ai!Init /\ People!Init /\ Fees!Init /\ Mail!Init /\ Loss!Init
  /\ Registry!Init /\ Photos!Init /\ Tramer!Init /\ Tracking!Init

\* The rows of every part but p stay.
Only(p) ==
  /\ p # "text" => UNCHANGED vars
  /\ p # "analysis" => UNCHANGED analysisRows
  /\ p # "ai" => UNCHANGED aiRows
  /\ p # "accounts" => UNCHANGED accountRows
  /\ p # "fees" => UNCHANGED feeRows
  /\ p # "mail" => UNCHANGED mailRows
  /\ p # "loss" => UNCHANGED lossRows
  /\ p # "registry" => UNCHANGED registryRows
  /\ p # "photos" => UNCHANGED photoRows
  /\ p # "tramer" => UNCHANGED tramerRows
  /\ p # "tracking" => UNCHANGED trackingRows

TextStep == Only("text") /\ Next
AnalysisStep == Only("analysis") /\ Analysis!Next
AiStep == Only("ai") /\ Ai!Next
AccountsStep == Only("accounts") /\ People!Next
FeesStep == Only("fees") /\ Fees!Next
MailStep == Only("mail") /\ Mail!Next
LossStep == Only("loss") /\ Loss!Next
RegistryStep == Only("registry") /\ Registry!Next
PhotosStep == Only("photos") /\ Photos!Next
TramerStep == Only("tramer") /\ Tramer!Next
TrackingStep == Only("tracking") /\ Tracking!Next

OfficeNext ==
  \/ TextStep \/ AnalysisStep \/ AiStep \/ AccountsStep \/ FeesStep \/ MailStep \/ LossStep
  \/ RegistryStep \/ PhotosStep \/ TramerStep \/ TrackingStep

\* The reading of documents and the scan of the folders are owed progress.
OfficeSpec ==
  /\ OfficeInit /\ [][OfficeNext]_officeVars
  /\ Fairness /\ Registry!Fairness

-----------------------------------------------------------------------------
(* The properties of the parts; those of PolicyText have their own names.  *)

\* The rows of every part keep their types.
OfficeTypeOK ==
  /\ TypeOK /\ Analysis!TypeOK /\ Ai!TypeOK /\ People!TypeOK /\ Fees!TypeOK /\ Mail!TypeOK
  /\ Loss!TypeOK /\ Registry!TypeOK /\ Photos!TypeOK /\ Tramer!TypeOK /\ Tracking!TypeOK

\* A document has one policy in force, the one its analysis shows
\* (policy-analysis/store.ts, policy-ai/review-store.ts).
ActivePolicyIsCurrent == Analysis!ActivePolicyIsCurrent

\* What people decide, they decide on what is still so: versions are approved and
\* reviews promoted as they were on screen (policy-analysis/store.ts approve,
\* review-store.ts promote), drafts start from, and handoffs send, what is on
\* screen (email-drafts/store.ts createDraft, prepareHandoff), and bindings are
\* repaired as they were reviewed (folder-identity-repair.ts).
DecidedAsShown ==
  /\ Analysis!DecidedAsShown
  /\ Mail!SentAsSeen
  /\ Registry!RepairedAsReviewed

\* No case is hidden whose folder is only moved or copied, and no registration of a
\* folder gives a claim a second case, but for one that a person types at the same
\* time without a workspace (office-folder-inventory.ts, folder-registration.ts).
CasesFollowFolders == Registry!HiddenOnlyIfGone /\ Registry!NoSecondCase

\* A case gets the new place of its folder, and is shown while the folder is there,
\* unless two folders bear one marker, which stops the process that would see to it
\* (automatic-folder-discovery.mjs, source-folder-relocation.ts).
MovesAreFollowed == Registry!MovesAreFollowed

\* What is known to be spent or is reserved for the calls of a month stays within its
\* budget, of which a call settled without a known cost takes nothing; no crash and no
\* retry makes a paid call twice, and run, receipt and ledger agree after every crash
\* (lockMonthlyBudget, currentMonthCost, start, generate, recordProviderResult,
\* finalizeRecordedReceipt, finalizeOutcomeUnknown of policy-ai and email-ai).
CallsArePaidOnce ==
  Ai!MonthsStayWithinBudget /\ Ai!OneCallPerRun /\ Ai!RunTellsItsCall

\* What rows say is so.  Photos called ready are in the folder of their case, once,
\* and no acknowledged piece of an original is lost (field-photos/store.ts,
\* field-photo-worker.ts); an answer of the registry is with its request, once, and
\* a document that counts as ready was approved with its bytes (tracking/store.ts).
RecordsAreTrue ==
  Photos!PhotosAreKept /\ Tramer!AnswersFindRequests /\ Tracking!ReadyWasApproved

\* A document is called missing only if its file was away (reconcileFiles of
\* tracking/store.ts).
MissingWasAway == Tracking!MissingWasAway

\* A session is of an active account and was opened with what the account
\* still has (auth/service.ts login, google-routes.ts complete).
SessionsAreEarned == People!SessionsAreEarned

\* Attempts under way neither enter through a lock nor change it
\* (auth/store.ts recordFailedLogin, lockUserForLogin).
LockRunsItsTime == People!LockRunsItsTime

\* A retried command is carried out once and answered as it was the first time
\* (fees/store.ts guard, idempotency.ts).
AnsweredAsBefore == Fees!AnsweredAsBefore

\* New drafts of a value loss leave the approved value and its report in force
\* (traffic-value-loss/store.ts, closure-store.ts).
ValueStaysInForce == Loss!ValueStaysInForce
=============================================================================
