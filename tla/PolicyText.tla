------------------------------ MODULE PolicyText ------------------------------
(***************************************************************************)
(* The reading of one uploaded policy PDF: its text layer                  *)
(* (services/api/src/text-extractions/store.ts), OCR of the pages that are *)
(* only images, and the high-quality retry of that OCR                     *)
(* (services/api/src/policy-ocr/store.ts), by File Agents that read in a   *)
(* child process and upload a chunk per page                               *)
(* (services/file-agent/src/pdf-text-extractor.ts,                         *)
(* policy-ocr-extractor.ts), under the jobs of agent/store.ts.             *)
(*                                                                         *)
(* A page is its kind; what an attempt makes of it may differ from one     *)
(* attempt to the next.  A chunk is an HTTP request: it may be handled     *)
(* after the agent has given up waiting for the answer.  A lease is one    *)
(* bit, `live'.                                                            *)
(***************************************************************************)
EXTENDS Naturals, Sequences, FiniteSets

CONSTANTS
  Agents,        \* the File Agents
  Nobody,        \* leased_by_agent_id = NULL
  Documents,     \* the PDFs considered: sequences of page kinds
  MaxAttempts,   \* jobs.max_attempts (3 in the code)
  MaxFaults      \* bound on crashes, lost calls and expired leases

PageKinds == {"text", "image_only", "empty"}

ASSUME TextAssumption ==
  /\ MaxAttempts \in Nat \ {0} /\ MaxFaults \in Nat
  /\ Nobody \notin Agents
  /\ Documents \subseteq Seq(PageKinds)

\* The text layer, the standard OCR run and its high-quality retry.
Readings == {"text", "ocr", "ocr_hq"}

TextOutcomes == PageKinds \cup {"failed"}
OcrOutcomes == {"accepted_candidate", "low_confidence", "unreadable", "failed"}
Outcomes == TextOutcomes \cup OcrOutcomes

TextFinal == {"ready", "partial", "ocr_required"}
OcrFinal == {"ready", "partial", "low_confidence", "control_required"}
Read == TextFinal \cup OcrFinal
Ended == Read \cup {"failed", "cancelled"}
JobEnded == {"succeeded", "failed", "dead_letter", "cancelled"}

VARIABLES
  pdf,      \* the kinds of the pages of the document; never changes
  row,      \* [Readings -> row of document_text_extractions or document_ocr_runs]
  job,      \* [Readings -> row of `jobs'], the active_job_id of the row
  agent,    \* [Agents -> what runOnce is doing]
  wire,     \* chunks whose sender has stopped waiting for them
  late,     \* reports whose sender has stopped waiting for them
  seen,     \* history: what attempts have seen for a row that has not ended
  faults

vars == <<pdf, row, job, agent, wire, late, seen, faults>>

NoRow == [status |-> "absent", selected |-> <<>>, pages |-> <<>>]
NoJob == [status |-> "absent", attempt |-> 0, holder |-> Nobody, live |-> FALSE]
Idle == [task |-> "none", seen |-> <<>>, sent |-> 0]

Init ==
  /\ pdf \in Documents
  /\ row = [r \in Readings |-> NoRow]
  /\ job = [r \in Readings |-> NoJob]
  /\ agent = [a \in Agents |-> Idle]
  /\ wire = {} /\ late = {}
  /\ seen = [r \in Readings |-> {}]
  /\ faults = 0

-----------------------------------------------------------------------------
(* What the pages amount to                                                *)

Count(pages, outcomes) == Cardinality({i \in DOMAIN pages : pages[i] \in outcomes})

\* derivePdfExtractionStatus
TextStatus(pages) ==
  CASE Count(pages, {"text"}) = 0 -> "ocr_required"
    [] Count(pages, {"text"}) = Len(pages) -> "ready"
    [] OTHER -> "partial"

\* derivePolicyOcrRunStatus
OcrStatus(pages) ==
  LET ready == Count(pages, {"accepted_candidate"})
      low   == Count(pages, {"low_confidence"})
      bad   == Count(pages, {"failed", "unreadable"})
  IN  CASE ready = Len(pages) -> "ready"
        [] ready > 0 /\ bad > 0 -> "partial"
        [] low = Len(pages) -> "low_confidence"
        [] OTHER -> "control_required"

StatusOf(r, pages) == IF r = "text" THEN TextStatus(pages) ELSE OcrStatus(pages)

\* What an attempt may make of the pages it was told to read.
Seeings(r) ==
  {s \in [1 .. Len(row[r].selected) -> Outcomes] :
     \A i \in DOMAIN s :
       IF r = "text" THEN s[i] \in {pdf[row[r].selected[i]], "failed"}
                     ELSE s[i] \in OcrOutcomes}

-----------------------------------------------------------------------------
(* The commands of people                                                  *)

Queued(r, selected) ==
  /\ row' = [row EXCEPT ![r] = [status |-> "queued", selected |-> selected,
                                pages |-> <<>>]]
  /\ job' = [job EXCEPT ![r] = [NoJob EXCEPT !.status = "pending"]]

\* The history of a row ends with it.
SeenUntilEnded ==
  seen' = [r \in Readings |-> IF row'[r].status \in Ended THEN {} ELSE seen[r]]

\* create: an extraction of this parser version is returned as it is, whatever
\* has become of it, so there is one per document.
CreateText ==
  /\ row["text"].status = "absent"
  /\ Queued("text", [i \in 1 .. Len(pdf) |-> i])
  /\ UNCHANGED <<pdf, agent, wire, late, seen, faults>>

ImagePages == {p \in DOMAIN row["text"].pages : row["text"].pages[p] = "image_only"}

Ascending(pages) == \A i, j \in DOMAIN pages : i < j => pages[i] < pages[j]

\* create of an OCR run: over the image pages of a text layer that is not
\* complete, or over some of them.
CreateOcr ==
  /\ row["text"].status \in {"partial", "ocr_required"}
  /\ row["ocr"].status = "absent"
  /\ \E n \in 1 .. Len(pdf) : \E pages \in [1 .. n -> ImagePages] :
       Ascending(pages) /\ Queued("ocr", pages)
  /\ UNCHANGED <<pdf, agent, wire, late, seen, faults>>

\* retry: a run of the standard profile that came to nothing or to little is
\* read again, once, at the higher resolution.
RetryOcr ==
  /\ row["ocr"].status \in {"failed", "partial", "low_confidence", "control_required"}
  /\ row["ocr_hq"].status = "absent"
  /\ Queued("ocr_hq", row["ocr"].selected)
  /\ UNCHANGED <<pdf, agent, wire, late, seen, faults>>

\* cancel: only what waits in the queue.
Cancel(r) ==
  /\ row[r].status = "queued"
  /\ row' = [row EXCEPT ![r].status = "cancelled"]
  /\ job' = IF job[r].status = "pending"
            THEN [job EXCEPT ![r].status = "cancelled"] ELSE job
  /\ SeenUntilEnded
  /\ UNCHANGED <<pdf, agent, wire, late, faults>>

-----------------------------------------------------------------------------
(* The jobs                                                                *)

Fault == faults < MaxFaults /\ faults' = faults + 1

Claimable(r) ==
  \/ job[r].status = "pending"
  \/ job[r].status = "leased" /\ ~job[r].live

\* markPdfExtractionStarted, markPolicyOcrStarted
Started(r) ==
  IF row[r].status \in {"queued", "working"}
  THEN [row EXCEPT ![r].status = "working"] ELSE row

\* claimJob; the agent then reads the document in a child process.
Claim(a, r) ==
  /\ agent[a].task = "none"
  /\ Claimable(r) /\ job[r].attempt < MaxAttempts
  /\ job' = [job EXCEPT ![r] = [status |-> "leased", attempt |-> @.attempt + 1,
                                holder |-> a, live |-> TRUE]]
  /\ row' = Started(r)
  /\ \E s \in Seeings(r) :
       /\ agent' = [agent EXCEPT ![a] = [task |-> r, seen |-> s, sent |-> 0]]
       /\ seen' = [seen EXCEPT ![r] = @ \cup {s}]
  /\ UNCHANGED <<pdf, wire, late, faults>>

\* Mutant of Failed: the row is not told that its job has ended.
Untold(r) == row

\* markPdfExtractionFailure, markPolicyOcrFailure, when no attempt will follow.
Failed(r) ==
  IF row[r].status \in Ended THEN row ELSE [row EXCEPT ![r].status = "failed"]

DeadLettered(r) ==
  [job EXCEPT ![r].status = "dead_letter", ![r].holder = Nobody, ![r].live = FALSE]

\* claimJob, when the lease of the last attempt was lost.
ClaimExhausted(a, r) ==
  /\ agent[a].task = "none"
  /\ Claimable(r) /\ job[r].attempt >= MaxAttempts
  /\ job' = DeadLettered(r)
  /\ row' = Failed(r)
  /\ SeenUntilEnded
  /\ UNCHANGED <<pdf, agent, wire, late, faults>>

\* The lease ends: its holder does not work on the job any more, or its
\* heartbeats did not arrive in time.
LeaseExpires(r) ==
  /\ job[r].status = "leased" /\ job[r].live
  /\ IF agent[job[r].holder].task = r THEN Fault ELSE UNCHANGED faults
  /\ job' = [job EXCEPT ![r].live = FALSE]
  /\ UNCHANGED <<pdf, row, agent, wire, late, seen>>

Holds(a, r) == job[r].status = "leased" /\ job[r].holder = a /\ job[r].live

-----------------------------------------------------------------------------
(* The chunks                                                              *)

Chunk(a) == [agent |-> a, task |-> agent[a].task, seq |-> agent[a].sent + 1,
             page |-> agent[a].seen[agent[a].sent + 1]]

\* The worker sends a page it could not recognise as `control_required', and
\* the server takes an image page only as `ocr_only'.
WellFormed(c) == c.task = "text" \/ c.page # "failed"

\* acceptPdfExtractionChunk, acceptPolicyOcrChunk: the next chunk is stored,
\* one that was stored before has to say the same.
Accepts(c) ==
  /\ Holds(c.agent, c.task)
  /\ row[c.task].status = "working"
  /\ WellFormed(c)
  /\ \/ c.seq = Len(row[c.task].pages) + 1
     \/ c.seq <= Len(row[c.task].pages) /\ row[c.task].pages[c.seq] = c.page

\* Mutant of Stored: a chunk that is sent again is stored again.
StoredAgain(c) == [row EXCEPT ![c.task].pages = Append(@, c.page)]

Stored(c) ==
  IF c.seq = Len(row[c.task].pages) + 1
  THEN [row EXCEPT ![c.task].pages = Append(@, c.page)]
  ELSE row

Reading(a) == agent[a].task # "none" /\ agent[a].sent < Len(agent[a].seen)

\* A chunk is sent, stored and acknowledged.
SendChunk(a) ==
  /\ Reading(a) /\ Accepts(Chunk(a))
  /\ row' = Stored(Chunk(a))
  /\ agent' = [agent EXCEPT ![a].sent = @ + 1]
  /\ UNCHANGED <<pdf, job, wire, late, seen, faults>>

\* The agent gives up waiting for the answer; the chunk may still arrive.
LoseAnswer(a) ==
  /\ Reading(a)
  /\ Fault
  /\ wire' = wire \cup {Chunk(a)}
  /\ agent' = [agent EXCEPT ![a].seen = <<>>, ![a].sent = 1]
  /\ UNCHANGED <<pdf, row, job, late, seen>>

ChunkArrivesLate(c) ==
  /\ c \in wire
  /\ wire' = wire \ {c}
  /\ row' = IF Accepts(c) THEN Stored(c) ELSE row
  /\ UNCHANGED <<pdf, job, agent, late, seen, faults>>

-----------------------------------------------------------------------------
(* The end of an attempt                                                   *)

\* finalizePdfExtraction, finalizePolicyOcr: the summary of the attempt against
\* the pages stored for the row, whoever sent them.
SummaryMatches(r, s) == row[r].pages = s

\* Mutant of Finalized: a reading with all its pages is called ready.
FinalizedReady(r, s) == [row EXCEPT ![r].status = "ready"]

Finalized(r, s) == [row EXCEPT ![r].status = StatusOf(r, row[r].pages)]

\* reportResult of a reading s; a report without a lease is refused.
Finish(a, r, s) ==
  IF ~Holds(a, r) THEN UNCHANGED <<row, job>>
  ELSE IF row[r].status = "working" /\ SummaryMatches(r, s)
  THEN /\ row' = Finalized(r, s)
       /\ job' = [job EXCEPT ![r].status = "succeeded"]
  ELSE /\ row' = Failed(r)
       /\ job' = [job EXCEPT ![r].status = "failed"]

Uploaded(a) ==
  agent[a].seen # <<>> /\ agent[a].sent = Len(agent[a].seen)

\* The attempt has uploaded every page and reports.
ReportRead(a) ==
  /\ Uploaded(a)
  /\ Finish(a, agent[a].task, agent[a].seen)
  /\ agent' = [agent EXCEPT ![a] = Idle]
  /\ SeenUntilEnded
  /\ UNCHANGED <<pdf, wire, late, faults>>

\* The agent gives up waiting for the answer to its report and goes on polling;
\* the report may still arrive, even while the agent has the job again.
LoseReport(a) ==
  /\ Uploaded(a)
  /\ Fault
  /\ late' = late \cup {[agent |-> a, task |-> agent[a].task, seen |-> agent[a].seen]}
  /\ agent' = [agent EXCEPT ![a] = Idle]
  /\ UNCHANGED <<pdf, row, job, wire, seen>>

ReportArrivesLate(m) ==
  /\ m \in late
  /\ late' = late \ {m}
  /\ Finish(m.agent, m.task, m.seen)
  /\ SeenUntilEnded
  /\ UNCHANGED <<pdf, agent, wire, faults>>

\* What makes an attempt report a failure: a chunk refused or unanswered, or
\* the worker that crashed, timed out or met a file it cannot read.
WorkerFails(a) == Fault
ChunkRefused(a) == Reading(a) /\ ~Accepts(Chunk(a)) /\ UNCHANGED faults
ChunkUnanswered(a) == agent[a].seen = <<>> /\ UNCHANGED faults

\* Mutant of Requeued: the row is not told that the attempt is over.
RequeuedSilently(r) == row

\* markPdfExtractionFailure, markPolicyOcrFailure, when an attempt will follow.
Requeued(r) ==
  IF row[r].status \in Ended THEN row ELSE [row EXCEPT ![r].status = "queued"]

\* reportResult of a failed attempt: another one follows, unless the budget is
\* spent or the error is of the kind that no attempt can mend.
ReportFailed(a) ==
  LET r == agent[a].task IN
  /\ r # "none"
  /\ WorkerFails(a) \/ ChunkRefused(a) \/ ChunkUnanswered(a)
  /\ agent' = [agent EXCEPT ![a] = Idle]
  /\ IF ~Holds(a, r) THEN UNCHANGED <<row, job>>
     ELSE \E hopeless \in (IF faults' = faults THEN {FALSE} ELSE BOOLEAN) :
            IF hopeless \/ job[r].attempt >= MaxAttempts
            THEN row' = Failed(r) /\ job' = DeadLettered(r)
            ELSE /\ row' = Requeued(r)
                 /\ job' = [job EXCEPT ![r].status = "pending",
                                       ![r].holder = Nobody, ![r].live = FALSE]
  /\ SeenUntilEnded
  /\ UNCHANGED <<pdf, wire, late>>

\* The agent dies, loses its lease or cannot reach the API: nothing is reported
\* and the lease has to run out.
Abandon(a) ==
  /\ agent[a].task # "none"
  /\ Fault
  /\ agent' = [agent EXCEPT ![a] = Idle]
  /\ UNCHANGED <<pdf, row, job, wire, late, seen>>

Next ==
  \/ CreateText \/ CreateOcr \/ RetryOcr
  \/ \E r \in Readings : Cancel(r) \/ LeaseExpires(r)
  \/ \E a \in Agents, r \in Readings : Claim(a, r) \/ ClaimExhausted(a, r)
  \/ \E a \in Agents : \/ SendChunk(a) \/ LoseAnswer(a)
                       \/ ReportRead(a) \/ LoseReport(a)
                       \/ ReportFailed(a) \/ Abandon(a)
  \/ \E c \in wire : ChunkArrivesLate(c)
  \/ \E m \in late : ReportArrivesLate(m)

\* The agents keep polling and finish what they read; clocks advance.
Fairness ==
  /\ \A r \in Readings : WF_vars(LeaseExpires(r))
  /\ \A r \in Readings :
       WF_vars(\E a \in Agents : Claim(a, r) \/ ClaimExhausted(a, r))
  /\ \A a \in Agents : WF_vars(SendChunk(a) \/ ReportRead(a) \/ ReportFailed(a))

Spec == Init /\ [][Next]_vars
FairSpec == Spec /\ Fairness

-----------------------------------------------------------------------------
(* Correctness                                                             *)

RowStatuses == {"absent", "queued", "working"} \cup Ended

RowType == [status : RowStatuses, selected : Seq(Nat), pages : Seq(Outcomes)]
JobType == [status : {"absent", "pending", "leased"} \cup JobEnded,
            attempt : 0 .. MaxAttempts, holder : Agents \cup {Nobody}, live : BOOLEAN]
AgentType == [task : Readings \cup {"none"}, seen : Seq(Outcomes), sent : Nat]

\* The types of the rows, the jobs and the agents' loops; no job is leased more
\* often than max_attempts, and no row has more pages than were ordered.
TypeOK ==
  /\ row \in [Readings -> RowType]
  /\ job \in [Readings -> JobType]
  /\ agent \in [Agents -> AgentType]
  /\ wire \subseteq [agent : Agents, task : Readings, seq : Nat, page : Outcomes]
  /\ late \subseteq [agent : Agents, task : Readings, seen : Seq(Outcomes)]
  /\ seen \in [Readings -> SUBSET Seq(Outcomes)]
  /\ faults \in 0 .. MaxFaults
  /\ \A r \in Readings : Len(row[r].pages) <= Len(row[r].selected)

\* A row waits, is worked on or has ended exactly as its job does, through lost
\* leases, late reports, cancellations and exhausted budgets: none is left
\* `processing' for a job that is over, and none is decided while an attempt
\* may still follow (agent/store.ts reportResult, claimJob).
RowFollowsJob ==
  \A r \in Readings :
    /\ row[r].status = "queued" <=> job[r].status = "pending"
    /\ row[r].status = "working" <=> job[r].status = "leased"
    /\ row[r].status \in Read <=> job[r].status = "succeeded"
    /\ row[r].status = "cancelled" <=> job[r].status = "cancelled"

StateOf(r) ==
  CASE row[r].status \in {"queued", "working"} -> "open"
    [] row[r].status \in Read -> "read"
    [] OTHER -> row[r].status

NoResult == [pages |-> <<>>, status |-> "none"]

\* The chunked, retried and lossy protocol implements PolicyReading: what is
\* stored of a document is all that one attempt saw of it, in one step, for
\* good, with the status these pages derive, and what was ordered settles.
Promise ==
  INSTANCE PolicyReading WITH
    Results <- UNION {[1 .. n -> Outcomes] : n \in UNION {0 .. Len(d) : d \in Documents}},
    None <- NoResult,
    state <- [r \in Readings |-> StateOf(r)],
    result <- [r \in Readings |->
                 IF StateOf(r) = "read"
                 THEN [pages |-> row[r].pages, status |-> row[r].status]
                 ELSE NoResult],
    seen <- seen

SettlesAsOneAttempt == Promise!Spec
=============================================================================
