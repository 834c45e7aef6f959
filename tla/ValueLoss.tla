------------------------------ MODULE ValueLoss -------------------------------
(***************************************************************************)
(* The value loss of a traffic case: versions of the assessment, their     *)
(* approval (services/api/src/traffic-value-loss/store.ts), the final      *)
(* report of a version (report-store.ts) and what the closing of the case  *)
(* sees of it (closure-store.ts).                                          *)
(*                                                                         *)
(* Every command holds the row lock of the assessment and is one step; it  *)
(* carries the version of the assessment, and a report the hash of the     *)
(* page, that its sender has on screen.  A command that is refused is no   *)
(* step.  The case's own facts in a report may be edited at any time.      *)
(***************************************************************************)
EXTENDS Naturals, Sequences, FiniteSets

CONSTANTS
  Users,
  MaxVersions,    \* bound on the versions of the assessment
  MaxFacts        \* bound on the edits of the case

VARIABLES
  assessment,  \* [version, current]; current = 0: no row
  ver,         \* Seq of rows of traffic_value_loss_versions
  facts,       \* counts the edits of what a report says of the case
  report,      \* Seq, beside ver: traffic_value_loss_reports of the version
  page         \* [Users -> what the user has on screen]

vars == <<assessment, ver, facts, report, page>>

NoPage == [kind |-> "none"]
NoReport == [status |-> "none", facts |-> 0]

Init ==
  /\ assessment = [version |-> 0, current |-> 0]
  /\ ver = <<>>
  /\ facts = 0
  /\ report = <<>>
  /\ page = [u \in Users |-> NoPage]

-----------------------------------------------------------------------------
(* What people look at                                                     *)

\* buildTrafficValueLossReportContent: of a version a person has approved.
Reportable(n) == ver[n].status \in {"approved", "superseded"} /\ ver[n].human = "approved"

Content(n) == [status |-> ver[n].status, facts |-> facts]

Look(u) ==
  /\ page[u] = NoPage
  /\ \/ page' = [page EXCEPT ![u] = [kind |-> "assessment", version |-> assessment.version]]
     \/ \E n \in DOMAIN ver :
          /\ Reportable(n)
          /\ page' = [page EXCEPT ![u] = [kind |-> "report", version |-> assessment.version,
                                          of |-> n, shows |-> Content(n)]]
  /\ UNCHANGED <<assessment, ver, facts, report>>

Leave(u) ==
  /\ page[u] # NoPage
  /\ page' = [page EXCEPT ![u] = NoPage]
  /\ UNCHANGED <<assessment, ver, facts, report>>

\* The assessment has the version that was shown; every command but the
\* generation of a report gives it the next one.
Fresh(u, kind) == page[u].kind = kind /\ page[u].version = assessment.version

-----------------------------------------------------------------------------
(* Versions                                                                *)

NewVersion(submittable) ==
  [status |-> IF submittable THEN "draft" ELSE "control_required",
   submittable |-> submittable, human |-> "pending", active |-> FALSE]

\* Mutant of VersionsWith: a new version ends what was approved.
VersionsInsteadWith(v) ==
  Append([n \in DOMAIN ver |->
            IF ver[n].active THEN [ver[n] EXCEPT !.status = "superseded", !.active = FALSE]
            ELSE ver[n]], v)

VersionsWith(v) == Append(ver, v)

\* createVersion: a version that is approved stays so; a real-market version is
\* refused without the hash of its preview and is not told from the others.
CreateVersion(u) ==
  /\ Fresh(u, "assessment")
  /\ Len(ver) < MaxVersions
  /\ \E submittable \in BOOLEAN : ver' = VersionsWith(NewVersion(submittable))
  /\ assessment' = [version |-> assessment.version + 1, current |-> Len(ver) + 1]
  /\ report' = Append(report, NoReport)
  /\ page' = [page EXCEPT ![u] = NoPage]
  /\ UNCHANGED facts

\* What the decisions about the current version have in common.
Decide(u, statuses, decided) ==
  /\ Fresh(u, "assessment")
  /\ assessment.current # 0
  /\ ver[assessment.current].status \in statuses
  /\ ver' = decided
  /\ assessment' = [assessment EXCEPT !.version = @ + 1]
  /\ page' = [page EXCEPT ![u] = NoPage]
  /\ UNCHANGED <<facts, report>>

\* submit
Submit(u) ==
  /\ assessment.current # 0 => ver[assessment.current].submittable
  /\ Decide(u, {"draft", "control_required"},
            [ver EXCEPT ![assessment.current].status = "awaiting_approval"])

\* Mutant of Approved: what was approved before stays active.
ApprovedBeside(current) ==
  [ver EXCEPT ![current] = [@ EXCEPT !.status = "approved", !.human = "approved",
                                     !.active = TRUE]]

\* The current version is approved and the one before it superseded.
Approved(current) ==
  [n \in DOMAIN ver |->
     IF n = current
     THEN [ver[n] EXCEPT !.status = "approved", !.human = "approved", !.active = TRUE]
     ELSE IF ver[n].status = "approved" /\ ver[n].active
     THEN [ver[n] EXCEPT !.status = "superseded", !.active = FALSE]
     ELSE ver[n]]

\* approve
Approve(u) == Decide(u, {"awaiting_approval"}, Approved(assessment.current))

\* reject
Reject(u) ==
  Decide(u, {"awaiting_approval"},
         [ver EXCEPT ![assessment.current] =
            [@ EXCEPT !.status = "rejected", !.human = "rejected", !.active = FALSE]])

-----------------------------------------------------------------------------
(* Reports                                                                 *)

\* generate: what the page shows is what the report will say, and a version has
\* one report.
Generate(u) ==
  /\ Fresh(u, "report")
  /\ LET n == page[u].of IN
       /\ Reportable(n) /\ Content(n) = page[u].shows
       /\ report[n] = NoReport
       /\ report' = [report EXCEPT ![n] = Content(n)]
  /\ page' = [page EXCEPT ![u] = NoPage]
  /\ UNCHANGED <<assessment, ver, facts>>

\* Number, plate or dates of the case are edited.
CaseEdited ==
  /\ facts < MaxFacts
  /\ facts' = facts + 1
  /\ UNCHANGED <<assessment, ver, report, page>>

Next ==
  \/ \E u \in Users : \/ Look(u) \/ Leave(u) \/ CreateVersion(u) \/ Submit(u)
                      \/ Approve(u) \/ Reject(u) \/ Generate(u)
  \/ CaseEdited

Spec == Init /\ [][Next]_vars

-----------------------------------------------------------------------------
(* What the closing of the case sees                                       *)

\* currentApproved, and the join of loadTrafficValueLossClosureSummaries
InForce == {n \in DOMAIN ver :
              ver[n].status = "approved" /\ ver[n].human = "approved" /\ ver[n].active}

\* evaluateTrafficValueLossClosure: `present', for one version and its report.
Present == \E n \in InForce : report[n] # NoReport

-----------------------------------------------------------------------------
(* Correctness                                                             *)

\* The types of the rows; versions are numbered without gaps.
TypeOK ==
  /\ assessment.current = Len(ver) /\ Len(report) = Len(ver)
  /\ \A n \in DOMAIN ver :
       /\ ver[n].status \in {"draft", "control_required", "awaiting_approval",
                             "approved", "rejected", "superseded"}
       /\ ver[n].active <=> ver[n].status = "approved"
       /\ report[n] # NoReport => Reportable(n)

ApprovedNow == \E n \in DOMAIN ver : ver[n].status # "approved" /\ ver'[n].status = "approved"

\* The value of the case is one version, and it stays the value, report
\* included, through new drafts, their rejection and edits of the case, until
\* another version is approved: the closing of a case does not lose what it saw
\* (createVersion, approve; closure-store.ts;
\* test/traffic-value-loss-closure-e2e.test.ts).
ValueStaysInForce ==
  /\ [](Cardinality(InForce) <= 1)
  /\ [][InForce # {} /\ ~ApprovedNow =>
          /\ InForce' = InForce
          /\ Present => Present' /\ \A n \in InForce : report'[n] = report[n]]_vars
=============================================================================
