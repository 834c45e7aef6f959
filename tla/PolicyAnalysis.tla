---------------------------- MODULE PolicyAnalysis ----------------------------
(***************************************************************************)
(* The analyses of a kasko policy: versions that people write, whose       *)
(* conflicts they resolve and which they approve or reject                 *)
(* (services/api/src/policy-analysis/store.ts), and versions made from the *)
(* reviewed candidates of an AI run (policy-ai/review-store.ts).           *)
(*                                                                         *)
(* A command carries the versions and the hash of the page it was given    *)
(* on; a command the server refuses is no step.  Every handler holds the   *)
(* row lock of what it decides about until it commits and is one step,     *)
(* except resolveConflict, which locks its conflict only, and a promotion  *)
(* that finds no analysis and has no row to lock, taken to be one step     *)
(* too: two runs of one document may each make an analysis.  How a retried *)
(* command is answered is ClosureFees' matter; these stores look for the   *)
(* stored answer before they lock only.                                    *)
(***************************************************************************)
EXTENDS Naturals, Sequences, FiniteSets

CONSTANTS
  Analyses,      \* ids of policy_analyses
  Documents,     \* the policy documents of the case
  Runs,          \* AI runs in review_required
  SourceOf,      \* [Runs -> Documents]: the policy in the bundle of the run
  Candidates,    \* the candidates of a run
  Disputes,      \* [Runs -> SUBSET SUBSET Candidates]: ai_candidate_conflicts
  Users,
  Drafts,        \* what people write: [conflicts, complete, initial]
  MaxVersions,   \* bound on the versions of an analysis
  MaxReviews     \* bound on the reviews of a candidate

VARIABLES
  analysis,   \* [Analyses -> [version, doc, current]]; current = 0: no row
  ver,        \* [Analyses -> Seq of rows of policy_analysis_versions]
  review,     \* [Runs -> [Candidates -> the latest review]]
  promoted,   \* the pairs of a run and a review set in ai_candidate_promotions
  resolving,  \* transactions of resolveConflict that have not committed
  page        \* [Users -> what the user has on screen]

vars == <<analysis, ver, review, promoted, resolving, page>>

NoAnalysis == [version |-> 0, doc |-> "none", current |-> 0]
NoReview == [version |-> 0, choice |-> "none"]
NoPage == [kind |-> "none"]

\* A candidate is taken over with evidence that holds or with evidence that
\* needs control, or it is left out (rejected, control_required).
Taken == {"validated", "doubtful"}
Choices == Taken \cup {"excluded"}

\* `extracted' is not told from draft, and neither is awaiting_approval from the
\* control_required that a person gives a complete version.
InitialStatuses == {"draft", "awaiting_approval"}

Init ==
  /\ analysis = [a \in Analyses |-> NoAnalysis]
  /\ ver = [a \in Analyses |-> <<>>]
  /\ review = [r \in Runs |-> [c \in Candidates |-> NoReview]]
  /\ promoted = {}
  /\ resolving = {}
  /\ page = [u \in Users |-> NoPage]

Exists(a) == analysis[a].current # 0
Current(a) == ver[a][analysis[a].current]
Open(v) == {c \in DOMAIN v.conflicts : v.conflicts[c] = "open"}

-----------------------------------------------------------------------------
(* What people look at                                                     *)

\* What a promotion would make of the run now: the reviews behind its hash and
\* the analyses of its policy document.
Targets(r) == {a \in Analyses : Exists(a) /\ analysis[a].doc = SourceOf[r]}

Preview(r) ==
  [kind |-> "preview", run |-> r, reviews |-> review[r],
   targets |-> {[id |-> a, version |-> analysis[a].version] : a \in Targets(r)}]

Detail(a) ==
  [kind |-> "analysis", id |-> a, version |-> analysis[a].version,
   content |-> Current(a)]

Look(u) ==
  /\ page[u] = NoPage
  /\ \/ \E a \in Analyses : Exists(a) /\ page' = [page EXCEPT ![u] = Detail(a)]
     \/ \E r \in Runs : page' = [page EXCEPT ![u] = Preview(r)]
  /\ UNCHANGED <<analysis, ver, review, promoted, resolving>>

\* The command is given on the page of an analysis that has not changed since.
Fresh(u) ==
  /\ page[u].kind = "analysis"
  /\ analysis[page[u].id].version = page[u].version

Done(u) == page' = [page EXCEPT ![u] = NoPage]

-----------------------------------------------------------------------------
(* Versions                                                                *)

\* insertVersion
StatusOfNew(conflicts, complete, initial) ==
  CASE conflicts > 0 -> "conflict_detected"
    [] conflicts = 0 /\ ~complete -> "control_required"
    [] OTHER -> initial

NewVersion(d, conflicts, complete, initial) ==
  [doc |-> d, complete |-> complete, active |-> FALSE,
   status |-> StatusOfNew(conflicts, complete, initial),
   conflicts |-> [c \in 1 .. conflicts |-> "open"]]

Superseded(v) ==
  IF v.status = "approved" THEN [v EXCEPT !.status = "superseded", !.active = FALSE] ELSE v

\* A version follows the current one, which is no longer the policy of the case.
Follow(a, v) ==
  /\ Len(ver[a]) < MaxVersions
  /\ ver' = [ver EXCEPT ![a] =
               Append([ver[a] EXCEPT ![analysis[a].current] = Superseded(@)], v)]
  /\ analysis' = [analysis EXCEPT ![a] =
                    [version |-> @.version + 1, doc |-> v.doc, current |-> Len(ver[a]) + 1]]

Found(a, v) ==
  /\ ~Exists(a)
  /\ ver' = [ver EXCEPT ![a] = <<v>>]
  /\ analysis' = [analysis EXCEPT ![a] = [version |-> 1, doc |-> v.doc, current |-> 1]]

Drafted(d) == {NewVersion(d, w.conflicts, w.complete, w.initial) : w \in Drafts}

\* create
Create(a) ==
  /\ \E d \in Documents : \E v \in Drafted(d) : Found(a, v)
  /\ UNCHANGED <<review, promoted, resolving, page>>

\* createVersion; the new version may be about another document.
CreateVersion(u) ==
  /\ Fresh(u)
  /\ \E d \in Documents : \E v \in Drafted(d) : Follow(page[u].id, v)
  /\ Done(u)
  /\ UNCHANGED <<review, promoted, resolving>>

\* approve: whatever is in force for the document, in this analysis or another,
\* gives way.
Approved(a) ==
  [x \in Analyses |-> [k \in DOMAIN ver[x] |->
     IF x = a /\ k = analysis[a].current
     THEN [ver[x][k] EXCEPT !.status = "approved", !.active = TRUE]
     ELSE IF ver[x][k].doc = analysis[a].doc /\ ver[x][k].active
     THEN Superseded(ver[x][k])
     ELSE ver[x][k]]]

Approve(u) ==
  /\ Fresh(u)
  /\ LET a == page[u].id IN
       /\ Current(a).status \in {"awaiting_approval", "control_required"}
       /\ Current(a).complete /\ Open(Current(a)) = {}
       /\ ver' = Approved(a)
       /\ analysis' = [analysis EXCEPT ![a].version = @ + 1]
  /\ Done(u)
  /\ UNCHANGED <<review, promoted, resolving>>

\* reject
Reject(u) ==
  /\ Fresh(u)
  /\ LET a == page[u].id IN
       /\ Current(a).status \notin {"approved", "superseded", "rejected"}
       /\ ver' = [ver EXCEPT ![a][analysis[a].current].status = "rejected"]
       /\ analysis' = [analysis EXCEPT ![a].version = @ + 1]
  /\ Done(u)
  /\ UNCHANGED <<review, promoted, resolving>>

-----------------------------------------------------------------------------
(* Conflicts                                                               *)

\* resolveConflict, until it has counted the conflicts that are left: it sees
\* its own update and of the others what is committed.
StartResolving(a, k, c) ==
  /\ \A t \in resolving : <<t.id, t.number, t.conflict>> # <<a, k, c>>
  /\ resolving' = resolving \cup
       {[id |-> a, number |-> k, conflict |-> c, last |-> Open(ver[a][k]) = {c}]}
  /\ UNCHANGED <<analysis, ver, review, promoted, page>>

\* Mutant of Counted: the analysis keeps its version.
CountedAsNothing(a) == analysis

Counted(a) == [analysis EXCEPT ![a].version = @ + 1]

Resolved(v, t) ==
  [v EXCEPT !.conflicts[t.conflict] = "resolved",
            !.status = IF t.last /\ @ = "conflict_detected"
                       THEN "awaiting_approval" ELSE @]

\* The rest of resolveConflict, and its commit.
FinishResolving(t) ==
  /\ t \in resolving
  /\ resolving' = resolving \ {t}
  /\ ver' = [ver EXCEPT ![t.id][t.number] = Resolved(@, t)]
  /\ analysis' = Counted(t.id)
  /\ UNCHANGED <<review, promoted, page>>

-----------------------------------------------------------------------------
(* Candidates of an AI run                                                 *)

\* review of one candidate, on a page that shows its latest review.
Review(u, c) ==
  /\ page[u].kind = "preview"
  /\ LET r == page[u].run IN
       /\ review[r][c].version = page[u].reviews[c].version
       /\ review[r][c].version < MaxReviews
       /\ \E choice \in Choices :
            review' = [review EXCEPT ![r][c] = [version |-> @.version + 1,
                                                choice |-> choice]]
  /\ Done(u)
  /\ UNCHANGED <<analysis, ver, promoted, resolving>>

Selected(r) == {c \in Candidates : review[r][c].choice \in Taken}

\* evaluatePolicyAiPromotionReadiness and the other blockers of loadPreview
Promotable(r) ==
  /\ \A c \in Candidates : review[r][c] # NoReview
  /\ Selected(r) # {}
  /\ <<r, review[r]>> \notin promoted
  /\ Cardinality(Targets(r)) <= 1

\* The version a promotion makes: a conflict between two candidates comes along
\* when both are taken over.
FromRun(r) ==
  NewVersion(SourceOf[r],
             Cardinality({d \in Disputes[r] : d \subseteq Selected(r)}),
             \A c \in Candidates : review[r][c].choice = "validated",
             "draft")

\* Mutant of FollowFromRun: what was approved stays in force.
FollowBeside(a, v) ==
  /\ Len(ver[a]) < MaxVersions
  /\ ver' = [ver EXCEPT ![a] = Append(@, v)]
  /\ analysis' = [analysis EXCEPT ![a] =
                    [version |-> @.version + 1, doc |-> v.doc, current |-> Len(ver[a]) + 1]]

FollowFromRun(a, v) == Follow(a, v)

\* promote
Promote(u) ==
  /\ page[u].kind = "preview" /\ page[u] = Preview(page[u].run)
  /\ LET r == page[u].run IN
       /\ Promotable(r)
       /\ \/ \E a \in Targets(r) : FollowFromRun(a, FromRun(r))
          \/ Targets(r) = {} /\ \E a \in Analyses : Found(a, FromRun(r))
       /\ promoted' = promoted \cup {<<r, review[r]>>}
  /\ Done(u)
  /\ UNCHANGED <<review, resolving>>

Next ==
  \/ \E u \in Users : Look(u) \/ CreateVersion(u) \/ Approve(u) \/ Reject(u) \/ Promote(u)
  \/ \E u \in Users, c \in Candidates : Review(u, c)
  \/ \E a \in Analyses : Create(a)
  \/ \E a \in Analyses : \E k \in DOMAIN ver[a] : \E c \in Open(ver[a][k]) :
       StartResolving(a, k, c)
  \/ \E t \in resolving : FinishResolving(t)

Spec == Init /\ [][Next]_vars

-----------------------------------------------------------------------------
(* Correctness                                                             *)

VersionStatuses ==
  InitialStatuses \cup
  {"conflict_detected", "control_required", "approved", "rejected", "superseded"}

\* The types of the rows; versions are numbered without gaps.
TypeOK ==
  \A a \in Analyses :
    /\ analysis[a].current \in 0 .. MaxVersions /\ analysis[a].version \in Nat
    /\ analysis[a].current = Len(ver[a])
    /\ \A k \in DOMAIN ver[a] :
         /\ ver[a][k].status \in VersionStatuses
         /\ ver[a][k].active <=> ver[a][k].status = "approved"

\* The policy in force is the version its analysis shows: two stores write
\* versions, and whichever of them makes a new one, the approved version it
\* follows is no longer evaluated; and a document has one policy in force
\* (policy-analysis/store.ts createVersion, approve; review-store.ts promote).
ActivePolicyIsCurrent ==
  \A a, b \in Analyses : \A k \in DOMAIN ver[a], l \in DOMAIN ver[b] :
    ver[a][k].active =>
      /\ k = analysis[a].current
      /\ Open(ver[a][k]) = {}
      /\ (ver[b][l].active /\ ver[b][l].doc = ver[a][k].doc) => <<a, k>> = <<b, l>>

BecomesApproved(a) ==
  \E k \in DOMAIN ver[a] : ver[a][k].status # "approved" /\ ver'[a][k].status = "approved"

\* People decide about what they have on screen: a version is approved as the
\* page of its approver shows it, conflicts included, and a promotion takes the
\* reviews and meets the analysis that its preview showed, whatever others
\* have written in between (approve, resolveConflict, promote).
DecidedAsShown ==
  [][/\ \A a \in Analyses : BecomesApproved(a) =>
          \E u \in Users : /\ page[u].kind = "analysis" /\ page'[u] = NoPage
                           /\ page[u].id = a /\ page[u].content = Current(a)
     /\ \A p \in promoted' \ promoted :
          \E u \in Users : /\ page[u].kind = "preview" /\ page'[u] = NoPage
                           /\ page[u].run = p[1] /\ page[u].reviews = p[2]]_vars

\* Resolving the last conflict of a version opens the way to its approval
\* (services/api/test/policy-analysis.test.ts:89: the status after the
\* resolution is `awaiting_approval').
ResolvedVersionAwaitsApproval ==
  \A a \in Analyses : \A k \in DOMAIN ver[a] :
    ver[a][k].status = "conflict_detected" => Open(ver[a][k]) # {}
=============================================================================
