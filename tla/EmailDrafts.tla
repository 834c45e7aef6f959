----------------------------- MODULE EmailDrafts ------------------------------
(***************************************************************************)
(* E-mails about a case (services/api/src/email-drafts/store.ts): people   *)
(* preview what the case asks for, may take the suggestion of an AI run    *)
(* (AiCalls) for it, make a draft, revise it and hand it over to their     *)
(* mail program.                                                           *)
(*                                                                         *)
(* Every command holds the row lock of the case and is one step; it        *)
(* carries the versions and the hash of the page it was given on, and one  *)
(* that is refused is no step.  A preview is told from another by the      *)
(* version of the case and the attachments that are ready, which also      *)
(* decide the requirements.  A retried command is ClosureFees' matter;     *)
(* createDraft and prepareHandoff leave it to the unique index alone.      *)
(***************************************************************************)
EXTENDS Naturals, Sequences, FiniteSets

CONSTANTS
  Attachments,   \* document versions and photos of the case
  Drafts,        \* ids of drafts
  Users,
  MaxVersions,   \* bound on the versions of a draft
  MaxHandoffs,   \* bound on its handoffs
  MaxRuns,       \* bound on the suggestions
  MaxEdits       \* bound on the edits, closings and reopenings of the case

VARIABLES
  case,         \* [open, version]
  ready,        \* the attachments that listAvailableAttachments returns
  suggestions,  \* the bases of the AI runs in review_required
  draft,        \* [Drafts -> Seq of rows of email_draft_versions]
  handoffs,     \* [Drafts -> Seq of the versions handed over]
  page          \* [Users -> what the user has on screen]

vars == <<case, ready, suggestions, draft, handoffs, page>>

NoPage == [kind |-> "none"]

Init ==
  /\ case = [open |-> TRUE, version |-> 1]
  /\ ready \in SUBSET Attachments
  /\ suggestions = {}
  /\ draft = [d \in Drafts |-> <<>>]
  /\ handoffs = [d \in Drafts |-> <<>>]
  /\ page = [u \in Users |-> NoPage]

-----------------------------------------------------------------------------
(* What people look at                                                     *)

\* buildEmailDraftPreview, as far as its hash tells
Preview == [version |-> case.version, open |-> case.open, ready |-> ready]

Latest(d) == draft[d][Len(draft[d])]

Look(u) ==
  /\ page[u] = NoPage
  /\ \/ page' = [page EXCEPT ![u] = [kind |-> "preview", shows |-> Preview]]
     \/ \E d \in Drafts :
          /\ draft[d] # <<>>
          /\ page' = [page EXCEPT ![u] = [kind |-> "draft", id |-> d,
                                          version |-> Len(draft[d]), shows |-> Latest(d)]]
  /\ UNCHANGED <<case, ready, suggestions, draft, handoffs>>

Leave(u) ==
  /\ page[u] # NoPage
  /\ page' = [page EXCEPT ![u] = NoPage]
  /\ UNCHANGED <<case, ready, suggestions, draft, handoffs>>

\* A run of email-ai/store.ts ends with a suggestion for what is on screen; the
\* case may have changed while the provider was called.
Suggest(u) ==
  /\ page[u].kind = "preview" /\ page[u].shows.open
  /\ Cardinality(suggestions) < MaxRuns
  /\ suggestions' = suggestions \cup {page[u].shows}
  /\ UNCHANGED <<case, ready, draft, handoffs, page>>

-----------------------------------------------------------------------------
(* Commands                                                                *)

\* Mutant of Suggested: any suggestion for this case will do.
SuggestedForCase(base) == suggestions # {}

\* validEmailAiSuggestion
Suggested(base) == base \in suggestions

\* Mutant of PreviewHolds: the version of the case is compared, the hash is not.
VersionHolds(shown) == shown.version = case.version

\* The case and the hash of its preview are as they were shown.
PreviewHolds(shown) == shown = Preview

\* createDraft
CreateDraft(u) ==
  /\ case.open
  /\ page[u].kind = "preview" /\ PreviewHolds(page[u].shows)
  /\ \E d \in Drafts, chosen \in SUBSET ready, ai \in BOOLEAN :
       /\ draft[d] = <<>>
       /\ ai => Suggested(page[u].shows)
       /\ draft' = [draft EXCEPT ![d] =
            <<[source |-> IF ai THEN "ai_assisted" ELSE "deterministic_template",
               preview |-> page[u].shows, attachments |-> chosen]>>]
  /\ page' = [page EXCEPT ![u] = NoPage]
  /\ UNCHANGED <<case, ready, suggestions, handoffs>>

\* Mutant of DraftHolds: the version is not compared.
AnyVersion(u) == page[u].kind = "draft"

\* The draft has the version that was shown.
DraftHolds(u) ==
  page[u].kind = "draft" /\ page[u].version = Len(draft[page[u].id])

\* reviseDraft: the hash of the preview is that of the first version.
ReviseDraft(u) ==
  /\ case.open
  /\ DraftHolds(u)
  /\ LET d == page[u].id IN
       /\ Len(draft[d]) < MaxVersions
       /\ \E chosen \in SUBSET ready :
            draft' = [draft EXCEPT ![d] = Append(@,
              [source |-> "manual_revision", preview |-> Latest(d).preview,
               attachments |-> chosen])]
  /\ page' = [page EXCEPT ![u] = NoPage]
  /\ UNCHANGED <<case, ready, suggestions, handoffs>>

\* prepareHandoff: the current version, with its attachments as they are.
PrepareHandoff(u) ==
  /\ case.open
  /\ DraftHolds(u)
  /\ LET d == page[u].id IN
       /\ Len(handoffs[d]) < MaxHandoffs
       /\ handoffs' = [handoffs EXCEPT ![d] = Append(@, Len(draft[d]))]
  /\ page' = [page EXCEPT ![u] = NoPage]
  /\ UNCHANGED <<case, ready, suggestions, draft>>

-----------------------------------------------------------------------------
(* What happens meanwhile                                                  *)

CaseChanges ==
  /\ case.version <= MaxEdits
  /\ \E open \in BOOLEAN : case' = [open |-> open, version |-> case.version + 1]
  /\ UNCHANGED <<ready, suggestions, draft, handoffs, page>>

\* A document becomes ready, or its verification finds it missing or changed;
\* the version of the case stays.
AttachmentChanges(x) ==
  /\ ready' = IF x \in ready THEN ready \ {x} ELSE ready \cup {x}
  /\ UNCHANGED <<case, suggestions, draft, handoffs, page>>

Next ==
  \/ \E u \in Users : \/ Look(u) \/ Leave(u) \/ Suggest(u)
                      \/ CreateDraft(u) \/ ReviseDraft(u) \/ PrepareHandoff(u)
  \/ CaseChanges
  \/ \E x \in Attachments : AttachmentChanges(x)

Spec == Init /\ [][Next]_vars

-----------------------------------------------------------------------------
(* Correctness                                                             *)

Previews == [version : 1 .. MaxEdits + 1, open : BOOLEAN, ready : SUBSET Attachments]

\* The types of the rows; a draft has one first version.
TypeOK ==
  /\ case.version \in 1 .. MaxEdits + 1
  /\ suggestions \subseteq Previews
  /\ \A d \in Drafts : \A n \in DOMAIN draft[d] :
       /\ draft[d][n].preview \in Previews
       /\ n = 1 <=> draft[d][n].source # "manual_revision"

\* What goes out was seen: the attachments of a version are ready when it is
\* written, a draft starts from the case as its author has it on screen, which
\* is the case as it is, an AI text was suggested for exactly this, and what is
\* handed over is what its sender has on screen, whatever others edit, verify or
\* revise in between (createDraft, reviseDraft, prepareHandoff).
SentAsSeen ==
  [][\A d \in Drafts :
       /\ draft'[d] # draft[d] =>
            LET v == draft'[d][Len(draft'[d])] IN
            /\ v.attachments \subseteq ready
            /\ v.source # "manual_revision" => v.preview = Preview
            /\ v.source = "ai_assisted" => v.preview \in suggestions
       /\ handoffs'[d] # handoffs[d] =>
            \E u \in Users : /\ page[u].kind = "draft" /\ page'[u] = NoPage
                             /\ page[u].id = d /\ page[u].shows = Latest(d)]_vars
=============================================================================
