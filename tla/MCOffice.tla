------------------------------- MODULE MCOffice -------------------------------
(***************************************************************************)
(* Office, one part at a time: no two parts write the same row, so what    *)
(* they do together is what each does alone, in some order.  `part' is the *)
(* one that moves.                                                         *)
(***************************************************************************)
EXTENDS Office, TLC

CONSTANTS
  Parts,
  a1, a2, r1, c1, c2, c3, u1, u2,
  p1, e1, q1, q2, s1, f1, f2, f3, k1, k2, k3, d1, x1, m1, w1, w2

VARIABLE part

PdfsRead == {<<"text", "image_only">>}
Pair == {c1, c2}
OneSource == r1 :> "d1"
OneDispute == r1 :> {Pair}
CompleteDraft == {[conflicts |-> 0, complete |-> TRUE, initial |-> "awaiting_approval"]}
Modules == p1 :> "policy" @@ e1 :> "email"
OneEach == p1 :> 1 @@ e1 :> 1
Pictures == w1 :> k1 @@ w2 :> k2
Answers == {[number |-> k1, status |-> s] : s \in {"completed", "cancelled"}}

\* A part that does not move is in one of its initial states.
Idles(p, choice) == part # p => choice

\* Cases, and folders, are all alike: one of each symmetric choice is enough.
InOrder ==
  /\ reg[c1] \in {Nothing, f1} /\ reg[c2] \in {Nothing, f2} /\ reg[c3] = Nothing
  /\ reg[c2] # Nothing => reg[c1] # Nothing

\* The registry is run twice.  In "registry" nothing waits for the scan yet, and two
\* folders and two places have to do.  In "duplicates" a case is hidden and the
\* folder of another not bound, with a folder and a place to spare, and operators
\* leave the bindings alone.
Registers == part \in {"registry", "duplicates"}

NothingWaits ==
  /\ \A c \in KnownCases : ~known[c].archived /\ ws[c].status = "none"
  /\ folder[f3] = Registry!NoFolder /\ \A f \in Folders : folder[f].at # e1
  /\ scan.seen = folder

OneHiddenOneUnbound ==
  /\ Registry!Existing = {c1, c2} /\ known[c1].archived /\ ws[c2].status = "ready"
  /\ reg[c1] = f1 /\ loc[c1].path = p1
  /\ folder[f2].claim = c2 /\ folder[f2].at = k1 /\ folder[f3] = Registry!NoFolder
  /\ scan.seen = Registry!NothingSeen

TwoFoldersDo ==
  /\ folder'[f3] = Registry!NoFolder /\ \A f \in Folders : folder'[f].at # e1
  /\ \A c \in KnownCases : loc'[c].path # e1 /\ ws'[c].path # e1

RegistryMoves(A) ==
  /\ Registers /\ UNCHANGED part
  /\ A /\ Only("registry")
  /\ part = "registry" => TwoFoldersDo
  /\ part = "duplicates" => doubt' = Registry!NoReview /\ repair' = Registry!NoRepair

MCInit ==
  /\ part \in Parts
  /\ ~Registers => folder = [f \in Folders |-> Registry!NoFolder]
  /\ Registry!Init
  /\ CASE part = "registry" -> InOrder /\ NothingWaits
       [] part = "duplicates" -> OneHiddenOneUnbound
       [] OTHER -> Registry!Existing = {}
  /\ Init /\ Analysis!Init /\ Ai!Init /\ People!Init /\ Fees!Init /\ Mail!Init /\ Loss!Init
  /\ Idles("text", pdf = CHOOSE d \in Documents : TRUE)
  /\ Idles("accounts", user[u1].status = "absent" /\ linked[s1] = People!NoUser)
  /\ Idles("fees", verified = {})
  /\ Idles("mail", ready = {})
  /\ Photos!Init /\ place = p1 /\ Photos!GivenUp = {w2}
  /\ Tramer!Init
  /\ Tracking!Init /\ stands = p1 /\ paper \in {f1, Nothing} /\ Idles("tracking", paper = Nothing)

\* A change of its sources is read before a run begins and, for an e-mail, until it
\* has ended; that a call is overdue is read for e-mails.
ChangesMatter ==
  /\ \A r \in changed' \ changed :
       /\ run[r] \in {"none", "running"} \cup Ai!Blockable
       /\ Ai!Policy(r) => run[r] # "running"
  /\ overdue' \subseteq {e1}

\* An approval is of the first version of a fee and a correction of a later one; a
\* command that never was applicable is refused as one is that comes too late.
OnceApplicable ==
  \A q \in Requests : request'[q] # Fees!Idle =>
    LET m == request'[q].command IN
    /\ m.op = "approve" => m.expected = 1
    /\ m.op = "correct" => m.expected > 1

\* Requests are all alike, and so are keys: the first that is free comes first.
StartsFirst(rows, then, idle, x, y) == rows[y] = idle /\ then[y] # idle => rows[x] # idle

Taken(k) ==
  \/ stored[k] # Fees!NoAnswer
  \/ \E q \in Requests : request[q] # Fees!Idle /\ request[q].key = k
TakesFirst ==
  \A q \in Requests : request[q] = Fees!Idle /\ request'[q] # Fees!Idle =>
    /\ request'[q].key # k1 => Taken(k1)
    /\ request'[q].key = k3 => Taken(k2)

\* Analyses, requests, messages and rows are all alike: the first of them comes first.
InTurn(first, second, absent) == second # absent => first # absent

Moves(p) == part = p /\ UNCHANGED part

MCNext ==
  \/ Moves("text") /\ TextStep
  \/ /\ Moves("analysis") /\ AnalysisStep
     /\ InTurn(analysis'[a1], analysis'[a2], Analysis!NoAnalysis)
  \/ Moves("ai") /\ AiStep /\ ChangesMatter /\ StartsFirst(at, at', Ai!Idle, q1, q2)
  \/ Moves("accounts") /\ AccountsStep
  \/ /\ Moves("fees") /\ FeesStep /\ OnceApplicable /\ TakesFirst
     /\ StartsFirst(request, request', Fees!Idle, q1, q2)
  \/ Moves("mail") /\ MailStep
  \/ Moves("loss") /\ LossStep
  \/ RegistryMoves(Registry!Next)
  \* The last name is left to photos.
  \/ Moves("photos") /\ PhotosStep /\ files'[3] # "other"
  \/ /\ Moves("tramer") /\ TramerStep
     /\ InTurn(entry'[q1].status, entry'[q2].status, "absent")
     /\ InTurn(mailbox'[m1].status, mailbox'[x1].status, "absent")
  \/ /\ Moves("tracking") /\ TrackingStep
     /\ InTurn(d1 \in Tracking!Tracked', x1 \in Tracking!Tracked', FALSE)

\* Only the part that moves is owed progress.
MCSpec ==
  /\ MCInit /\ [][MCNext]_<<part, officeVars>>
  /\ Fairness
  /\ WF_<<part, officeVars>>(RegistryMoves(Registry!DiscoveryStep))
  /\ WF_<<part, officeVars>>(RegistryMoves(Registry!EndReview))
=============================================================================
