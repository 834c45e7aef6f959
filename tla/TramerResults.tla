----------------------------- MODULE TramerResults -----------------------------
(***************************************************************************)
(* Requests to the accident registry (Tramer) and the answers that come by *)
(* e-mail (services/api/src/tracking/store.ts and mail-worker.ts).  A      *)
(* person asks for a case, enters the application number when the registry *)
(* has given one, and the mail worker matches each message with the        *)
(* request that has its number, or leaves it for review.                   *)
(*                                                                         *)
(* The receipt of a message and its review are two steps each: what is     *)
(* locked first, and the rest.  The advisory lock of an application number *)
(* is held in between.                                                     *)
(***************************************************************************)
EXTENDS Naturals, FiniteSets

CONSTANTS
  Requests, Cases, Numbers, Messages,
  Contents,   \* what mails can say: [number, status], the status "unclear" at times
  Nothing     \* no number, no request, no result

VARIABLES
  request,    \* [Requests -> tramer_requests]
  message,    \* [Messages -> sbm_messages, or the mail in its box]
  archived,   \* the archived cases
  tx,         \* [Messages -> the transaction on it]
  missed      \* messages that a review held when their number was saved

vars == <<request, message, archived, tx, missed>>

Active == {"entry_pending", "result_pending"}
NoTx == [kind |-> "none", number |-> Nothing, found |-> Nothing]

Init ==
  /\ request = [r \in Requests |->
       [status |-> "absent", case |-> Nothing, number |-> Nothing, result |-> Nothing, older |-> {}]]
  /\ message = [m \in Messages |->
       [status |-> "absent", number |-> Nothing, says |-> Nothing, request |-> Nothing]]
  /\ archived = {}
  /\ tx = [m \in Messages |-> NoTx]
  /\ missed = {}

------------------------------------------------------------------------------
\* A mutant: nobody waits for the lock of a number.
Unlocked(n) == FALSE

Locked(n) == n # Nothing /\ \E m \in Messages : tx[m].number = n

Holder(n) ==
  IF \E r \in Requests : n # Nothing /\ request[r].number = n
  THEN CHOOSE r \in Requests : request[r].number = n
  ELSE Nothing

ActiveOf(c) == {r \in Requests : request[r].case = c /\ request[r].status \in Active}

\* assign makes the request of a case; afterwards it changes only who has it.
Assign(r, c) ==
  /\ request[r].status = "absent" /\ c \notin archived /\ ActiveOf(c) = {}
  /\ request' = [request EXCEPT ![r] = [@ EXCEPT
       !.status = "entry_pending", !.case = c,
       !.older = {m \in Messages : message[m].status # "absent"}]]
  /\ UNCHANGED <<message, archived, tx, missed>>

\* The receipts of a number that wait for a request, and nobody holds.
Receipts(n) ==
  {m \in Messages : message[m].status = "review" /\ message[m].number = n
                    /\ message[m].request = Nothing}

SaveNumber(r, n) ==
  /\ request[r].status = "entry_pending" /\ request[r].case \notin archived
  /\ ~Locked(n) /\ Holder(n) = Nothing
  /\ request' = [request EXCEPT ![r] = [@ EXCEPT !.status = "result_pending", !.number = n]]
  /\ LET held == {m \in Receipts(n) : tx[m].kind # "none"}
     IN /\ message' = [m \in Messages |->
             IF m \in Receipts(n) \ held THEN [message[m] EXCEPT !.request = r] ELSE message[m]]
        /\ missed' = missed \cup held
  /\ UNCHANGED <<archived, tx>>

CancelRequest(r) ==
  /\ request[r].status \in Active /\ request[r].case \notin archived
  /\ request' = [request EXCEPT ![r].status = "cancelled"]
  /\ UNCHANGED <<message, archived, tx, missed>>

\* The inventory of the folders hides a case or shows it again.
ArchiveOrShow(c) ==
  /\ archived' = (archived \ {c}) \cup ({c} \ archived)
  /\ UNCHANGED <<request, message, tx, missed>>

------------------------------------------------------------------------------
\* A mail arrives.
Arrive(m) ==
  /\ message[m].status = "absent"
  /\ \E s \in Contents :
       message' = [message EXCEPT ![m] = [@ EXCEPT !.status = "unread", !.number = s.number, !.says = s.status]]
  /\ UNCHANGED <<request, archived, tx, missed>>

\* ingestSbmResult inserts the receipt and looks for the request; a second
\* worker that has the same mail waits for the receipt and finds it.
StartIngest(m) ==
  /\ message[m].status = "unread" /\ tx[m].kind = "none" /\ ~Locked(message[m].number)
  /\ tx' = [tx EXCEPT ![m] =
       [kind |-> "ingest", number |-> message[m].number, found |-> Holder(message[m].number)]]
  /\ UNCHANGED <<request, message, archived, missed>>

\* A mutant: the request is not read again under its lock.
AnyFound(r) == r # Nothing

Waits(r) == r # Nothing /\ request[r].status = "result_pending"

Repeats(m, r) == r # Nothing /\ request[r].result = [status |-> message[m].says, from |-> "mail"]

\* The answer to request r is written by the mail or the person.
Apply(m, r, status, from) ==
  /\ request' = [request EXCEPT ![r] = [@ EXCEPT
       !.status = status, !.result = [status |-> status, from |-> from]]]
  /\ message' = [message EXCEPT ![m] = [@ EXCEPT
       !.status = "applied", !.number = request[r].number, !.request = r]]

FinishIngest(m) ==
  LET r == tx[m].found
      clear == message[m].says # "unclear" /\ r # Nothing /\ request[r].case \notin archived
  IN /\ tx[m].kind = "ingest"
     /\ tx' = [tx EXCEPT ![m] = NoTx]
     /\ \/ /\ clear /\ Repeats(m, r)
           /\ message' = [message EXCEPT ![m] = [@ EXCEPT !.status = "duplicate", !.request = r]]
           /\ UNCHANGED request
        \/ clear /\ ~Repeats(m, r) /\ Waits(r) /\ m \notin request[r].older
           /\ Apply(m, r, message[m].says, "mail")
        \* Also when automatic results are switched off.
        \/ message' = [message EXCEPT ![m] = [@ EXCEPT !.status = "review", !.request = r]]
           /\ UNCHANGED request
     /\ UNCHANGED <<archived, missed>>

------------------------------------------------------------------------------
\* reviewSbm: a person applies a message, perhaps under another number, or
\* dismisses it.
StartReview(m) ==
  /\ message[m].status = "review" /\ tx[m].kind = "none"
  /\ \/ tx' = [tx EXCEPT ![m].kind = "dismiss"]
     \/ \E n \in Numbers :
          /\ ~Locked(n)
          /\ tx' = [tx EXCEPT ![m] = [kind |-> "apply", number |-> n, found |-> Nothing]]
  /\ UNCHANGED <<request, message, archived, missed>>

FinishReview(m) ==
  LET r == Holder(tx[m].number)
  IN /\ \/ /\ tx[m].kind = "dismiss"
           /\ message' = [message EXCEPT ![m].status = "dismissed"] /\ UNCHANGED request
        \/ /\ tx[m].kind = "apply" /\ Waits(r) /\ request[r].case \notin archived
           /\ \E status \in {"completed", "cancelled"} : Apply(m, r, status, "person")
     /\ tx' = [tx EXCEPT ![m] = NoTx]
     /\ UNCHANGED <<archived, missed>>

\* The request is refused or its server dies: nothing has been written.
RollBack(m) ==
  /\ tx[m].kind # "none"
  /\ tx' = [tx EXCEPT ![m] = NoTx]
  /\ UNCHANGED <<request, message, archived, missed>>

Next ==
  \/ \E r \in Requests :
       \/ \E c \in Cases : Assign(r, c)
       \/ \E n \in Numbers : SaveNumber(r, n)
       \/ CancelRequest(r)
  \/ \E c \in Cases : ArchiveOrShow(c)
  \/ \E m \in Messages :
       Arrive(m) \/ StartIngest(m) \/ FinishIngest(m) \/ StartReview(m) \/ FinishReview(m) \/ RollBack(m)

Spec == Init /\ [][Next]_vars

------------------------------------------------------------------------------
\* The types of requests, messages and transactions.
TypeOK ==
  /\ request \in [Requests -> [
       status : {"absent", "completed", "cancelled"} \cup Active, case : Cases \cup {Nothing},
       number : Numbers \cup {Nothing}, older : SUBSET Messages,
       result : [status : {"completed", "cancelled"}, from : {"mail", "person"}] \cup {Nothing}]]
  /\ message \in [Messages -> [
       status : {"absent", "unread", "review", "applied", "duplicate", "dismissed"},
       number : Numbers \cup {Nothing}, says : {"completed", "cancelled", "unclear", Nothing},
       request : Requests \cup {Nothing}]]
  /\ archived \subseteq Cases /\ missed \subseteq Messages
  /\ tx \in [Messages -> [
       kind : {"none", "ingest", "dismiss", "apply"},
       number : Numbers \cup {Nothing}, found : Requests \cup {Nothing}]]

\* The saving of a number and the receipt of its first answer never miss each
\* other: a message in review is shown with the request that has its number,
\* unless a review that came to nothing held it when the number was saved; and
\* a request has at most one answer, of which its status tells
\* (lockApplicationNumber, tramerCommand, ingestSbmResult).
AnswersFindRequests ==
  /\ \A m \in Messages, r \in Requests :
       message[m].status = "review" /\ request[r].number = message[m].number
         /\ request[r].number # Nothing /\ m \notin missed
       => message[m].request = r
  /\ \A r \in Requests :
       LET answers == {m \in Messages : message[m].status = "applied" /\ message[m].request = r}
       IN /\ Cardinality(answers) <= 1
          /\ request[r].result # Nothing <=> answers # {}
          /\ request[r].result # Nothing => request[r].status = request[r].result.status
          /\ request[r].status = "completed" => answers # {}
=============================================================================
