----------------------------- MODULE ClosureFees ------------------------------
(***************************************************************************)
(* The closure fee of a case: candidate, approval and corrections          *)
(* (services/api/src/fees/store.ts), as retried commands with an           *)
(* Idempotency-Key (services/api/src/db/idempotency.ts).                   *)
(*                                                                         *)
(* A request looks for the stored answer of its key before it queues for   *)
(* the row lock, and what it does under the lock until it commits is one   *)
(* step.  It may be sent again at any time, also while a first copy is     *)
(* still waiting.                                                          *)
(***************************************************************************)
EXTENDS Naturals, Sequences, FiniteSets

CONSTANTS
  Cases,
  Reports,       \* document versions, of expert reports, of every case
  Keys,          \* Idempotency-Keys
  Requests,      \* requests under way
  MaxVersions,   \* bound on the versions of a fee
  MaxMoves       \* bound on the closings and reopenings of a case

VARIABLES
  case,      \* [Cases -> [closed, version]]
  verified,  \* the reports that are ready, with hash and size verified
  fee,       \* [Cases -> Seq of rows of fee_record_versions]
  stored,    \* idempotency_keys: [Keys -> [command, answer] or NoAnswer]
  at,        \* [Requests -> where the request is]
  reply      \* the reply of this step, if it replies

vars == <<case, verified, fee, stored, at, reply>>

Made(n) == <<"version", n>>
Refused == <<"refused">>
OtherBody == <<"idempotency_conflict">>
NoAnswer == [answer |-> <<>>]
NoReply == NoAnswer
Idle == [step |-> "idle"]

Init ==
  /\ case = [c \in Cases |-> [closed |-> TRUE, version |-> 1]]
  /\ verified \in SUBSET Reports
  /\ fee = [c \in Cases |-> <<>>]
  /\ stored = [k \in Keys |-> NoAnswer]
  /\ at = [q \in Requests |-> Idle]
  /\ reply = NoReply

-----------------------------------------------------------------------------
(* The commands                                                            *)

\* The version expected is the case's for a candidate, the fee's otherwise; an
\* approval takes the report of its candidate.
Commands ==
  [op : {"create"}, of : Cases, expected : 1 .. MaxMoves + 1, report : Reports]
  \cup [op : {"approve"}, of : Cases, expected : 1 .. MaxVersions, report : {"same"}]
  \cup [op : {"correct"}, of : Cases, expected : 1 .. MaxVersions, report : Reports]

\* version of fee_records: 1 with the candidate, then one more for each version
FeeVersion(c) == Len(fee[c])

\* Somebody can have seen the version that is expected.
Seen(m) == m.expected <= (IF m.op = "create" THEN case[m.of].version ELSE FeeVersion(m.of))

Latest(c) == fee[c][Len(fee[c])]

\* evaluateClosureFeeSource, for the report of an expert.
Eligible(c, report) == case[c].closed /\ report \in verified

ReportOf(m) == IF m.op = "approve" THEN Latest(m.of).report ELSE m.report

\* The versions and statuses each command asks for.
Asks(m) ==
  CASE m.op = "create" -> case[m.of].version = m.expected /\ fee[m.of] = <<>>
    [] m.op = "approve" -> /\ fee[m.of] # <<>> /\ FeeVersion(m.of) = m.expected
                           /\ Latest(m.of).status = "control_required"
    [] m.op = "correct" -> /\ fee[m.of] # <<>> /\ FeeVersion(m.of) = m.expected
                           /\ Latest(m.of).status \in {"approved", "corrected"}

StatusAfter(op) ==
  CASE op = "create" -> "control_required"
    [] op = "approve" -> "approved"
    [] op = "correct" -> "corrected"

\* The version a command makes, of the key that it came with.
Version(m, k) == [status |-> StatusAfter(m.op), report |-> ReportOf(m), key |-> k]

-----------------------------------------------------------------------------
(* A request                                                               *)

\* findIdempotent: what a key has been answered, to the same body or another.
Answered(k, m) ==
  IF stored[k].command = m THEN stored[k].answer ELSE OtherBody

Reply(q, k, m, answer) ==
  /\ reply' = [key |-> k, command |-> m, answer |-> answer]
  /\ at' = [at EXCEPT ![q] = Idle]

\* guard on the pool; the request goes on to wait for the lock.
Receive(q, k, m) ==
  /\ at[q] = Idle
  /\ Seen(m)
  /\ IF stored[k] # NoAnswer
     THEN Reply(q, k, m, Answered(k, m))
     ELSE /\ at' = [at EXCEPT ![q] = [step |-> "waiting", key |-> k, command |-> m]]
          /\ reply' = NoReply
  /\ UNCHANGED <<case, verified, fee, stored>>

\* Mutant of GuardedAgain: the key is looked for before the lock only.
GuardedBefore(k) == FALSE

\* guard on the client, once the row of the case or of the fee is locked; the
\* unique index on the keys and recoverRace come to the same when another case
\* is locked.
GuardedAgain(k) == stored[k] # NoAnswer

\* Mutant of Kept: the answer is not stored.
Forgotten(k, m, answer) == stored

\* insertIdempotent, in the transaction of the command.
Kept(k, m, answer) == [stored EXCEPT ![k] = [command |-> m, answer |-> answer]]

\* createCandidate, approve and correct, from the lock to the commit.
Execute(q) ==
  /\ at[q].step = "waiting"
  /\ LET m == at[q].command
         k == at[q].key
     IN  IF GuardedAgain(k)
         THEN Reply(q, k, m, Answered(k, m)) /\ UNCHANGED <<fee, stored>>
         ELSE IF Asks(m) /\ Eligible(m.of, ReportOf(m))
         THEN /\ Len(fee[m.of]) < MaxVersions
              /\ fee' = [fee EXCEPT ![m.of] = Append(@, Version(m, k))]
              /\ stored' = Kept(k, m, Made(FeeVersion(m.of) + 1))
              /\ Reply(q, k, m, Made(FeeVersion(m.of) + 1))
         ELSE Reply(q, k, m, Refused) /\ UNCHANGED <<fee, stored>>
  /\ UNCHANGED <<case, verified>>

\* The connection is lost, or the process dies, before the commit.
Dies(q) ==
  /\ at[q].step = "waiting"
  /\ at' = [at EXCEPT ![q] = Idle]
  /\ reply' = NoReply
  /\ UNCHANGED <<case, verified, fee, stored>>

-----------------------------------------------------------------------------
(* What happens meanwhile                                                  *)

\* The lifecycle operations of FileOperationSaga close and reopen the case.
CaseMoves(c) ==
  /\ case[c].version <= MaxMoves
  /\ case' = [case EXCEPT ![c] = [closed |-> ~@.closed, version |-> @.version + 1]]
  /\ reply' = NoReply
  /\ UNCHANGED <<verified, fee, stored, at>>

\* A verification by the File Agent finds the report as it was recorded, or not.
ReportVerified(r) ==
  /\ verified' = IF r \in verified THEN verified \ {r} ELSE verified \cup {r}
  /\ reply' = NoReply
  /\ UNCHANGED <<case, fee, stored, at>>

Next ==
  \/ \E q \in Requests : \/ \E k \in Keys, m \in Commands : Receive(q, k, m)
                         \/ Execute(q) \/ Dies(q)
  \/ \E c \in Cases : CaseMoves(c)
  \/ \E r \in Reports : ReportVerified(r)

Spec == Init /\ [][Next]_vars

-----------------------------------------------------------------------------
(* Correctness                                                             *)

\* The types of the rows, and the order in which the statuses follow.
TypeOK ==
  /\ \A c \in Cases : \A n \in DOMAIN fee[c] :
       fee[c][n].status = StatusAfter(IF n = 1 THEN "create"
                                      ELSE IF n = 2 THEN "approve" ELSE "correct")
  /\ verified \subseteq Reports

\* A command that is sent again, to a copy of the server's or after a lost
\* answer, is carried out once, every version being the effect of the key whose
\* answer names it, and is always answered as it was the first time, also by a
\* copy that waited for the lock while the first one committed
\* (idempotency.ts findIdempotent, insertIdempotent; guard of fees/store.ts).
AnsweredAsBefore ==
  /\ [](\A c \in Cases : \A n \in DOMAIN fee[c] :
          LET k == fee[c][n].key IN
          stored[k].answer = Made(n) /\ stored[k].command.of = c)
  /\ [][(reply' # NoReply /\ stored[reply'.key] # NoAnswer) =>
          reply'.answer = Answered(reply'.key, reply'.command)]_vars
=============================================================================
