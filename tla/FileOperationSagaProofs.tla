------------------------ MODULE FileOperationSagaProofs ------------------------
(***************************************************************************)
(* One case, its operations and their jobs, for any number of operations,  *)
(* attempts, edits and interventions: the types, one operation at a time,  *)
(* jobs that serve their operations, lifecycle operations that tell of     *)
(* their file operations what is true, when the status of a case changes, *)
(* where the folder stands while nobody has moved it by hand, and how long *)
(* an assignment of its location stands.                                   *)
(*                                                                         *)
(* Most steps write one file operation and the lifecycle operation linked  *)
(* to it.  OneOpMoves says what such a step has to respect; the lemmas of  *)
(* the actions show that they do.                                          *)
(***************************************************************************)
EXTENDS FileOperationSaga, TLAPS

\* A lifecycle operation that was not approved has no file operation; one that
\* was shares it with no other, and moves the same folder.
Unlinked == {"absent", "blocked", "approval_required", "cancelled"}

LinksFit ==
  /\ \A l \in Plans : plan[l].status \in Unlinked => plan[l].op = 0
  /\ \A l \in Plans :
       plan[l].op # 0 => /\ op[plan[l].op].src = plan[l].src
                         /\ op[plan[l].op].dst = plan[l].dst
  /\ \A l, k \in Plans : plan[l].op # 0 /\ plan[l].op = plan[k].op => l = k

\* Next to a lifecycle operation whose retry may be approved none is active.
FailedPairAlone ==
  \A l, k \in Plans :
    /\ plan[l].status = "failed" /\ plan[l].op # 0 /\ op[plan[l].op].status = "failed"
    => ~Active(k)

\* What has been planned is planned between paths.
HavePaths ==
  /\ \A o \in Ops : op[o].status # "absent" => op[o].src \in Paths /\ op[o].dst \in Paths
  /\ \A l \in Plans : plan[l].status # "absent" => plan[l].src \in Paths /\ plan[l].dst \in Paths

IInv ==
  /\ TypeOK
  /\ OneAtATime
  /\ PlanFollowsOperation
  /\ JobServesOperation
  /\ LinksFit
  /\ FailedPairAlone
  /\ HavePaths

\* What IInv says of the two tables.
Tables ==
  /\ op \in [Ops -> OpRow]
  /\ plan \in [Plans -> PlanRow]
  /\ OneAtATime /\ PlanFollowsOperation /\ JobServesOperation
  /\ LinksFit /\ FailedPairAlone /\ HavePaths

\* Nothing has been planned yet.
LEMMA InitIInv == Init => IInv
<1> SUFFICES ASSUME Init PROVE IInv
  OBVIOUS
<1> USE SagaAssumption DEF Init
<1>1. op \in [Ops -> OpRow]
  BY DEF NoOp, NoJob, OpRow, JobRow, OpStatuses, Strategies, Findings
<1>2. plan \in [Plans -> PlanRow]
  BY DEF NoPlan, PlanRow, PlanStatuses, PlanInactive
<1>3. TypeOK
  <2>1. case \in [status : {"open", "closed"}, version : Nat \ {0},
                  home : Paths \cup {NoPath}]
    BY DEF Paths, Places
  <2>2. loc \in [path : Paths, status : {"pending", "verified", "missing"},
                 version : Nat \ {0}, imported : BOOLEAN, given : Given]
    BY DEF Given
  <2> QED
    BY <1>1, <1>2, <2>1, <2>2 DEF TypeOK
<1>4. OneAtATime
  BY DEF OneAtATime, Reserving, Active, NoOp, NoPlan, PlanInactive
<1>5. PlanFollowsOperation /\ LinksFit /\ FailedPairAlone /\ HavePaths
  BY DEF PlanFollowsOperation, LinksFit, FailedPairAlone, HavePaths, NoPlan, NoOp
<1>6. JobServesOperation
  BY DEF JobServesOperation, Live, NoOp, NoJob
<1> QED
  BY <1>3, <1>4, <1>5, <1>6 DEF IInv

-----------------------------------------------------------------------------
(* Steps that write one file operation                                     *)

\* The row r is a possible next row of the operation o.
Follows(o, r) ==
  /\ r \in OpRow
  /\ op' = [op EXCEPT ![o] = r]
  /\ op[o].status # "absent" /\ r.src = op[o].src /\ r.dst = op[o].dst
  /\ r.status \notin OpTerminal \cup {"absent"} => Reserving(o)
  /\ r.status \in {"queued", "applying", "cleanup_pending"}
       <=> r.job.status \in {"pending", "leased"}
  /\ r.job.status \in {"pending", "leased"} =>
       /\ r.job.version = r.version
       /\ r.job.cleanup <=> r.status = "cleanup_pending"

\* The lifecycle operation linked to o agrees with its next row r; only its
\* status changes, and none becomes active.
Agrees(o, r) ==
  /\ plan' \in [Plans -> PlanRow]
  /\ \A l \in Plans :
       /\ plan[l].op # o => plan'[l] = plan[l]
       /\ plan'[l].op = plan[l].op
       /\ plan'[l].src = plan[l].src /\ plan'[l].dst = plan[l].dst
       /\ plan[l].op = o =>
            /\ plan'[l].status \notin Unlinked
            /\ r.status \in AgreesWith[plan'[l].status]
            /\ plan'[l].status \notin PlanInactive => Active(l)
            /\ plan'[l].status = "failed" /\ r.status = "failed" => Active(l)

LEMMA OneOpMoves ==
  ASSUME Tables, NEW o \in Ops, NEW r, Follows(o, r), Agrees(o, r)
  PROVE  Tables'
<1> USE DEF Tables
<1>1. /\ op' \in [Ops -> OpRow] /\ plan' \in [Plans -> PlanRow]
      /\ op'[o] = r
      /\ \A i \in Ops : i # o => op'[i] = op[i]
  BY DEF Follows, Agrees
<1>2. OneAtATime'
  <2>1. \A i \in Ops : Reserving(i)' => Reserving(i)
    BY <1>1 DEF Reserving, Follows
  <2>2. \A l \in Plans : Active(l)' => Active(l)
    BY DEF Active, Agrees
  <2> QED
    BY <2>1, <2>2 DEF OneAtATime
<1>3. PlanFollowsOperation'
  <2> SUFFICES ASSUME NEW l \in Plans, plan'[l].op # 0
               PROVE  op'[plan'[l].op].status \in AgreesWith[plan'[l].status]
    BY DEF PlanFollowsOperation, AgreesWith
  <2>1. plan[l].op # 0 /\ plan'[l].op = plan[l].op /\ plan[l].op \in Ops
    BY DEF Agrees, PlanRow
  <2>2. CASE plan[l].op = o
    BY <1>1, <2>1, <2>2 DEF Agrees
  <2>3. CASE plan[l].op # o
    BY <1>1, <2>1, <2>3 DEF Agrees, PlanFollowsOperation
  <2> QED
    BY <2>2, <2>3
<1>4. JobServesOperation'
  <2> SUFFICES ASSUME NEW i \in Ops
               PROVE  /\ op'[i].status \in {"queued", "applying", "cleanup_pending"} <=> Live(i)'
                      /\ Live(i)' => /\ op'[i].job.version = op'[i].version
                                     /\ op'[i].job.cleanup <=> op'[i].status = "cleanup_pending"
    BY DEF JobServesOperation
  <2>1. CASE i = o
    BY <1>1, <2>1 DEF Follows, Live
  <2>2. CASE i # o
    BY <1>1, <2>2 DEF JobServesOperation, Live
  <2> QED
    BY <2>1, <2>2
<1>5. LinksFit'
  <2>1. \A l \in Plans : plan'[l].status \in Unlinked => plan'[l].op = 0
    BY DEF Agrees, LinksFit
  <2>2. ASSUME NEW l \in Plans, plan'[l].op # 0
        PROVE  op'[plan'[l].op].src = plan'[l].src /\ op'[plan'[l].op].dst = plan'[l].dst
    <3>1. plan[l].op \in Ops /\ plan'[l].op = plan[l].op
      BY <2>2 DEF Agrees, PlanRow
    <3>2. op'[plan[l].op].src = op[plan[l].op].src /\ op'[plan[l].op].dst = op[plan[l].op].dst
      BY <1>1, <3>1 DEF Follows
    <3> QED
      BY <2>2, <3>1, <3>2 DEF Agrees, LinksFit
  <2>3. \A l, k \in Plans : plan'[l].op # 0 /\ plan'[l].op = plan'[k].op => l = k
    BY DEF Agrees, LinksFit
  <2> QED
    BY <2>1, <2>2, <2>3 DEF LinksFit
<1>6. FailedPairAlone'
  <2> SUFFICES ASSUME NEW l \in Plans, NEW k \in Plans, plan'[l].status = "failed",
                      plan'[l].op # 0, op'[plan'[l].op].status = "failed", Active(k)'
               PROVE  FALSE
    BY DEF FailedPairAlone
  <2>1. plan'[l].op = plan[l].op /\ plan[l].op \in Ops /\ Active(k)
    BY DEF Agrees, PlanRow, Active
  <2>2. ~Active(l)'
    BY DEF Active, PlanInactive
  <2>3. CASE plan[l].op = o
    <3>1. Active(l)
      BY <1>1, <2>1, <2>3 DEF Agrees
    <3>2. k = l
      BY <2>1, <3>1 DEF OneAtATime
    <3> QED
      BY <2>2, <3>2
  <2>4. CASE plan[l].op # o
    <3>1. plan[l].status = "failed" /\ op[plan[l].op].status = "failed"
      BY <1>1, <2>1, <2>4 DEF Agrees
    <3> QED
      BY <2>1, <3>1 DEF FailedPairAlone
  <2> QED
    BY <2>3, <2>4
<1>7. HavePaths'
  <2>1. \A i \in Ops : op'[i].status # "absent" => op'[i].src \in Paths /\ op'[i].dst \in Paths
    BY <1>1 DEF Follows, HavePaths
  <2>2. \A l \in Plans : plan'[l].status # "absent" =>
                          plan[l].status # "absent" \/ plan[l].op = o
    BY DEF Agrees
  <2>3. \A l \in Plans : plan[l].op = o => plan[l].status # "absent"
    BY DEF LinksFit, Unlinked, Ops
  <2> QED
    BY <2>1, <2>2, <2>3 DEF Agrees, HavePaths
<1> QED
  BY <1>1, <1>2, <1>3, <1>4, <1>5, <1>6, <1>7

\* What the rest of TypeOK says.
OtherRows ==
  /\ case \in [status : {"open", "closed"}, version : Nat \ {0},
               home : Paths \cup {NoPath}]
  /\ complete \in BOOLEAN
  /\ loc \in [path : Paths, status : {"pending", "verified", "missing"},
              version : Nat \ {0}, imported : BOOLEAN, given : Given]
  /\ disk \in SUBSET Paths
  /\ evidence \in SUBSET Ops
  /\ applied \in SUBSET Ops
  /\ hands \in 0 .. MaxHands

LEMMA TwoHalves == IInv <=> Tables /\ OtherRows
  BY DEF IInv, Tables, OtherRows, TypeOK

LEMMA RestStays ==
  ASSUME IInv, UNCHANGED <<case, complete, loc, disk, evidence, applied, hands>>
  PROVE  OtherRows'
  BY TwoHalves DEF OtherRows

\* How a lifecycle row may follow: no row moves, or those linked to o whose
\* status is in `from' take the status `to'.
LEMMA NobodyTold ==
  ASSUME Tables, NEW o \in Ops, NEW r, plan' = plan,
         \A l \in Plans : plan[l].op = o =>
           r.status \in AgreesWith[plan[l].status]
           /\ (plan[l].status = "failed" => r.status # "failed")
  PROVE  Agrees(o, r)
<1> USE DEF Tables
<1>1. \A l \in Plans : plan[l].op = o => plan[l].status \notin Unlinked
  BY DEF LinksFit, Ops
<1> QED
  BY <1>1 DEF Agrees, Active

LEMMA RelinkedTold ==
  ASSUME Tables, NEW o \in Ops, NEW r, NEW from, NEW to \in PlanStatuses \ Unlinked,
         plan' = Relinked(o, from, to),
         \A l \in Plans : plan[l].op = o =>
           IF plan[l].status \in from
           THEN /\ r.status \in AgreesWith[to]
                /\ to = "failed" /\ r.status = "failed" => Active(l)
                /\ to \notin PlanInactive => Active(l)
           ELSE /\ r.status \in AgreesWith[plan[l].status]
                /\ plan[l].status = "failed" => r.status # "failed"
  PROVE  Agrees(o, r)
<1> USE DEF Tables
<1>1. \A l \in Plans : plan[l].op = o => plan[l].status \notin Unlinked
  BY DEF LinksFit, Ops
<1>2. \A l \in Plans : /\ plan'[l] \in PlanRow
                       /\ plan[l].op # o => plan'[l] = plan[l]
                       /\ plan'[l].op = plan[l].op
                       /\ plan'[l].src = plan[l].src /\ plan'[l].dst = plan[l].dst
                       /\ plan[l].op = o => plan'[l].status = IF plan[l].status \in from
                                                            THEN to ELSE plan[l].status
  BY DEF Relinked, PlanRow
<1>3. plan' \in [Plans -> PlanRow]
  BY <1>2 DEF Relinked
<1>4. ASSUME NEW l \in Plans, plan[l].op = o
      PROVE  /\ plan'[l].status \notin Unlinked
             /\ r.status \in AgreesWith[plan'[l].status]
             /\ plan'[l].status \notin PlanInactive => Active(l)
             /\ plan'[l].status = "failed" /\ r.status = "failed" => Active(l)
  <2>1. CASE plan[l].status \in from
    BY <1>2, <1>4, <2>1
  <2>2. CASE plan[l].status \notin from
    BY <1>1, <1>2, <1>4, <2>2 DEF Active
  <2> QED
    BY <2>1, <2>2
<1> QED
  BY <1>2, <1>3, <1>4 DEF Agrees

\* Who is linked to an operation with a job that lives: one that moves with it
\* or one that waits for a person.
LEMMA LinkedToLive ==
  ASSUME Tables, NEW o \in Ops, Live(o), NEW l \in Plans, plan[l].op = o
  PROVE  /\ op[o].job.cleanup => plan[l].status \in {"cleanup_pending", "manual_recovery_required"}
         /\ ~op[o].job.cleanup => plan[l].status \in {"queued", "moving"}
         /\ op[o].job.cleanup <=> op[o].status = "cleanup_pending"
         /\ op[o].status \in {"queued", "applying", "cleanup_pending"}
         /\ op[o].job.version = op[o].version
<1>1. /\ op[o].status \in {"queued", "applying", "cleanup_pending"}
      /\ op[o].job.version = op[o].version
      /\ op[o].job.cleanup <=> op[o].status = "cleanup_pending"
  BY DEF Tables, JobServesOperation
<1>2. op[o].status \in AgreesWith[plan[l].status] /\ plan[l].status \notin Unlinked
      /\ plan[l].status \in PlanStatuses
  BY DEF Tables, PlanFollowsOperation, LinksFit, Ops, PlanRow
<1>3. plan[l].status \in {"queued", "moving", "cleanup_pending", "closed", "reopened",
                          "failed", "stale", "manual_recovery_required"}
  BY <1>2 DEF PlanStatuses, PlanInactive, Unlinked
<1> QED
  BY <1>1, <1>2, <1>3 DEF AgreesWith

-----------------------------------------------------------------------------
(* The queue and the reports                                               *)

\* A step that writes the operation o, told to the linked lifecycle operation
\* by `from' and `to', keeps everything.
LEMMA ToldKeeps ==
  ASSUME IInv, NEW o \in Ops, NEW r, Follows(o, r), Agrees(o, r),
         UNCHANGED <<case, complete, loc, disk, evidence, applied, hands>>
  PROVE  IInv'
<1>1. Tables'
  BY TwoHalves, OneOpMoves
<1> QED
  BY <1>1, RestStays, TwoHalves DEF Tables, OtherRows, IInv, TypeOK

LEMMA RowsAreTyped ==
  ASSUME IInv, NEW o \in Ops
  PROVE  /\ op[o] \in OpRow /\ op[o].job \in JobRow
         /\ op[o].version \in Nat /\ op[o].version + 1 \in Nat
         /\ op[o].job.attempt \in 0 .. MaxAttempts /\ op[o].job.version \in Nat
         /\ op[o].job.cleanup \in BOOLEAN
  BY DEF IInv, TypeOK, OpRow, JobRow

LEMMA FreshJobTyped ==
  ASSUME NEW cleanup \in BOOLEAN, NEW v \in Nat
  PROVE  /\ FreshJob(cleanup, v) \in JobRow
         /\ FreshJob(cleanup, v).status = "pending"
         /\ FreshJob(cleanup, v).cleanup = cleanup
         /\ FreshJob(cleanup, v).version = v
<1>1. 0 \in 0 .. MaxAttempts
  BY SagaAssumption
<1> QED
  BY <1>1 DEF FreshJob, JobRow, Findings

\* Settled writes the statuses of the operation and of its job.
SettledRow(o, to, ended) == [op[o] EXCEPT !.status = to, !.job.status = ended]

LEMMA SettledFollows ==
  ASSUME IInv, NEW o \in Ops, Live(o),
         NEW to \in OpStatuses \ {"absent"}, NEW ended \in JobEnded \cup {"pending"},
         op' = Settled(o, to, ended),
         \/ ended = "pending" /\ to = Stage(o)
         \/ ended \in JobEnded /\ to \notin {"queued", "applying", "cleanup_pending"}
  PROVE  Follows(o, SettledRow(o, to, ended)) /\ SettledRow(o, to, ended).status = to
<1> DEFINE r == SettledRow(o, to, ended)
<1>1. op[o] \in OpRow /\ op[o].job \in JobRow
  BY RowsAreTyped
<1>2. /\ r \in OpRow /\ r.status = to /\ r.job.status = ended
      /\ r.src = op[o].src /\ r.dst = op[o].dst /\ r.version = op[o].version
      /\ r.job.version = op[o].job.version /\ r.job.cleanup = op[o].job.cleanup
  BY <1>1 DEF OpRow, JobRow, SettledRow
<1>3. op' = [op EXCEPT ![o] = r]
  <2>1. op \in [Ops -> OpRow]
    BY DEF IInv, TypeOK
  <2> QED
    BY <2>1 DEF Settled, SettledRow
<1>4. Reserving(o) /\ op[o].status # "absent" /\ op[o].job.version = op[o].version
  BY DEF IInv, JobServesOperation, Reserving, OpTerminal
<1>5. /\ ended \in {"pending", "leased"} <=> to \in {"queued", "applying", "cleanup_pending"}
      /\ ended \in {"pending", "leased"} => (op[o].job.cleanup <=> to = "cleanup_pending")
  BY <1>1 DEF JobEnded, Stage, JobRow
<1> HIDE DEF r
<1>6. Follows(o, r)
  BY <1>2, <1>3, <1>4, <1>5 DEF Follows
<1> QED
  BY <1>2, <1>6 DEF r

\* The lifecycle operation of a job that lives is told `to'.
LEMMA FailureAgrees ==
  ASSUME IInv, NEW o \in Ops, Live(o), NEW r,
         NEW to \in {"failed", "manual_recovery_required"},
         plan' = LifecycleFailure(o, to), r.status \in AgreesWith[to]
  PROVE  Agrees(o, r)
<1> DEFINE from == PlanStatuses \ {"closed", "reopened", "stale", "cancelled"}
<1>1. ASSUME NEW l \in Plans, plan[l].op = o
      PROVE  plan[l].status \in from /\ Active(l)
  <2>1. plan[l].status \in {"queued", "moving", "cleanup_pending", "manual_recovery_required"}
    BY <1>1, LinkedToLive, TwoHalves DEF Live, IInv, TypeOK, OpRow, JobRow
  <2> QED
    BY <2>1 DEF PlanStatuses, PlanInactive, Active
<1>2. to \in PlanStatuses \ Unlinked
  BY DEF PlanStatuses, PlanInactive, Unlinked
<1>3. plan' = Relinked(o, from, to)
  BY DEF LifecycleFailure
<1>4. Tables
  BY TwoHalves
<1> HIDE DEF from
<1> QED
  BY <1>1, <1>2, <1>3, <1>4, RelinkedTold

LEMMA ClaimKeeps ==
  ASSUME IInv, NEW o \in Ops, Claim(o)
  PROVE  IInv'
<1> DEFINE to == Stage(o)
           j == LeasedJob(o)
           r == [op[o] EXCEPT !.job = j, !.status = to]
           from == {"queued", "moving", "cleanup_pending"}
<1>1. op[o] \in OpRow /\ op[o].job \in JobRow /\ op[o].job.attempt \in 0 .. MaxAttempts
  BY RowsAreTyped
<1>2. /\ r \in OpRow /\ r.status = to /\ r.job.status = "leased"
      /\ r.src = op[o].src /\ r.dst = op[o].dst /\ r.version = op[o].version
      /\ r.job.version = op[o].job.version /\ r.job.cleanup = op[o].job.cleanup
  <2>1. op[o].job.attempt + 1 \in 0 .. MaxAttempts
    BY <1>1, SagaAssumption DEF Claim, Exhausted
  <2>2. /\ j \in JobRow /\ j.status = "leased"
        /\ j.version = op[o].job.version /\ j.cleanup = op[o].job.cleanup
    BY <1>1, <2>1 DEF JobRow, Findings, LeasedJob
  <2>3. to \in OpStatuses
    BY DEF OpStatuses, Stage
  <2> HIDE DEF j
  <2> QED
    BY <1>1, <2>2, <2>3 DEF OpRow
<1>3. op' = [op EXCEPT ![o] = r] /\ plan' = Relinked(o, from, to) /\ Live(o)
      /\ UNCHANGED <<case, complete, loc, disk, evidence, applied, hands>>
  <2>1. op \in [Ops -> OpRow]
    BY DEF IInv, TypeOK
  <2>2. op' = [op EXCEPT ![o] = r]
    BY <2>1 DEF Claim
  <2> QED
    BY <2>2 DEF Claim
<1>4. Tables
  BY TwoHalves
<1>5. Follows(o, r)
  <2>1. Reserving(o) /\ op[o].status # "absent" /\ op[o].job.version = op[o].version
    BY <1>3 DEF IInv, JobServesOperation, Reserving, OpTerminal
  <2> HIDE DEF r
  <2> QED
    BY <1>1, <1>2, <1>3, <2>1 DEF Follows, JobRow, Stage
<1>6. Agrees(o, r)
  <2>1. ASSUME NEW l \in Plans, plan[l].op = o
        PROVE  IF plan[l].status \in from
               THEN to \in AgreesWith[to] /\ Active(l) /\ to # "failed"
               ELSE to \in AgreesWith[plan[l].status] /\ plan[l].status # "failed"
    BY <1>1, <1>3, <1>4, <2>1, LinkedToLive
       DEF AgreesWith, Active, PlanInactive, JobRow, Stage
  <2>2. to \in PlanStatuses \ Unlinked
    BY DEF PlanStatuses, Unlinked, Stage
  <2> HIDE DEF r, from
  <2> QED
    BY <1>2, <1>3, <1>4, <2>1, <2>2, RelinkedTold
<1> HIDE DEF r
<1> QED
  BY <1>3, <1>5, <1>6, ToldKeeps

LEMMA ClaimExhaustedKeeps ==
  ASSUME IInv, NEW o \in Ops, ClaimExhausted(o)
  PROVE  IInv'
<1> DEFINE to == ExhaustedStatus(o)
           r == SettledRow(o, to, "dead_letter")
<1>1. to \in {"failed", "manual_recovery_required"}
  BY DEF ExhaustedStatus
<1>2. Follows(o, r) /\ r.status = to
  BY <1>1, SettledFollows DEF ClaimExhausted, OpStatuses, JobEnded
<1>3. Agrees(o, r)
  <2>1. to \in AgreesWith[to]
    BY <1>1 DEF AgreesWith
  <2> HIDE DEF r
  <2> QED
    BY <1>1, <1>2, <2>1, FailureAgrees DEF ClaimExhausted
<1> HIDE DEF r
<1> QED
  BY <1>2, <1>3, ToldKeeps DEF ClaimExhausted

LEMMA HeartbeatKeeps ==
  ASSUME IInv, NEW o \in Ops, Heartbeat(o)
  PROVE  IInv'
<1> DEFINE r == [op[o] EXCEPT !.status = "applying"]
<1>1. op[o] \in OpRow /\ op[o].job \in JobRow /\ Live(o) /\ ~op[o].job.cleanup
  BY RowsAreTyped DEF Heartbeat, Leased, Live
<1>2. /\ r \in OpRow /\ r.status = "applying" /\ r.job = op[o].job
      /\ r.src = op[o].src /\ r.dst = op[o].dst /\ r.version = op[o].version
  BY <1>1 DEF OpRow, OpStatuses
<1>3. op' = [op EXCEPT ![o] = r]
  <2>1. op \in [Ops -> OpRow]
    BY DEF IInv, TypeOK
  <2> QED
    BY <2>1 DEF Heartbeat
<1>4. Follows(o, r)
  <2>1. Reserving(o) /\ op[o].status # "absent" /\ op[o].job.version = op[o].version
    BY <1>1 DEF IInv, JobServesOperation, Reserving, OpTerminal
  <2> HIDE DEF r
  <2> QED
    BY <1>1, <1>2, <1>3, <2>1 DEF Follows, Live
<1>5. Agrees(o, r)
  <2>1. ASSUME NEW l \in Plans, plan[l].op = o
        PROVE  plan[l].status \in {"queued", "moving"} /\ Active(l)
    BY <1>1, <2>1, LinkedToLive, TwoHalves DEF Active, PlanInactive
  <2>2. "applying" \in AgreesWith["moving"] /\ "moving" \in PlanStatuses \ Unlinked
    BY DEF AgreesWith, PlanStatuses, Unlinked
  <2> HIDE DEF r
  <2> QED
    BY <1>2, <2>1, <2>2, RelinkedTold, TwoHalves DEF Heartbeat
<1> HIDE DEF r
<1> QED
  BY <1>4, <1>5, ToldKeeps DEF Heartbeat

\* A report that ends the job without moving the case.
LEMMA FailureKeeps ==
  ASSUME IInv, NEW o \in Ops, Live(o), NEW to \in {"failed", "stale", "manual_recovery_required"},
         NEW told \in {"failed", "manual_recovery_required"},
         NEW ended \in {"failed", "dead_letter"},
         to \in AgreesWith[told],
         op' = Settled(o, to, ended), plan' = LifecycleFailure(o, told),
         UNCHANGED <<case, complete, loc, disk, evidence, applied, hands>>
  PROVE  IInv'
<1> DEFINE r == SettledRow(o, to, ended)
<1>1. to \in OpStatuses \ {"absent"} /\ ended \in JobEnded
  BY DEF OpStatuses, OpTerminal, JobEnded
<1>2. Follows(o, r) /\ r.status = to
  <2>1. to \notin {"queued", "applying", "cleanup_pending"}
    OBVIOUS
  <2> QED
    BY <1>1, <2>1, SettledFollows
<1> HIDE DEF r
<1>3. Agrees(o, r)
  BY <1>2, FailureAgrees
<1> QED
  BY <1>2, <1>3, ToldKeeps

LEMMA ReportUnwantedKeeps ==
  ASSUME IInv, NEW o \in Ops, ReportUnwanted(o)
  PROVE  IInv'
  BY FailureKeeps DEF ReportUnwanted, Leased, Live, AgreesWith

LEMMA ReportMissingKeeps ==
  ASSUME IInv, NEW o \in Ops, ReportMissing(o)
  PROVE  IInv'
  BY FailureKeeps DEF ReportMissing, Leased, Live, AgreesWith

LEMMA ReportLastFailureKeeps ==
  ASSUME IInv, NEW o \in Ops, ReportLastFailure(o)
  PROVE  IInv'
  BY FailureKeeps DEF ReportLastFailure, Live, AgreesWith

LEMMA ReportGivesUpKeeps ==
  ASSUME IInv, NEW o \in Ops, ReportGivesUp(o)
  PROVE  IInv'
  BY FailureKeeps DEF ReportGivesUp, Live, AgreesWith

LEMMA ReportRetryKeeps ==
  ASSUME IInv, NEW o \in Ops, ReportRetry(o)
  PROVE  IInv'
<1> DEFINE r == SettledRow(o, Stage(o), "pending")
<1>1. Live(o) /\ op[o].job.cleanup \in BOOLEAN
  BY RowsAreTyped DEF ReportRetry, Live
<1>2. Follows(o, r) /\ r.status = Stage(o)
  <2>1. Stage(o) \in OpStatuses \ {"absent"}
    BY <1>1 DEF Stage, OpStatuses
  <2> QED
    BY <1>1, <2>1, SettledFollows DEF ReportRetry
<1> HIDE DEF r
<1>3. Agrees(o, r)
  <2>1. CASE op[o].job.cleanup
    <3>1. \A l \in Plans : plan[l].op = o =>
            plan[l].status \in {"cleanup_pending", "manual_recovery_required"}
      BY <1>1, <2>1, LinkedToLive, TwoHalves
    <3> QED
      BY <1>2, <2>1, <3>1, NobodyTold, TwoHalves DEF ReportRetry, Stage, AgreesWith
  <2>2. CASE ~op[o].job.cleanup
    <3>1. \A l \in Plans : plan[l].op = o => plan[l].status \in {"queued", "moving"}
      BY <1>1, <2>2, LinkedToLive, TwoHalves
    <3>2. /\ "queued" \in AgreesWith["queued"] /\ "queued" \in PlanStatuses \ Unlinked
          /\ r.status = "queued" /\ plan' = Relinked(o, {"queued", "moving"}, "queued")
      BY <1>2, <2>2 DEF AgreesWith, PlanStatuses, Unlinked, ReportRetry, Stage
    <3>3. \A l \in Plans : plan[l].op = o => Active(l)
      BY <3>1 DEF Active, PlanInactive
    <3> QED
      BY <3>1, <3>2, <3>3, RelinkedTold, TwoHalves
  <2> QED
    BY <1>1, <2>1, <2>2
<1> QED
  BY <1>2, <1>3, ToldKeeps DEF ReportRetry

\* What an agent finds is written into the job it holds.
LEMMA FoundKeeps ==
  ASSUME IInv, NEW o \in Ops, NEW f \in Findings, Live(o), Found(o, f), plan' = plan,
         UNCHANGED <<case, complete, loc, hands>>,
         disk' \in SUBSET Paths, evidence' \in SUBSET Ops, applied' \in SUBSET Ops
  PROVE  IInv'
<1> DEFINE j == [op[o].job EXCEPT !.found = f]
           r == [op[o] EXCEPT !.job = j]
<1>1. op[o] \in OpRow /\ op[o].job \in JobRow /\ op \in [Ops -> OpRow]
  BY RowsAreTyped DEF IInv, TypeOK
<1>2. j \in JobRow /\ j.status = op[o].job.status /\ j.version = op[o].job.version
      /\ j.cleanup = op[o].job.cleanup
  BY <1>1 DEF JobRow
<1>3. op' = [op EXCEPT ![o] = r]
  BY <1>1 DEF Found
<1> HIDE DEF j
<1>4. /\ r \in OpRow /\ r.status = op[o].status /\ r.job = j
      /\ r.src = op[o].src /\ r.dst = op[o].dst /\ r.version = op[o].version
  BY <1>1, <1>2 DEF OpRow
<1> HIDE DEF r
<1>5. Follows(o, r)
  BY <1>2, <1>3, <1>4 DEF Follows, IInv, JobServesOperation, Live, Reserving
<1>6. Agrees(o, r)
  <2>1. \A l \in Plans : plan[l].op = o =>
          /\ plan[l].status \in {"queued", "moving", "cleanup_pending", "manual_recovery_required"}
          /\ op[o].status \in AgreesWith[plan[l].status]
    BY <1>1, LinkedToLive, TwoHalves DEF Tables, PlanFollowsOperation, Ops, JobRow
  <2> QED
    BY <1>4, <2>1, NobodyTold, TwoHalves
<1>7. Tables'
  BY <1>5, <1>6, OneOpMoves, TwoHalves
<1>8. OtherRows'
  BY TwoHalves DEF OtherRows
<1> QED
  BY <1>7, <1>8, TwoHalves DEF Tables, OtherRows, IInv, TypeOK

LEMMA AgentKeeps ==
  ASSUME IInv, NEW o \in Ops,
         AgentRenames(o) \/ AgentCopies(o) \/ AgentInspects(o) \/ AgentCleans(o)
  PROVE  IInv'
<1>1. Live(o)
  BY DEF AgentRenames, AgentCopies, AgentInspects, AgentCleans, Moving, Leased, Live
<1>2. op[o].dst \in Paths
  BY <1>1 DEF IInv, JobServesOperation, HavePaths
<1>3. disk \in SUBSET Paths /\ evidence \in SUBSET Ops /\ applied \in SUBSET Ops
  BY DEF IInv, TypeOK
<1>4. /\ disk' \in SUBSET Paths /\ evidence' \in SUBSET Ops /\ applied' \in SUBSET Ops
      /\ UNCHANGED <<case, complete, loc, hands, plan>>
  BY <1>2, <1>3 DEF AgentRenames, AgentCopies, AgentInspects, AgentCleans
<1>5. \E f \in Findings : Found(o, f)
  BY DEF AgentRenames, AgentCopies, AgentInspects, AgentCleans, Findings
<1> QED
  BY <1>1, <1>4, <1>5, FoundKeeps

LEMMA ReportCleanedKeeps ==
  ASSUME IInv, NEW o \in Ops, ReportCleaned(o)
  PROVE  IInv'
<1> DEFINE agrees == /\ loc.status = "verified" /\ loc.path = op[o].dst
                     /\ loc.version = op[o].locVersion + 1
<1>1. Live(o) /\ op[o].job.cleanup
  BY DEF ReportCleaned, Leased, Live
<1>2. UNCHANGED <<case, complete, loc, disk, evidence, applied, hands>>
  BY DEF ReportCleaned
<1>3. CASE ~agrees
  <2>1. /\ op' = Settled(o, "manual_recovery_required", "failed")
        /\ plan' = LifecycleFailure(o, "manual_recovery_required")
    BY <1>3 DEF ReportCleaned
  <2> QED
    BY <1>1, <1>2, <2>1, FailureKeeps DEF AgreesWith
<1>4. CASE agrees
  <2> DEFINE j == [op[o].job EXCEPT !.status = "succeeded"]
             r == [op[o] EXCEPT !.status = "ready", !.version = @ + 1,
                                !.job.status = "succeeded"]
  <2>1. op[o] \in OpRow /\ op[o].job \in JobRow /\ op \in [Ops -> OpRow]
    BY RowsAreTyped DEF IInv, TypeOK
  <2>2. /\ r \in OpRow /\ r.status = "ready" /\ r.job.status = "succeeded"
        /\ r.src = op[o].src /\ r.dst = op[o].dst
    <3>1. j \in JobRow /\ j.status = "succeeded"
      BY <2>1 DEF JobRow, JobEnded
    <3>2. op[o].version + 1 \in Nat /\ "ready" \in OpStatuses
      BY RowsAreTyped DEF OpStatuses, OpTerminal
    <3>3. r = [op[o] EXCEPT !.status = "ready", !.version = op[o].version + 1, !.job = j]
      BY <2>1 DEF OpRow
    <3> HIDE DEF j, r
    <3> QED
      BY <2>1, <3>1, <3>2, <3>3 DEF OpRow
  <2>3. op' = [op EXCEPT ![o] = r]
    BY <1>4, <2>1 DEF ReportCleaned
  <2>4. Follows(o, r)
    <3>1. op[o].status # "absent"
      BY <1>1 DEF IInv, JobServesOperation
    <3> HIDE DEF r
    <3> QED
      BY <2>2, <2>3, <3>1 DEF Follows, OpTerminal
  <2>5. Agrees(o, r)
    <3>1. plan' = [l \in Plans |->
                     IF plan[l].op = o /\ plan[l].status = "cleanup_pending"
                     THEN [plan[l] EXCEPT !.status = Finished(l)] ELSE plan[l]]
      BY <1>4 DEF ReportCleaned
    <3>2. \A l \in Plans : Finished(l) \in {"closed", "reopened"}
      BY DEF Finished
    <3>3. \A l \in Plans : /\ plan[l] \in PlanRow
                           /\ plan'[l] \in PlanRow
                           /\ plan[l].op # o => plan'[l] = plan[l]
                           /\ plan'[l].op = plan[l].op
                           /\ plan'[l].src = plan[l].src /\ plan'[l].dst = plan[l].dst
                           /\ plan'[l].status = IF plan[l].op = o /\ plan[l].status = "cleanup_pending"
                                                THEN Finished(l) ELSE plan[l].status
      BY <3>1, <3>2 DEF IInv, TypeOK, PlanRow, PlanStatuses, PlanInactive
    <3>4. ASSUME NEW l \in Plans, plan[l].op = o
          PROVE  plan'[l].status \in {"closed", "reopened", "manual_recovery_required"}
                 /\ (plan'[l].status = "manual_recovery_required" => Active(l))
      <4>1. plan[l].status \in {"cleanup_pending", "manual_recovery_required"}
        BY <1>1, <3>4, LinkedToLive, TwoHalves
      <4> QED
        BY <3>2, <3>3, <3>4, <4>1 DEF Active, PlanInactive
    <3>5. plan' \in [Plans -> PlanRow]
      BY <3>1, <3>3
    <3>6. "ready" \in AgreesWith["closed"] \cap AgreesWith["reopened"]
                      \cap AgreesWith["manual_recovery_required"]
      BY DEF AgreesWith
    <3> HIDE DEF r
    <3> QED
      BY <2>2, <3>3, <3>4, <3>5, <3>6 DEF Agrees, PlanInactive, Unlinked
  <2> HIDE DEF r
  <2> QED
    BY <1>2, <2>4, <2>5, ToldKeeps
<1> QED
  BY <1>3, <1>4

\* The lifecycle operation that is finished by a verified move, if one is.
Done(o, l) == l \in Waiting(o) /\ CaseFollows(l)

LEMMA MoveIsTold ==
  ASSUME IInv, NEW o \in Ops, Live(o), ~op[o].job.cleanup, NEW strategy \in Strategies,
         FinalizeLifecycle(o, strategy)
  PROVE  \/ \E l \in Plans :
              /\ Done(o, l)
              /\ case' = [status |-> After(l), version |-> case.version + 1,
                          home |-> IF plan[l].type = "close" THEN op[o].src ELSE case.home]
              /\ plan' = [plan EXCEPT ![l].status =
                            IF strategy = "staged_copy" THEN "cleanup_pending" ELSE Finished(l)]
         \/ /\ \A l \in Plans : plan[l].op # o
            /\ UNCHANGED <<plan, case>>
         \/ plan' = LifecycleFailure(o, "manual_recovery_required") /\ UNCHANGED case
<1>1. CASE \E l \in Plans : Done(o, l)
  <2> DEFINE l == CHOOSE x \in Plans : Done(o, x)
  <2>1. l \in Plans /\ Done(o, l)
    BY <1>1
  <2>2. l = CHOOSE x \in Plans : x \in Waiting(o) /\ CaseFollows(x)
    BY DEF Done
  <2> HIDE DEF l
  <2> QED
    BY <1>1, <2>1, <2>2 DEF FinalizeLifecycle, Done
<1>2. CASE ~(\E l \in Plans : Done(o, l))
  <2>1. Waiting(o) = {} => \A l \in Plans : plan[l].op # o
    BY LinkedToLive, TwoHalves DEF Waiting
  <2> QED
    BY <1>2, <2>1 DEF FinalizeLifecycle, Done
<1> QED
  BY <1>1, <1>2

LEMMA MovedFollows ==
  ASSUME IInv, NEW o \in Ops, Live(o), NEW strategy \in Strategies,
         op' = [op EXCEPT ![o] = MovedRow(o, strategy)]
  PROVE  /\ Follows(o, MovedRow(o, strategy))
         /\ MovedRow(o, strategy).status =
              IF strategy = "staged_copy" THEN "cleanup_pending" ELSE "ready"
<1> DEFINE r == MovedRow(o, strategy)
<1>1. op[o] \in OpRow /\ op[o].job \in JobRow /\ op[o].version \in Nat
  BY RowsAreTyped
<1>2. op[o].status # "absent" /\ Reserving(o)
  BY DEF IInv, JobServesOperation, Reserving, OpTerminal
<1>3. CASE strategy = "staged_copy"
  <2> DEFINE j == FreshJob(TRUE, op[o].version + 1)
  <2>1. /\ j \in JobRow /\ j.status = "pending" /\ j.cleanup = TRUE
        /\ j.version = op[o].version + 1
    <3>1. op[o].version + 1 \in Nat /\ TRUE \in BOOLEAN
      BY <1>1
    <3> QED
      BY <3>1, FreshJobTyped
  <2>2. r = [op[o] EXCEPT !.status = "cleanup_pending", !.strategy = strategy,
                          !.manifest = TRUE, !.version = op[o].version + 1, !.job = j]
    BY <1>3 DEF MovedRow
  <2> HIDE DEF j, r
  <2>3. /\ r \in OpRow /\ r.status = "cleanup_pending" /\ r.job = j
        /\ r.src = op[o].src /\ r.dst = op[o].dst /\ r.version = op[o].version + 1
    <3>1. /\ op[o].version + 1 \in Nat /\ TRUE \in BOOLEAN
          /\ "cleanup_pending" \in OpStatuses
      BY <1>1 DEF OpStatuses
    <3> QED
      BY <1>1, <2>1, <2>2, <3>1 DEF OpRow
  <2>4. Follows(o, r)
    BY <1>2, <2>1, <2>3 DEF Follows, r
  <2> QED
    BY <1>3, <2>3, <2>4 DEF r
<1>4. CASE strategy # "staged_copy"
  <2> DEFINE j == [op[o].job EXCEPT !.status = "succeeded"]
  <2>1. j \in JobRow /\ j.status = "succeeded"
    BY <1>1 DEF JobRow, JobEnded
  <2>2. r = [op[o] EXCEPT !.status = "ready", !.strategy = strategy,
                          !.manifest = TRUE, !.version = op[o].version + 1, !.job = j]
    BY <1>4 DEF MovedRow
  <2> HIDE DEF j, r
  <2>3. /\ r \in OpRow /\ r.status = "ready" /\ r.job = j
        /\ r.src = op[o].src /\ r.dst = op[o].dst
    <3>1. /\ op[o].version + 1 \in Nat /\ TRUE \in BOOLEAN
          /\ "ready" \in OpStatuses
      BY <1>1 DEF OpStatuses, OpTerminal
    <3> QED
      BY <1>1, <2>1, <2>2, <3>1 DEF OpRow
  <2>4. Follows(o, r)
    BY <1>2, <2>1, <2>3 DEF Follows, r, OpTerminal
  <2> QED
    BY <1>4, <2>3, <2>4 DEF r
<1> QED
  BY <1>3, <1>4

LEMMA StrategyTyped ==
  ASSUME IInv, NEW o \in Ops, op[o].job.found \in {"renamed", "copied", "recovered", "matched"}
  PROVE  ResultStrategy(o) \in Strategies
  BY RowsAreTyped DEF ResultStrategy, Strategies, OpRow

LEMMA ReportMovedKeeps ==
  ASSUME IInv, NEW o \in Ops, ReportMoved(o)
  PROVE  IInv'
<1> DEFINE strategy == ResultStrategy(o)
           r == MovedRow(o, strategy)
           told == IF strategy = "staged_copy" THEN "cleanup_pending" ELSE "ready"
<1>1. strategy \in Strategies
  BY StrategyTyped DEF ReportMoved
<1>2. Live(o) /\ ~op[o].job.cleanup
  BY RowsAreTyped DEF ReportMoved, Leased, Live
<1>3. op' = [op EXCEPT ![o] = r] /\ FinalizeLifecycle(o, strategy)
      /\ UNCHANGED <<complete, disk, evidence, applied, hands>>
      /\ loc' = IF RecoveredLocation(o) THEN loc
                ELSE [path |-> op[o].dst, status |-> "verified",
                      version |-> loc.version + 1, imported |-> FALSE, given |-> loc.given]
  BY DEF ReportMoved
<1> HIDE DEF strategy
<1>4. Follows(o, r) /\ r.status = told
  BY <1>1, <1>2, <1>3, MovedFollows
<1>5. op[o].src \in Paths /\ op[o].dst \in Paths
  BY <1>2 DEF IInv, JobServesOperation, HavePaths
<1> HIDE DEF r
<1>6. loc' \in [path : Paths, status : {"pending", "verified", "missing"},
                version : Nat \ {0}, imported : BOOLEAN, given : Given]
  BY <1>3, <1>5 DEF IInv, TypeOK
<1>7. Tables' /\ case' \in [status : {"open", "closed"}, version : Nat \ {0},
                            home : Paths \cup {NoPath}]
  <2>1. Tables
    BY TwoHalves
  <2>2. case \in [status : {"open", "closed"}, version : Nat \ {0},
                  home : Paths \cup {NoPath}]
    BY DEF IInv, TypeOK
  <2>3. CASE /\ \A l \in Plans : plan[l].op # o
             /\ UNCHANGED <<plan, case>>
    <3>1. Agrees(o, r)
      BY <2>1, <2>3, NobodyTold
    <3> QED
      BY <1>4, <2>1, <2>2, <2>3, <3>1, OneOpMoves
  <2>4. CASE plan' = LifecycleFailure(o, "manual_recovery_required") /\ UNCHANGED case
    <3>1. Agrees(o, r)
      BY <1>2, <1>4, <2>4, FailureAgrees DEF AgreesWith
    <3> QED
      BY <1>4, <2>1, <2>2, <2>4, <3>1, OneOpMoves
  <2>5. ASSUME NEW l \in Plans, Done(o, l),
               case' = [status |-> After(l), version |-> case.version + 1,
                        home |-> IF plan[l].type = "close" THEN op[o].src ELSE case.home],
               plan' = [plan EXCEPT ![l].status =
                          IF strategy = "staged_copy" THEN "cleanup_pending" ELSE Finished(l)]
        PROVE  Tables' /\ case' \in [status : {"open", "closed"}, version : Nat \ {0},
                                     home : Paths \cup {NoPath}]
    <3> DEFINE to == IF strategy = "staged_copy" THEN "cleanup_pending" ELSE Finished(l)
    <3>1. plan[l].op = o /\ plan \in [Plans -> PlanRow]
      BY <2>5 DEF Done, Waiting, IInv, TypeOK
    <3>2. to \in {"cleanup_pending", "closed", "reopened"} /\ told \in AgreesWith[to]
      BY DEF Finished, AgreesWith
    <3>3. \A k \in Plans : plan[k].op = o => k = l
      BY <2>1, <3>1 DEF Tables, LinksFit, Ops
    <3>4. Active(l)
      BY <1>2, <2>1, <3>1, LinkedToLive DEF Active, PlanInactive
    <3> HIDE DEF to, told
    <3>5. plan' = [plan EXCEPT ![l].status = to]
      BY <2>5 DEF to
    <3>6. /\ plan' \in [Plans -> PlanRow] /\ plan'[l].status = to
          /\ \A k \in Plans : /\ k # l => plan'[k] = plan[k]
                              /\ plan'[k].op = plan[k].op
                              /\ plan'[k].src = plan[k].src /\ plan'[k].dst = plan[k].dst
      BY <3>1, <3>2, <3>5 DEF PlanRow, PlanStatuses, PlanInactive
    <3>7. Agrees(o, r)
      BY <1>4, <3>1, <3>2, <3>3, <3>4, <3>6 DEF Agrees, PlanInactive, Unlinked
    <3>8. case' \in [status : {"open", "closed"}, version : Nat \ {0},
                     home : Paths \cup {NoPath}]
      BY <1>5, <2>2, <2>5 DEF After
    <3> QED
      BY <1>4, <2>1, <3>7, <3>8, OneOpMoves
  <2> HIDE DEF told
  <2> QED
    BY <1>1, <1>2, <1>3, <2>3, <2>4, <2>5, MoveIsTold
<1>8. OtherRows'
  BY <1>3, <1>6, <1>7, TwoHalves DEF OtherRows
<1> QED
  BY <1>7, <1>8, TwoHalves DEF Tables, OtherRows, IInv, TypeOK

-----------------------------------------------------------------------------
(* The commands of people                                                  *)

\* What a linked lifecycle operation can be.
LEMMA LinkedStatus ==
  ASSUME Tables, NEW o \in Ops, NEW l \in Plans, plan[l].op = o
  PROVE  /\ op[o].status \in AgreesWith[plan[l].status]
         /\ plan[l].status \in {"queued", "moving", "cleanup_pending", "closed", "reopened",
                                "failed", "stale", "manual_recovery_required"}
<1>1. /\ op[o].status \in AgreesWith[plan[l].status] /\ plan[l].status \notin Unlinked
      /\ plan[l].status \in PlanStatuses
  BY DEF Tables, PlanFollowsOperation, LinksFit, Ops, PlanRow
<1> QED
  BY <1>1 DEF PlanStatuses, PlanInactive, Unlinked

LEMMA NotYetLinked ==
  ASSUME Tables, NEW o \in Ops, op[o].status \in {"absent", "planned"}, NEW l \in Plans
  PROVE  plan[l].op # o
  BY LinkedStatus DEF AgreesWith

LEMMA ApprovePlanKeeps ==
  ASSUME IInv, NEW o \in Ops, ApprovePlan(o)
  PROVE  IInv'
<1> DEFINE v == op[o].version + 1
           queued == [op[o] EXCEPT !.status = "queued", !.version = v,
                                   !.job = FreshJob(FALSE, v)]
           stale == [op[o] EXCEPT !.status = "stale", !.version = v]
<1>1. op[o] \in OpRow /\ op[o].job \in JobRow /\ v \in Nat /\ FALSE \in BOOLEAN
  BY RowsAreTyped
<1>2. op[o].status = "planned" /\ ~Live(o) /\ Reserving(o)
  BY DEF ApprovePlan, IInv, JobServesOperation, Reserving, OpTerminal
<1>3. /\ FreshJob(FALSE, v) \in JobRow /\ FreshJob(FALSE, v).status = "pending"
      /\ ~FreshJob(FALSE, v).cleanup /\ FreshJob(FALSE, v).version = v
  BY <1>1, FreshJobTyped
<1> HIDE DEF v
<1>4. /\ queued \in OpRow /\ queued.status = "queued" /\ queued.version = v
      /\ queued.job = FreshJob(FALSE, v)
      /\ queued.src = op[o].src /\ queued.dst = op[o].dst
  BY <1>1, <1>3 DEF OpRow, OpStatuses
<1>5. /\ stale \in OpRow /\ stale.status = "stale" /\ stale.job = op[o].job
      /\ stale.src = op[o].src /\ stale.dst = op[o].dst
  BY <1>1 DEF OpRow, OpStatuses, OpTerminal
<1> HIDE DEF queued, stale
<1>6. op' = [op EXCEPT ![o] = queued] \/ op' = [op EXCEPT ![o] = stale]
  BY DEF ApprovePlan, queued, stale, v
<1>7. ASSUME NEW r \in {queued, stale}, op' = [op EXCEPT ![o] = r]
      PROVE  Follows(o, r)
  BY <1>2, <1>3, <1>4, <1>5, <1>7 DEF Follows, OpTerminal, Live
<1>8. \A r : Agrees(o, r)
  <2>1. \A l \in Plans : plan[l].op # o
    BY <1>2, NotYetLinked, TwoHalves
  <2> QED
    BY <2>1, NobodyTold, TwoHalves DEF ApprovePlan
<1> QED
  BY <1>6, <1>7, <1>8, ToldKeeps DEF ApprovePlan

LEMMA CancelOperationKeeps ==
  ASSUME IInv, NEW o \in Ops, CancelOperation(o)
  PROVE  IInv'
<1> DEFINE e == IF op[o].job.status = "absent" THEN "absent" ELSE "cancelled"
           r == [op[o] EXCEPT !.status = "cancelled", !.version = @ + 1, !.job.status = e]
<1>1. op[o] \in OpRow /\ op[o].job \in JobRow /\ op[o].version + 1 \in Nat
      /\ op \in [Ops -> OpRow]
  BY RowsAreTyped DEF IInv, TypeOK
<1>2. op[o].status \in {"planned", "queued"}
  BY DEF CancelOperation, Cancellable
<1>3. /\ r \in OpRow /\ r.status = "cancelled" /\ r.job.status = e
      /\ r.src = op[o].src /\ r.dst = op[o].dst
  <2> DEFINE j == [op[o].job EXCEPT !.status = e]
  <2>1. j \in JobRow /\ j.status = e
    BY <1>1 DEF JobRow, JobEnded
  <2>2. r = [op[o] EXCEPT !.status = "cancelled", !.version = op[o].version + 1, !.job = j]
    BY <1>1 DEF OpRow
  <2>3. "cancelled" \in OpStatuses
    BY DEF OpStatuses, OpTerminal
  <2> HIDE DEF j, r, e
  <2> QED
    BY <1>1, <2>1, <2>2, <2>3 DEF OpRow
<1>4. op' = [op EXCEPT ![o] = r]
  BY <1>1 DEF CancelOperation
<1>5. e \notin {"pending", "leased"}
  OBVIOUS
<1> HIDE DEF e, r
<1>6. Follows(o, r)
  BY <1>2, <1>3, <1>4, <1>5 DEF Follows, OpTerminal
<1>7. ASSUME NEW l \in Plans, plan[l].op = o
      PROVE  plan[l].status = "queued"
  BY <1>2, <1>7, LinkedStatus, TwoHalves DEF AgreesWith
<1>8. Agrees(o, r)
  <2>1. "cancelled" \in AgreesWith["queued"]
    BY DEF AgreesWith
  <2> QED
    BY <1>3, <1>7, <2>1, NobodyTold, TwoHalves DEF CancelOperation
<1> QED
  BY <1>6, <1>8, ToldKeeps DEF CancelOperation

\* An operation is inserted, and linked to the lifecycle operation l, if any.
LEMMA NewOpKeeps ==
  ASSUME Tables, NEW o \in Ops, op[o].status = "absent", ActiveOps = {},
         NEW r \in OpRow, op' = [op EXCEPT ![o] = r],
         r.src \in Paths, r.dst \in Paths, r.status # "absent",
         r.status \in {"queued", "applying", "cleanup_pending"}
           <=> r.job.status \in {"pending", "leased"},
         r.job.status \in {"pending", "leased"} =>
           /\ r.job.version = r.version
           /\ r.job.cleanup <=> r.status = "cleanup_pending",
         \/ plan' = plan
         \/ \E l \in Plans :
              /\ plan[l].status = "approval_required" /\ r.status = "queued"
              /\ r.src = plan[l].src /\ r.dst = plan[l].dst
              /\ plan' = [plan EXCEPT ![l].status = "queued", ![l].op = o]
  PROVE  Tables'
<1> USE DEF Tables
<1>1. op' \in [Ops -> OpRow] /\ op'[o] = r /\ \A i \in Ops : i # o => op'[i] = op[i]
  OBVIOUS
<1>2. \A i \in Ops : ~Reserving(i) /\ op[i].status # "failed"
  BY DEF ActiveOps, Reserving, OpTerminal
<1>3. \A k \in Plans : plan[k].op # o
  BY NotYetLinked
<1>4. plan' \in [Plans -> PlanRow]
      /\ \A k \in Plans :
           /\ plan'[k].src = plan[k].src /\ plan'[k].dst = plan[k].dst
           /\ \/ plan'[k] = plan[k]
              \/ /\ plan[k].status = "approval_required" /\ plan'[k].status = "queued"
                 /\ plan'[k].op = o /\ r.status = "queued"
                 /\ r.src = plan[k].src /\ r.dst = plan[k].dst
                 /\ \A j \in Plans : j # k => plan'[j] = plan[j]
  <2>1. CASE plan' = plan
    BY <2>1
  <2>2. ASSUME NEW l \in Plans, plan[l].status = "approval_required", r.status = "queued",
               r.src = plan[l].src, r.dst = plan[l].dst,
               plan' = [plan EXCEPT ![l].status = "queued", ![l].op = o]
        PROVE  <1>4!:
    <3>1. "queued" \in PlanStatuses
      BY DEF PlanStatuses
    <3> QED
      BY <2>2, <3>1 DEF PlanRow
  <2> QED
    BY <2>1, <2>2
<1>5. OneAtATime'
  <2>1. \A i \in Ops : Reserving(i)' => i = o
    BY <1>1, <1>2 DEF Reserving
  <2>2. \A k \in Plans : Active(k)' => Active(k)
    BY <1>4 DEF Active, PlanInactive
  <2> QED
    BY <2>1, <2>2 DEF OneAtATime
<1>6. PlanFollowsOperation'
  <2> SUFFICES ASSUME NEW k \in Plans, plan'[k].op # 0
               PROVE  op'[plan'[k].op].status \in AgreesWith[plan'[k].status]
    BY DEF PlanFollowsOperation, AgreesWith
  <2>1. CASE plan'[k] = plan[k]
    BY <1>1, <1>3, <2>1 DEF PlanFollowsOperation, PlanRow
  <2>2. CASE plan'[k] # plan[k]
    BY <1>1, <1>4, <2>2 DEF AgreesWith
  <2> QED
    BY <2>1, <2>2
<1>7. JobServesOperation'
  BY <1>1 DEF JobServesOperation, Live
<1>8. LinksFit'
  <2>1. \A k \in Plans : plan'[k].status \in Unlinked => plan'[k].op = 0
    BY <1>4 DEF LinksFit, Unlinked
  <2>2. ASSUME NEW k \in Plans, plan'[k].op # 0
        PROVE  op'[plan'[k].op].src = plan'[k].src /\ op'[plan'[k].op].dst = plan'[k].dst
    BY <1>1, <1>3, <1>4, <2>2 DEF LinksFit, PlanRow
  <2>3. \A j, k \in Plans : plan'[k].op # 0 /\ plan'[k].op = plan'[j].op => k = j
    BY <1>3, <1>4 DEF LinksFit
  <2> QED
    BY <2>1, <2>2, <2>3 DEF LinksFit
<1>9. FailedPairAlone'
  <2>1. \A k \in Plans : plan'[k].status = "failed" => plan'[k] = plan[k]
    BY <1>4
  <2> QED
    BY <1>1, <1>2, <1>3, <2>1 DEF FailedPairAlone, PlanRow
<1>10. HavePaths'
  BY <1>1, <1>4 DEF HavePaths
<1> QED
  BY <1>1, <1>4, <1>5, <1>6, <1>7, <1>8, <1>9, <1>10

LEMMA CreatePlanKeeps ==
  ASSUME IInv, NEW dst \in Paths, CreatePlan(dst)
  PROVE  IInv'
<1> DEFINE r == [NoOp EXCEPT !.status = "planned", !.src = loc.path, !.dst = dst,
                             !.locVersion = loc.version, !.version = 1,
                             !.strategy = StrategyFor(loc.path, dst),
                             !.payload = StrategyFor(loc.path, dst)]
<1>1. PICK o \in FreshOps : op' = [op EXCEPT ![o] = r]
  BY DEF CreatePlan
<1>2. o \in Ops /\ op[o].status = "absent" /\ ActiveOps = {} /\ plan' = plan
  BY DEF FreshOps, CreatePlan
<1>3. loc.path \in Paths /\ loc.version \in Nat
  BY DEF IInv, TypeOK
<1>4. /\ r \in OpRow /\ r.status = "planned" /\ r.job = NoJob
      /\ r.src = loc.path /\ r.dst = dst
  <2>1. NoJob \in JobRow /\ 1 \in Nat /\ FALSE \in BOOLEAN
    BY SagaAssumption DEF NoJob, JobRow, Findings
  <2>2. StrategyFor(loc.path, dst) \in Strategies /\ "planned" \in OpStatuses
    BY DEF StrategyFor, Strategies, OpStatuses
  <2> HIDE DEF NoJob
  <2> QED
    BY <1>3, <2>1, <2>2 DEF NoOp, OpRow
<1>5. NoJob.status = "absent"
  BY DEF NoJob
<1> HIDE DEF r
<1>6. Tables'
  BY <1>1, <1>2, <1>3, <1>4, <1>5, NewOpKeeps, TwoHalves
<1> QED
  BY <1>6, RestStays, TwoHalves DEF CreatePlan, Tables, OtherRows, IInv, TypeOK

LEMMA ApproveFirstKeeps ==
  ASSUME IInv, NEW l \in Plans, ApproveFirst(l)
  PROVE  IInv'
<1> DEFINE s == StrategyFor(plan[l].src, plan[l].dst)
           r == [NoOp EXCEPT !.status = "queued", !.version = 2,
                   !.src = plan[l].src, !.dst = plan[l].dst,
                   !.locVersion = plan[l].locVersion,
                   !.strategy = s, !.payload = s, !.job = FreshJob(FALSE, 2)]
<1>1. PICK o \in FreshOps :
        /\ op' = [op EXCEPT ![o] = r]
        /\ plan' = [plan EXCEPT ![l].status = "queued", ![l].op = o]
  BY DEF ApproveFirst
<1>2. o \in Ops /\ op[o].status = "absent" /\ ActiveOps = {}
      /\ plan[l].status = "approval_required"
  BY DEF FreshOps, ApproveFirst
<1>3. plan[l].src \in Paths /\ plan[l].dst \in Paths /\ plan[l].locVersion \in Nat
  BY <1>2 DEF IInv, TypeOK, HavePaths, PlanRow
<1>4. /\ FreshJob(FALSE, 2) \in JobRow /\ FreshJob(FALSE, 2).status = "pending"
      /\ ~FreshJob(FALSE, 2).cleanup /\ FreshJob(FALSE, 2).version = 2
  BY FreshJobTyped
<1>5. /\ r \in OpRow /\ r.status = "queued" /\ r.job = FreshJob(FALSE, 2) /\ r.version = 2
      /\ r.src = plan[l].src /\ r.dst = plan[l].dst
  <2>1. s \in Strategies /\ "queued" \in OpStatuses /\ FALSE \in BOOLEAN /\ 2 \in Nat
    BY DEF StrategyFor, Strategies, OpStatuses
  <2> HIDE DEF s
  <2> QED
    BY <1>3, <1>4, <2>1 DEF NoOp, OpRow
<1> HIDE DEF r
<1>6. Tables'
  BY <1>1, <1>2, <1>3, <1>4, <1>5, NewOpKeeps, TwoHalves
<1> QED
  BY <1>6, RestStays, TwoHalves DEF ApproveFirst, Tables, OtherRows, IInv, TypeOK

\* The approval of a retry finds no active lifecycle operation.
LEMMA ApproveRetryKeeps ==
  ASSUME IInv, NEW l \in Plans, ApproveRetry(l)
  PROVE  IInv'
<1> DEFINE o == plan[l].op
           v == op[o].version
           r == [op[o] EXCEPT !.status = "queued", !.job = FreshJob(FALSE, v)]
<1>1. /\ o \in Ops /\ op[o].status = "failed" /\ plan[l].status = "failed" /\ o # 0
      /\ op[o] \in OpRow /\ v \in Nat /\ FALSE \in BOOLEAN
      /\ op \in [Ops -> OpRow] /\ plan \in [Plans -> PlanRow]
  BY RowsAreTyped DEF ApproveRetry, IInv, TypeOK, PlanRow
<1>2. /\ op' = [op EXCEPT ![o] = r] /\ plan' = [plan EXCEPT ![l].status = "queued"]
      /\ UNCHANGED <<case, complete, loc, disk, evidence, applied, hands>>
  BY <1>1 DEF ApproveRetry
<1>3. /\ FreshJob(FALSE, v) \in JobRow /\ FreshJob(FALSE, v).status = "pending"
      /\ ~FreshJob(FALSE, v).cleanup /\ FreshJob(FALSE, v).version = v
  BY <1>1, FreshJobTyped
<1> HIDE DEF v
<1>4. /\ r \in OpRow /\ r.status = "queued" /\ r.job = FreshJob(FALSE, v) /\ r.version = v
      /\ r.src = op[o].src /\ r.dst = op[o].dst
  BY <1>1, <1>3 DEF OpRow, OpStatuses, v
<1> HIDE DEF r
<1>5. op' \in [Ops -> OpRow] /\ op'[o] = r /\ \A i \in Ops : i # o => op'[i] = op[i]
  BY <1>1, <1>2, <1>4
<1>6. /\ plan' \in [Plans -> PlanRow] /\ plan'[l].status = "queued"
      /\ \A k \in Plans : /\ plan'[k].op = plan[k].op
                          /\ plan'[k].src = plan[k].src /\ plan'[k].dst = plan[k].dst
                          /\ k # l => plan'[k] = plan[k]
  <2>1. "queued" \in PlanStatuses
    BY DEF PlanStatuses
  <2> QED
    BY <1>1, <1>2, <2>1 DEF PlanRow
<1>7. \A k \in Plans : ~Active(k)
  BY <1>1 DEF IInv, FailedPairAlone
<1>8. \A k \in Plans : plan[k].op = o => k = l
  BY <1>1 DEF IInv, LinksFit
<1> HIDE DEF o
<1>9. OneAtATime'
  <2>1. Reserving(o)
    BY <1>1 DEF Reserving, OpTerminal
  <2>2. \A i \in Ops : Reserving(i)' => Reserving(i)
    BY <1>5, <2>1 DEF Reserving
  <2>3. \A k \in Plans : Active(k)' => k = l
    BY <1>6, <1>7 DEF Active
  <2> QED
    BY <2>2, <2>3 DEF OneAtATime, IInv
<1>10. PlanFollowsOperation'
  <2> SUFFICES ASSUME NEW k \in Plans, plan'[k].op # 0
               PROVE  op'[plan'[k].op].status \in AgreesWith[plan'[k].status]
    BY DEF PlanFollowsOperation, AgreesWith
  <2>1. CASE k = l
    BY <1>4, <1>5, <1>6, <2>1 DEF AgreesWith, o
  <2>2. CASE k # l
    <3>1. plan[k].op \in Ops /\ plan[k].op # o /\ plan'[k] = plan[k]
      BY <1>1, <1>6, <1>8, <2>2 DEF PlanRow
    <3> QED
      BY <1>5, <3>1 DEF PlanFollowsOperation, IInv
  <2> QED
    BY <2>1, <2>2
<1>11. JobServesOperation'
  BY <1>3, <1>4, <1>5 DEF JobServesOperation, Live, IInv
<1>12. LinksFit'
  <2>1. \A k \in Plans : plan'[k].status \in Unlinked => plan'[k].op = 0
    BY <1>6 DEF LinksFit, Unlinked, IInv
  <2>2. ASSUME NEW k \in Plans, plan'[k].op # 0
        PROVE  op'[plan'[k].op].src = plan'[k].src /\ op'[plan'[k].op].dst = plan'[k].dst
    <3>1. plan[k].op \in Ops /\ plan'[k].op = plan[k].op
      BY <1>1, <1>6, <2>2 DEF PlanRow
    <3>2. op'[plan[k].op].src = op[plan[k].op].src /\ op'[plan[k].op].dst = op[plan[k].op].dst
      BY <1>4, <1>5, <3>1
    <3> QED
      BY <1>6, <2>2, <3>1, <3>2 DEF LinksFit, IInv
  <2>3. \A j, k \in Plans : plan'[k].op # 0 /\ plan'[k].op = plan'[j].op => k = j
    BY <1>6 DEF LinksFit, IInv
  <2> QED
    BY <2>1, <2>2, <2>3 DEF LinksFit
<1>13. FailedPairAlone'
  <2> SUFFICES ASSUME NEW k \in Plans, plan'[k].status = "failed", plan'[k].op # 0,
                      op'[plan'[k].op].status = "failed"
               PROVE  FALSE
    BY DEF FailedPairAlone
  <2>1. plan'[k] = plan[k] /\ plan[k].op \in Ops /\ plan[k].op # o
    BY <1>1, <1>6, <1>8 DEF PlanRow
  <2>2. op[plan[k].op].status = "failed"
    BY <1>5, <2>1
  <2>3. Reserving(o) /\ Reserving(plan[k].op)
    BY <1>1, <2>2 DEF Reserving, OpTerminal
  <2> QED
    BY <1>1, <2>1, <2>3 DEF OneAtATime, IInv
<1>14. HavePaths'
  <2>1. op[o].src \in Paths /\ op[o].dst \in Paths
    BY <1>1 DEF HavePaths, IInv
  <2>2. plan[l].src \in Paths /\ plan[l].dst \in Paths
    BY <1>1 DEF HavePaths, IInv
  <2>3. \A i \in Ops : op'[i].status # "absent" => op'[i].src \in Paths /\ op'[i].dst \in Paths
    BY <1>4, <1>5, <2>1 DEF HavePaths, IInv
  <2>4. \A k \in Plans : plan'[k].status # "absent" => plan'[k].src \in Paths /\ plan'[k].dst \in Paths
    BY <1>6, <2>2 DEF HavePaths, IInv
  <2> QED
    BY <2>3, <2>4 DEF HavePaths
<1>15. OtherRows'
  BY <1>2, RestStays
<1> QED
  BY <1>5, <1>6, <1>9, <1>10, <1>11, <1>12, <1>13, <1>14, <1>15
     DEF OtherRows, IInv, TypeOK

-----------------------------------------------------------------------------
(* Operations dropped, lifecycle operations ended or inserted              *)

\* The failed operations in `gone' are replaced or released.
Dropped(gone) ==
  /\ op' \in [Ops -> OpRow]
  /\ \A o \in Ops :
       /\ o \notin gone => op'[o] = op[o]
       /\ o \in gone => /\ op[o].status = "failed" /\ op'[o].status = "stale"
                        /\ op'[o].job = op[o].job
                        /\ op'[o].src = op[o].src /\ op'[o].dst = op[o].dst

RowStays(l) == plan'[l] = plan[l]

RowEnds(l) ==
  /\ plan'[l].op = plan[l].op /\ plan'[l].src = plan[l].src /\ plan'[l].dst = plan[l].dst
  /\ plan[l].status \in {"failed", "approval_required"}
  /\ plan'[l].status \in {"stale", "cancelled"}
  /\ plan'[l].status = "cancelled" => plan[l].status = "approval_required"

RowIsNew(l, gone) ==
  /\ plan[l].op = 0 /\ plan'[l].op = 0 /\ plan'[l].status # "failed"
  /\ plan'[l].src \in Paths /\ plan'[l].dst \in Paths
  /\ ActiveOps \subseteq gone
  /\ \A k \in Plans : k # l => ~Active(k)'

LEMMA DropKeeps ==
  ASSUME Tables, NEW gone, Dropped(gone), plan' \in [Plans -> PlanRow],
         \A l \in Plans : RowStays(l) \/ RowEnds(l) \/ RowIsNew(l, gone)
  PROVE  Tables'
<1>1. /\ op \in [Ops -> OpRow] /\ plan \in [Plans -> PlanRow]
      /\ op' \in [Ops -> OpRow]
      /\ \A o \in Ops : o \notin gone => op'[o] = op[o]
      /\ \A o \in Ops : o \in gone => op[o].status = "failed" /\ op'[o].status = "stale"
      /\ \A o \in Ops : op'[o].job = op[o].job
      /\ \A o \in Ops : op'[o].src = op[o].src /\ op'[o].dst = op[o].dst
  BY DEF Tables, Dropped
<1>2. \A l \in Plans : \/ RowIsNew(l, gone)
                       \/ /\ plan'[l].op = plan[l].op
                          /\ plan'[l].src = plan[l].src /\ plan'[l].dst = plan[l].dst
  BY DEF RowStays, RowEnds
<1>3. \A l \in Plans : Active(l)' => RowIsNew(l, gone) \/ Active(l)
  BY DEF Active, RowStays, RowEnds, PlanInactive
<1>4. OneAtATime'
  <2>1. \A o \in Ops : Reserving(o)' => Reserving(o)
    BY <1>1 DEF Reserving, OpTerminal
  <2>2. ASSUME NEW k \in Plans, NEW l \in Plans, Active(k)', Active(l)'
        PROVE  k = l
    <3>1. CASE RowIsNew(k, gone) \/ RowIsNew(l, gone)
      BY <2>2, <3>1 DEF RowIsNew
    <3>2. CASE Active(k) /\ Active(l)
      BY <3>2 DEF OneAtATime, Tables
    <3> QED
      BY <1>3, <2>2, <3>1, <3>2
  <2> QED
    BY <2>1, <2>2 DEF OneAtATime, Tables
<1>5. PlanFollowsOperation'
  <2> SUFFICES ASSUME NEW l \in Plans, plan'[l].op # 0
               PROVE  op'[plan'[l].op].status \in AgreesWith[plan'[l].status]
    BY DEF PlanFollowsOperation, AgreesWith
  <2> DEFINE o == plan[l].op
  <2>1. plan'[l].op = o /\ o # 0 /\ o \in Ops
    BY <1>1, <1>2 DEF RowIsNew, PlanRow
  <2>2. op[o].status \in AgreesWith[plan[l].status]
    BY <2>1 DEF PlanFollowsOperation, Tables
  <2>3. plan[l].status \notin Unlinked
    BY <2>1 DEF LinksFit, Tables
  <2> HIDE DEF o
  <2>4. CASE RowEnds(l)
    <3>1. plan[l].status = "failed" /\ plan'[l].status = "stale"
      BY <2>3, <2>4 DEF Unlinked, RowEnds
    <3>2. op[o].status \in {"failed", "stale"}
      BY <2>2, <3>1 DEF AgreesWith
    <3>3. op'[o].status \in {"failed", "stale"}
      BY <1>1, <2>1, <3>2
    <3> QED
      BY <2>1, <3>1, <3>3 DEF AgreesWith
  <2>5. CASE plan'[l] = plan[l] /\ o \notin gone
    BY <1>1, <2>1, <2>2, <2>5
  <2>6. CASE plan'[l] = plan[l] /\ o \in gone
    <3>1. op[o].status = "failed" /\ op'[o].status = "stale"
      BY <1>1, <2>1, <2>6
    <3>2. plan[l].status \in {"failed", "stale"}
      BY <2>1, <3>1, LinkedStatus DEF AgreesWith, o
    <3> QED
      BY <2>1, <2>6, <3>1, <3>2 DEF AgreesWith
  <2> QED
    BY <2>1, <2>4, <2>5, <2>6 DEF RowStays, RowIsNew
<1>6. JobServesOperation'
  <2>1. \A o \in Ops : o \in gone => ~Live(o)
    BY <1>1 DEF JobServesOperation, Tables
  <2> QED
    BY <1>1, <2>1 DEF JobServesOperation, Live, Tables
<1>7. LinksFit'
  <2>1. ASSUME NEW l \in Plans, plan'[l].status \in Unlinked
        PROVE  plan'[l].op = 0
    <3>1. plan[l].status \in Unlinked => plan[l].op = 0
      BY DEF LinksFit, Tables
    <3> QED
      BY <2>1, <3>1 DEF Unlinked, RowStays, RowEnds, RowIsNew
  <2>2. ASSUME NEW l \in Plans, plan'[l].op # 0
        PROVE  op'[plan'[l].op].src = plan'[l].src /\ op'[plan'[l].op].dst = plan'[l].dst
    <3>1. /\ plan[l].op \in Ops /\ plan'[l].op = plan[l].op
          /\ plan'[l].src = plan[l].src /\ plan'[l].dst = plan[l].dst
      BY <1>1, <1>2, <2>2 DEF PlanRow, RowIsNew
    <3>2. op[plan[l].op].src = plan[l].src /\ op[plan[l].op].dst = plan[l].dst
      BY <2>2, <3>1 DEF LinksFit, Tables
    <3> QED
      BY <1>1, <3>1, <3>2
  <2>3. ASSUME NEW l \in Plans, NEW k \in Plans, plan'[l].op # 0, plan'[l].op = plan'[k].op
        PROVE  l = k
    <3>1. plan'[l].op = plan[l].op /\ plan'[k].op = plan[k].op
      BY <1>2, <2>3 DEF RowIsNew
    <3> QED
      BY <2>3, <3>1 DEF LinksFit, Tables
  <2> QED
    BY <2>1, <2>2, <2>3 DEF LinksFit
<1>8. FailedPairAlone'
  <2> SUFFICES ASSUME NEW l \in Plans, NEW k \in Plans, plan'[l].status = "failed",
                      plan'[l].op # 0, op'[plan'[l].op].status = "failed", Active(k)'
               PROVE  FALSE
    BY DEF FailedPairAlone
  <2>1. plan'[l] = plan[l]
    BY DEF RowStays, RowEnds, RowIsNew
  <2>2. plan[l].op \in Ops
    BY <1>1, <2>1 DEF PlanRow
  <2>3. plan[l].op \notin gone /\ op[plan[l].op].status = "failed"
    BY <1>1, <2>1, <2>2
  <2>4. plan[l].op \in ActiveOps
    BY <2>2, <2>3 DEF ActiveOps, OpTerminal
  <2>5. ~Active(k)
    BY <2>1, <2>2, <2>3 DEF FailedPairAlone, Tables
  <2>6. RowIsNew(k, gone)
    BY <1>3, <2>5
  <2> QED
    BY <2>3, <2>4, <2>6 DEF RowIsNew
<1>9. HavePaths'
  <2>1. ASSUME NEW o \in Ops, op'[o].status # "absent"
        PROVE  op'[o].src \in Paths /\ op'[o].dst \in Paths
    <3>1. op[o].status # "absent"
      BY <1>1, <2>1
    <3> QED
      BY <1>1, <3>1 DEF HavePaths, Tables
  <2>2. ASSUME NEW l \in Plans, plan'[l].status # "absent"
        PROVE  plan'[l].src \in Paths /\ plan'[l].dst \in Paths
    <3>1. CASE RowIsNew(l, gone)
      BY <3>1 DEF RowIsNew
    <3>2. CASE RowStays(l) \/ RowEnds(l)
      <4>1. plan[l].status # "absent"
        BY <2>2, <3>2 DEF RowStays, RowEnds
      <4> QED
        BY <3>2, <4>1 DEF HavePaths, Tables, RowStays, RowEnds
    <3> QED
      BY <3>1, <3>2
  <2> QED
    BY <2>1, <2>2 DEF HavePaths
<1> QED
  BY <1>1, <1>4, <1>5, <1>6, <1>7, <1>8, <1>9 DEF Tables

LEMMA NothingDropped ==
  ASSUME IInv, op' = op
  PROVE  Dropped({})
  BY DEF Dropped, IInv, TypeOK

LEMMA ApproveStaleKeeps ==
  ASSUME IInv, NEW l \in Plans, ApproveStale(l)
  PROVE  IInv'
<1>1. plan[l].status \in {"failed", "approval_required"} /\ op' = op
      /\ plan' = [plan EXCEPT ![l].status = "stale"] /\ plan \in [Plans -> PlanRow]
  BY DEF ApproveStale, Approvable, IInv, TypeOK
<1>2. "stale" \in PlanStatuses
  BY DEF PlanStatuses, PlanInactive
<1>3. plan' \in [Plans -> PlanRow] /\ \A k \in Plans : RowStays(k) \/ RowEnds(k)
  BY <1>1, <1>2 DEF PlanRow, RowStays, RowEnds
<1>4. Tables'
  BY <1>1, <1>3, DropKeeps, NothingDropped, TwoHalves
<1> QED
  BY <1>4, RestStays, TwoHalves DEF ApproveStale, Tables, OtherRows, IInv, TypeOK

LEMMA CancelLifecycleKeeps ==
  ASSUME IInv, NEW l \in Plans, CancelLifecycle(l)
  PROVE  IInv'
<1>1. plan[l].status = "approval_required" /\ op' = op
      /\ plan' = [plan EXCEPT ![l].status = "cancelled"] /\ plan \in [Plans -> PlanRow]
  BY DEF CancelLifecycle, IInv, TypeOK
<1>2. "cancelled" \in PlanStatuses
  BY DEF PlanStatuses, PlanInactive
<1>3. plan' \in [Plans -> PlanRow] /\ \A k \in Plans : RowStays(k) \/ RowEnds(k)
  BY <1>1, <1>2 DEF PlanRow, RowStays, RowEnds
<1>4. Tables'
  BY <1>1, <1>3, DropKeeps, NothingDropped, TwoHalves
<1> QED
  BY <1>4, RestStays, TwoHalves DEF CancelLifecycle, Tables, OtherRows, IInv, TypeOK

\* Rows of failed operations that are written as stale.
LEMMA StaleRows ==
  ASSUME IInv, NEW gone, \A o \in Ops : o \in gone => op[o].status = "failed",
         op' = [o \in Ops |-> IF o \in gone
                              THEN [op[o] EXCEPT !.status = "stale", !.version = @ + 1]
                              ELSE op[o]]
  PROVE  Dropped(gone)
<1> SUFFICES ASSUME NEW o \in Ops
             PROVE  /\ op'[o] \in OpRow
                    /\ o \notin gone => op'[o] = op[o]
                    /\ o \in gone => /\ op'[o].status = "stale" /\ op'[o].job = op[o].job
                                     /\ op'[o].src = op[o].src /\ op'[o].dst = op[o].dst
  BY DEF Dropped
<1> DEFINE r == [op[o] EXCEPT !.status = "stale", !.version = op[o].version + 1]
<1>1. op[o] \in OpRow /\ op[o].version + 1 \in Nat
  BY RowsAreTyped, Zenon
<1>2. "stale" \in OpStatuses
  BY DEF OpStatuses, OpTerminal
<1>3. /\ r \in OpRow /\ r.status = "stale" /\ r.job = op[o].job
      /\ r.src = op[o].src /\ r.dst = op[o].dst
  BY <1>1, <1>2 DEF OpRow
<1>4. op'[o] = IF o \in gone THEN r ELSE op[o]
  OBVIOUS
<1> HIDE DEF r
<1> QED
  BY <1>1, <1>3, <1>4

\* Lifecycle operations that failed are replaced by a new one.
LEMMA InsertKeeps ==
  ASSUME IInv, NEW row \in PlanRow, NEW old \in Replacements, InsertPlan(row, old),
         row.op = 0, row.src \in Paths, row.dst \in Paths, row.status # "failed"
  PROVE  Tables'
<1> DEFINE gone == {plan[l].op : l \in old}
<1>1. PICK n \in FreshPlans :
        plan' = [l \in Plans |->
                   IF l = n THEN row
                   ELSE IF l \in old THEN [plan[l] EXCEPT !.status = "stale"]
                   ELSE plan[l]]
  BY DEF InsertPlan
<1>2. /\ ActivePlans = {} /\ ActiveOps \subseteq gone
      /\ n \in Plans /\ plan[n].status = "absent"
      /\ old \subseteq Plans /\ plan \in [Plans -> PlanRow]
  <2>1. ActivePlans = {} /\ ActiveOps \subseteq gone
    BY Zenon DEF InsertPlan
  <2>2. n \in Plans /\ plan[n].status = "absent"
    BY DEF FreshPlans
  <2>3. old \subseteq Plans
    BY Zenon DEF Replacements
  <2>4. plan \in [Plans -> PlanRow]
    BY DEF IInv, TypeOK
  <2> QED
    BY <2>1, <2>2, <2>3, <2>4, Zenon
<1>3. \A l \in old : plan[l].status = "failed" /\ op[plan[l].op].status = "failed"
  BY DEF InsertPlan, Replaceable
<1>4. Dropped(gone)
  <2>1. \A o \in Ops : o \in gone => op[o].status = "failed"
    BY <1>3
  <2>2. op' = [o \in Ops |-> IF o \in gone
                            THEN [op[o] EXCEPT !.status = "stale", !.version = @ + 1]
                            ELSE op[o]]
    BY DEF InsertPlan
  <2> HIDE DEF gone
  <2> QED
    BY <2>1, <2>2, StaleRows
<1> HIDE DEF gone
<1>5. "stale" \in PlanStatuses
  BY DEF PlanStatuses, PlanInactive
<1>6. plan' \in [Plans -> PlanRow]
      /\ \A l \in Plans : /\ l = n => plan'[l] = row
                          /\ l # n => plan'[l] = IF l \in old
                                                THEN [plan[l] EXCEPT !.status = "stale"]
                                                ELSE plan[l]
  <2>1. \A l \in Plans : [plan[l] EXCEPT !.status = "stale"] \in PlanRow
    BY <1>2, <1>5 DEF PlanRow
  <2> QED
    BY <1>1, <1>2, <2>1
<1>7. ASSUME NEW l \in Plans
      PROVE  RowStays(l) \/ RowEnds(l) \/ RowIsNew(l, gone)
  <2>1. CASE l = n
    <3>1. plan[l].op = 0
      BY <1>2, <2>1 DEF LinksFit, Unlinked, IInv
    <3>2. \A k \in Plans : k # l => ~Active(k)'
      <4>1. \A k \in Plans : plan[k].status \in PlanInactive
        BY <1>2 DEF ActivePlans
      <4>2. \A k \in Plans : k # l => plan'[k].status \in {"stale", plan[k].status}
        BY <1>2, <1>6, <2>1 DEF PlanRow
      <4> QED
        BY <4>1, <4>2 DEF Active, PlanInactive
    <3> QED
      BY <1>2, <1>6, <2>1, <3>1, <3>2 DEF RowIsNew
  <2>2. CASE l # n /\ l \in old
    BY <1>2, <1>3, <1>6, <2>2 DEF RowEnds, PlanRow
  <2>3. CASE l # n /\ l \notin old
    BY <1>6, <2>3 DEF RowStays
  <2> QED
    BY <2>1, <2>2, <2>3
<1> QED
  BY <1>4, <1>6, <1>7, DropKeeps, TwoHalves

LEMMA PathForms ==
  ASSUME NEW p \in Paths
  PROVE  ClosedForm(p) \in Paths /\ OpenForm(p) \in Paths
  BY DEF Paths, Places, ClosedForm, OpenForm

LEMMA PlanCloseKeeps ==
  ASSUME IInv, NEW normal \in BOOLEAN, NEW old \in Replacements, PlanClose(normal, old)
  PROVE  IInv'
<1> DEFINE st == IF normal /\ ~complete THEN "blocked" ELSE "approval_required"
           row == [NoPlan EXCEPT
                     !.status = st, !.type = "close", !.normal = normal,
                     !.caseVersion = case.version, !.locVersion = loc.version,
                     !.src = loc.path, !.dst = ClosedForm(loc.path)]
<1>1. InsertPlan(row, old) /\ UNCHANGED <<case, complete, loc, disk, evidence, applied, hands>>
  BY DEF PlanClose
<1>2. /\ loc.path \in Paths /\ case.version \in Nat /\ loc.version \in Nat
      /\ ClosedForm(loc.path) \in Paths
  BY PathForms DEF IInv, TypeOK
<1>3. st \in PlanStatuses /\ st # "failed"
  BY DEF PlanStatuses, PlanInactive
<1> HIDE DEF st
<1>4. row \in PlanRow /\ row.op = 0 /\ row.status = st
      /\ row.src = loc.path /\ row.dst = ClosedForm(loc.path)
  BY <1>2, <1>3 DEF NoPlan, PlanRow
<1> HIDE DEF row
<1>5. Tables'
  BY <1>1, <1>2, <1>3, <1>4, InsertKeeps
<1> QED
  BY <1>1, <1>5, RestStays, TwoHalves DEF Tables, OtherRows, IInv, TypeOK

LEMMA PlanReopenKeeps ==
  ASSUME IInv, NEW old \in Replacements, PlanReopen(old)
  PROVE  IInv'
<1> DEFINE row == [NoPlan EXCEPT
                     !.status = "approval_required", !.type = "reopen",
                     !.caseVersion = case.version, !.locVersion = loc.version,
                     !.src = loc.path, !.dst = ReopenTarget]
<1>1. InsertPlan(row, old) /\ UNCHANGED <<case, complete, loc, disk, evidence, applied, hands>>
  BY DEF PlanReopen
<1>2. /\ loc.path \in Paths /\ case.version \in Nat /\ loc.version \in Nat
      /\ ReopenTarget \in Paths
  BY PathForms DEF IInv, TypeOK, ReopenTarget, HomeElsewhere
<1>3. "approval_required" \in PlanStatuses
  BY DEF PlanStatuses
<1>4. row \in PlanRow /\ row.op = 0 /\ row.status = "approval_required"
      /\ row.src = loc.path /\ row.dst = ReopenTarget
  BY <1>2, <1>3 DEF NoPlan, PlanRow
<1> HIDE DEF row
<1>5. Tables'
  BY <1>1, <1>2, <1>4, InsertKeeps
<1> QED
  BY <1>1, <1>5, RestStays, TwoHalves DEF Tables, OtherRows, IInv, TypeOK

-----------------------------------------------------------------------------
(* Everybody else                                                          *)

LEMMA TablesStay ==
  ASSUME IInv, UNCHANGED <<op, plan>>
  PROVE  Tables'
  BY DEF IInv, Tables, TypeOK, OneAtATime, PlanFollowsOperation, JobServesOperation, LinksFit,
         FailedPairAlone, HavePaths, Reserving, Active, Live

LEMMA ScanInventoryKeeps ==
  ASSUME IInv, ScanInventory
  PROVE  IInv'
<1> DEFINE place == loc.path[2]
           after == IF loc.path \in disk /\ ~Busy THEN place ELSE case.status
           release(o) ==
             /\ op[o].status = "failed" /\ ~Live(o)
             /\ loc.status = "verified" /\ loc.path = op[o].dst /\ loc.path \in disk
             /\ \E l \in Plans : /\ plan[l].op = o /\ plan[l].status = "failed"
                                 /\ After(l) = after
           gone == {o \in Ops : release(o)}
<1>1. /\ op' = [o \in Ops |-> IF o \in gone
                              THEN [op[o] EXCEPT !.status = "stale", !.version = @ + 1]
                              ELSE op[o]]
      /\ case' = IF after = case.status THEN case
                 ELSE [case EXCEPT !.status = after, !.version = @ + 1]
      /\ UNCHANGED <<complete, loc, plan, disk, evidence, applied, hands>>
  BY DEF ScanInventory
<1>2. \A o \in Ops : o \in gone => op[o].status = "failed"
  OBVIOUS
<1>3. place \in {"open", "closed"}
  BY DEF IInv, TypeOK, Paths, Places
<1> HIDE DEF gone
<1>4. Tables'
  <2>1. Dropped(gone)
    BY <1>1, <1>2, StaleRows
  <2>2. \A l \in Plans : RowStays(l)
    BY <1>1 DEF RowStays
  <2>3. plan' \in [Plans -> PlanRow]
    BY <1>1 DEF IInv, TypeOK
  <2> QED
    BY <2>1, <2>2, <2>3, DropKeeps, TwoHalves
<1>5. case' \in [status : {"open", "closed"}, version : Nat \ {0},
                 home : Paths \cup {NoPath}]
  <2>1. after \in {"open", "closed"}
    BY <1>3 DEF IInv, TypeOK
  <2>2. /\ case \in [status : {"open", "closed"}, version : Nat \ {0},
                     home : Paths \cup {NoPath}]
        /\ case.version + 1 \in Nat \ {0}
    BY DEF IInv, TypeOK
  <2> HIDE DEF after
  <2>3. case' \in {case, [case EXCEPT !.status = after, !.version = case.version + 1]}
    BY <1>1
  <2> QED
    BY <2>1, <2>2, <2>3
<1>6. OtherRows'
  BY <1>1, <1>5 DEF OtherRows, IInv, TypeOK
<1> QED
  BY <1>4, <1>6, TwoHalves DEF Tables, OtherRows, IInv, TypeOK

LEMMA OtherKeeps ==
  ASSUME IInv,
         \/ \E p, q \in Paths : MoveByHand(p, q)
         \/ \E p \in Paths : AssignLocation(p) \/ Relocate(p)
         \/ VerifyLocation \/ EditCase \/ RequirementsChange
         \/ \E o \in Ops : AgentWritesEvidence(o)
         \/ UNCHANGED vars
  PROVE  IInv'
<1>1. UNCHANGED <<op, plan>>
  BY DEF MoveByHand, AssignLocation, Relocate, VerifyLocation, EditCase, RequirementsChange,
         AgentWritesEvidence, vars
<1>2. OtherRows
  BY TwoHalves
<1>3. loc.version + 1 \in Nat \ {0} /\ case.version + 1 \in Nat \ {0}
  BY <1>2 DEF OtherRows
<1>4. OtherRows'
  <2>1. CASE \E p, q \in Paths : MoveByHand(p, q)
    BY <1>2, <2>1, SagaAssumption DEF OtherRows, MoveByHand
  <2>2. CASE \E p \in Paths : AssignLocation(p)
    BY <1>2, <1>3, <2>2, SagaAssumption DEF OtherRows, AssignLocation, Given
  <2>3. CASE \E p \in Paths : Relocate(p)
    BY <1>2, <1>3, <2>3 DEF OtherRows, Relocate, Given
  <2>4. CASE VerifyLocation
    BY <1>2, <2>4 DEF OtherRows, VerifyLocation
  <2>5. CASE EditCase
    BY <1>2, <1>3, <2>5 DEF OtherRows, EditCase
  <2>6. CASE RequirementsChange
    BY <1>2, <2>6 DEF OtherRows, RequirementsChange
  <2>7. CASE \E o \in Ops : AgentWritesEvidence(o)
    BY <1>2, <2>7 DEF OtherRows, AgentWritesEvidence
  <2>8. CASE UNCHANGED vars
    BY <1>2, <2>8 DEF OtherRows, vars
  <2> QED
    BY <2>1, <2>2, <2>3, <2>4, <2>5, <2>6, <2>7, <2>8
<1> QED
  BY <1>1, <1>4, TablesStay, TwoHalves DEF Tables, OtherRows, IInv, TypeOK

-----------------------------------------------------------------------------
LEMMA NextKeeps ==
  ASSUME IInv, [Next]_vars
  PROVE  IInv'
<1>1. CASE OfficeStep
  BY <1>1, CreatePlanKeeps, ApprovePlanKeeps, CancelOperationKeeps, PlanReopenKeeps,
     PlanCloseKeeps, ApproveStaleKeeps, ApproveFirstKeeps, ApproveRetryKeeps,
     CancelLifecycleKeeps DEF OfficeStep
<1>2. CASE QueueStep
  BY <1>2, ClaimKeeps, ClaimExhaustedKeeps, HeartbeatKeeps DEF QueueStep
<1>3. CASE AgentStep
  BY <1>3, AgentKeeps, OtherKeeps DEF AgentStep
<1>4. CASE ReportStep
  BY <1>4, ReportMovedKeeps, ReportUnwantedKeeps, ReportMissingKeeps, ReportCleanedKeeps,
     ReportRetryKeeps, ReportLastFailureKeeps, ReportGivesUpKeeps DEF ReportStep
<1>5. CASE OtherStep
  BY <1>5, ScanInventoryKeeps, OtherKeeps DEF OtherStep
<1>6. CASE UNCHANGED vars
  BY <1>6, OtherKeeps
<1> QED
  BY <1>1, <1>2, <1>3, <1>4, <1>5, <1>6 DEF Next

THEOREM Inductive == Spec => []IInv
  BY InitIInv, NextKeeps, PTL DEF Spec

\* The rows are well typed and no job is claimed more often than max_attempts.
THEOREM TypeCorrect == Spec => []TypeOK
<1>1. IInv => TypeOK
  BY DEF IInv
<1> QED
  BY <1>1, Inductive, PTL

\* The commands' own questions keep a case from having two file operations or
\* two lifecycle operations under way.
THEOREM OneOperationAtATime == Spec => []OneAtATime
<1>1. IInv => OneAtATime
  BY DEF IInv
<1> QED
  BY <1>1, Inductive, PTL

\* A lifecycle operation tells of its file operation what is true.
THEOREM PlansFollowOperations == Spec => []PlanFollowsOperation
<1>1. IInv => PlanFollowsOperation
  BY DEF IInv
<1> QED
  BY <1>1, Inductive, PTL

\* An operation waits for an agent exactly while a job of the right kind and
\* version lives for it.
THEOREM JobsServeOperations == Spec => []JobServesOperation
<1>1. IInv => JobServesOperation
  BY DEF IInv
<1> QED
  BY <1>1, Inductive, PTL

-----------------------------------------------------------------------------
(* When the status of a case changes                                       *)

\* The status of a case changes with the report of a move or with a scan.
LEMMA WhoChangesStatus ==
  ASSUME [Next]_vars, case'.status # case.status, OtherRows
  PROVE  ScanInventory \/ \E o \in Ops : ReportMoved(o)
<1>1. case' # case
  OBVIOUS
<1>2. ~EditCase
  BY DEF EditCase, OtherRows
<1>3. ~OfficeStep
  BY <1>1 DEF OfficeStep, CreatePlan, ApprovePlan, CancelOperation, PlanReopen, PlanClose,
              ApproveStale, ApproveFirst, ApproveRetry, CancelLifecycle
<1>4. ~QueueStep /\ ~AgentStep
  BY <1>1 DEF QueueStep, Claim, ClaimExhausted, Heartbeat, AgentStep, AgentWritesEvidence,
              AgentRenames, AgentCopies, AgentInspects, AgentCleans
<1>5. OtherStep => ScanInventory
  BY <1>1, <1>2 DEF OtherStep, MoveByHand, AssignLocation, Relocate, VerifyLocation,
                    RequirementsChange
<1>6. ReportStep => \E o \in Ops : ReportMoved(o)
  BY <1>1 DEF ReportStep, ReportUnwanted, ReportMissing, ReportCleaned, ReportRetry,
              ReportLastFailure, ReportGivesUp
<1> QED
  BY <1>1, <1>3, <1>4, <1>5, <1>6 DEF Next, vars

\* The status of a case follows its lifecycle operation, in the transaction
\* that publishes the destination, or the place of an idle case's folder.
THEOREM StatusFollows == Spec => StatusFollowsFolder
<1> DEFINE ByMove ==
      \E l \in Plans :
        /\ plan[l].status \in {"queued", "moving"}
        /\ plan'[l].status \in {"closed", "reopened", "cleanup_pending"}
        /\ case.version = plan[l].caseVersion
        /\ case'.status = IF plan[l].type = "close" THEN "closed" ELSE "open"
        /\ loc'.path = plan[l].dst /\ loc'.status = "verified"
        /\ plan[l].type = "close" /\ plan[l].normal => complete
    ByScan ==
      /\ UNCHANGED <<loc, plan, disk>>
      /\ loc.path \in disk /\ case'.status = loc.path[2]
      /\ \A l \in Plans : plan[l].status \in PlanInactive
<1>1. ASSUME IInv, [Next]_vars, case'.status # case.status
      PROVE  ByMove \/ ByScan
  <2>1. CASE ScanInventory
    <3>1. case'.status = (IF loc.path \in disk /\ ~Busy THEN loc.path[2] ELSE case.status)
          /\ UNCHANGED <<loc, plan, disk>>
      <4> DEFINE after == IF loc.path \in disk /\ ~Busy THEN loc.path[2] ELSE case.status
      <4>1. /\ case' = IF after = case.status THEN case
                       ELSE [case EXCEPT !.status = after, !.version = @ + 1]
            /\ UNCHANGED <<loc, plan, disk>>
        BY <2>1 DEF ScanInventory
      <4>2. case \in [status : {"open", "closed"}, version : Nat \ {0},
                      home : Paths \cup {NoPath}]
        BY <1>1 DEF IInv, TypeOK
      <4> HIDE DEF after
      <4>3. case'.status = after
        BY <4>1, <4>2
      <4> QED
        BY <4>1, <4>3 DEF after
    <3>2. loc.path \in disk /\ ~Busy /\ case'.status = loc.path[2]
      BY <1>1, <3>1
    <3>3. \A l \in Plans : plan[l].status \in PlanInactive
      BY <3>2 DEF Busy, ActivePlans
    <3> QED
      BY <3>1, <3>2, <3>3
  <2>2. ASSUME NEW o \in Ops, ReportMoved(o)
        PROVE  ByMove
    <3> DEFINE strategy == ResultStrategy(o)
    <3>1. /\ Live(o) /\ ~op[o].job.cleanup /\ FinalizeLifecycle(o, strategy)
          /\ LocationAgrees(o)
          /\ loc' = IF RecoveredLocation(o) THEN loc
                    ELSE [path |-> op[o].dst, status |-> "verified",
                          version |-> loc.version + 1, imported |-> FALSE, given |-> loc.given]
      BY <2>2 DEF ReportMoved, Leased, Live
    <3>2. strategy \in Strategies
      BY <1>1, <2>2, StrategyTyped DEF ReportMoved
    <3> HIDE DEF strategy
    <3>3. PICK l \in Plans :
            /\ Done(o, l)
            /\ case' = [status |-> After(l), version |-> case.version + 1,
                        home |-> IF plan[l].type = "close" THEN op[o].src ELSE case.home]
            /\ plan' = [plan EXCEPT ![l].status =
                          IF strategy = "staged_copy" THEN "cleanup_pending" ELSE Finished(l)]
      BY <1>1, <3>1, <3>2, MoveIsTold
    <3>4. plan[l].op = o /\ plan[l].op # 0 /\ CaseUnchanged(l) /\ RequirementsHold(l)
      BY <3>3 DEF Done, Waiting, CaseFollows, Ops
    <3>5. plan[l].status \in {"queued", "moving"}
      BY <1>1, <3>1, <3>4, LinkedToLive, TwoHalves
    <3>6. plan'[l].status \in {"closed", "reopened", "cleanup_pending"}
      BY <1>1, <3>3 DEF Finished, IInv, TypeOK, PlanRow
    <3>7. loc'.path = plan[l].dst /\ loc'.status = "verified"
      <4>1. op[o].dst = plan[l].dst
        BY <1>1, <3>4 DEF IInv, LinksFit
      <4> QED
        BY <3>1, <4>1 DEF LocationAgrees, RecoveredLocation
    <3>8. case'.status = IF plan[l].type = "close" THEN "closed" ELSE "open"
      BY <3>3 DEF After
    <3> QED
      BY <3>4, <3>5, <3>6, <3>7, <3>8 DEF CaseUnchanged, RequirementsHold
  <2> QED
    BY <1>1, <2>1, <2>2, WhoChangesStatus, TwoHalves
<1>2. IInv /\ [Next]_vars => [case'.status # case.status => ByMove \/ ByScan]_vars
  BY <1>1
<1> QED
  BY <1>2, Inductive, PTL DEF Spec, StatusFollowsFolder

-----------------------------------------------------------------------------
(* Where the folder stands                                                 *)

\* The agent that holds the job of o has found or done something since.
Acted(o) ==
  Live(o) /\ op[o].job.found \in {"renamed", "copied", "recovered", "matched", "cleaned"}

\* Evidence is written for renames, and a rename is found by it.
EvidenceFits ==
  \A o \in Ops :
    /\ o \in evidence => op[o].status # "absent" /\ op[o].payload = "atomic_rename"
    /\ Acted(o) /\ op[o].job.found \in {"renamed", "recovered"} => o \in evidence

\* Cleaning up after a copy never removes the copy.
CopiesMove ==
  \A o \in Ops :
    \/ op[o].payload = "staged_copy" \/ op[o].status = "cleanup_pending"
    \/ Acted(o) /\ op[o].job.found = "copied"
    => op[o].src # op[o].dst

\* Later operations are planned from later versions of the location.
VersionsFit ==
  \A o \in Ops :
    /\ op[o].status \in {"ready", "cleanup_pending"} => op[o].locVersion < loc.version
    /\ op[o].status = "ready" =>
         \A r \in Ops : Reserving(r) => op[o].locVersion < op[r].locVersion

\* What an agent has found is still there when it reports.
FoundFits ==
  hands = 0 =>
    \A o \in Ops :
      /\ Acted(o) => op[o].dst \in disk
      /\ Acted(o) /\ op[o].job.found = "cleaned" => op[o].src \notin disk
      /\ op[o].status = "cleanup_pending" => loc.path = op[o].dst /\ op[o].dst \in disk

\* LocationHoldsFolder and CopyLeavesNoSource, without asking for a case at rest.
FolderAtRest ==
  hands = 0 /\ (\A o \in applied : op[o].status = "ready") =>
    /\ loc.path \in disk
    /\ \A o \in Ops :
         /\ op[o].status = "ready" /\ op[o].payload = "staged_copy"
         /\ loc.version = op[o].locVersion + 1
         => op[o].src \notin disk

\* Every move that was reported is still told by its row, and none was planned from
\* a location that is yet to come.
AssignmentsFit ==
  /\ loc.given.version <= loc.version
  /\ \A o \in Ops : op[o].manifest => op[o].status # "absent"
  /\ AssignmentsStand

FolderInv ==
  /\ EvidenceFits
  /\ CopiesMove
  /\ VersionsFit
  /\ FoundFits
  /\ FolderAtRest
  /\ AssignmentsFit

LEMMA InitFolderInv == Init => FolderInv
<1> SUFFICES ASSUME Init PROVE FolderInv
  OBVIOUS
<1>1. /\ \A o \in Ops : op[o].status = "absent" /\ ~Live(o) /\ op[o].payload = "atomic_rename"
      /\ evidence = {} /\ loc.path \in disk
      /\ loc.given.path = loc.path /\ loc.given.version = 1 /\ loc.version = 1
      /\ \A o \in Ops : ~op[o].manifest
  BY DEF Init, NoOp, NoJob, Live
<1> QED
  BY <1>1 DEF FolderInv, EvidenceFits, CopiesMove, VersionsFit, FoundFits, FolderAtRest, Acted,
              AssignmentsFit, AssignmentsStand

\* The row of o changes in nothing these parts look at, or o is inserted.
Calm(o) ==
  /\ op'[o].src = op[o].src /\ op'[o].dst = op[o].dst
  /\ op'[o].payload = op[o].payload /\ op'[o].locVersion = op[o].locVersion
  /\ op'[o].manifest = op[o].manifest
  /\ op'[o].status \in {"ready", "cleanup_pending"} => op[o].status = op'[o].status
  /\ Reserving(o)' => Reserving(o)
  /\ op'[o].status = "absent" => op[o].status = "absent"
  /\ Acted(o)' => Acted(o) /\ op'[o].job.found = op[o].job.found

Inserted(o) ==
  /\ op[o].status = "absent"
  /\ op'[o].status \in {"planned", "queued"}
  /\ op'[o].locVersion = loc.version
  /\ op'[o].payload = "staged_copy" => op'[o].src # op'[o].dst
  /\ op'[o].job.found = "nothing" /\ ~op'[o].manifest

LEMMA CalmKeeps ==
  ASSUME IInv, FolderInv, UNCHANGED <<loc, disk, evidence, applied, hands>>,
         \A o \in Ops : Calm(o) \/ Inserted(o)
  PROVE  FolderInv'
<1> USE DEF FolderInv
<1>0. /\ \A o \in Ops : Inserted(o) => ~Acted(o)'
      /\ \A o \in Ops : op'[o].status \in {"ready", "cleanup_pending"} =>
                          Calm(o) /\ op[o].status = op'[o].status
      /\ evidence \in SUBSET Ops /\ applied \in SUBSET Ops
  BY DEF Inserted, Calm, Acted, IInv, TypeOK
<1>1. EvidenceFits'
  BY <1>0 DEF EvidenceFits, Calm, Inserted
<1>2. CopiesMove'
  BY <1>0 DEF CopiesMove, Calm, Inserted
<1>3. VersionsFit'
  BY <1>0 DEF VersionsFit, Calm, Inserted
<1>4. FoundFits'
  BY <1>0 DEF FoundFits, Calm
<1>5. FolderAtRest'
  BY <1>0 DEF FolderAtRest, Calm
<1>6. AssignmentsFit'
  BY DEF AssignmentsFit, AssignmentsStand, Calm, Inserted
<1> QED
  BY <1>1, <1>2, <1>3, <1>4, <1>5, <1>6

\* A row whose status, version and job are written is calm where neither is
\* the end of a move.
LEMMA CalmRow ==
  ASSUME op \in [Ops -> OpRow], NEW i \in Ops, NEW r, op' = [op EXCEPT ![i] = r],
         r.src = op[i].src, r.dst = op[i].dst, r.payload = op[i].payload,
         r.locVersion = op[i].locVersion, r.manifest = op[i].manifest,
         r.status = op[i].status \/ r.status \notin {"absent", "ready", "cleanup_pending"},
         r.status \notin OpTerminal \cup {"absent"} => Reserving(i),
         r.job.status \in {"pending", "leased"} =>
           \/ r.job.found = "nothing"
           \/ Live(i) /\ r.job.found = op[i].job.found
  PROVE  \A o \in Ops : Calm(o)
<1> SUFFICES ASSUME NEW o \in Ops PROVE Calm(o)
  OBVIOUS
<1>1. CASE o # i
  BY <1>1 DEF Calm, Reserving, Acted, Live
<1>2. CASE o = i
  <2>1. op'[o] = r
    BY <1>2
  <2> QED
    BY <1>2, <2>1 DEF Calm, Reserving, Acted, Live
<1> QED
  BY <1>1, <1>2

LEMMA SameRows ==
  ASSUME op' = op
  PROVE  \A o \in Ops : Calm(o)
  BY DEF Calm, Reserving, Acted, Live

LEMMA SettledCalm ==
  ASSUME IInv, NEW i \in Ops, Live(i), NEW to, NEW ended, op' = Settled(i, to, ended),
         to = op[i].status \/ to \notin {"absent", "ready", "cleanup_pending"}
  PROVE  \A o \in Ops : Calm(o)
<1> DEFINE r == SettledRow(i, to, ended)
<1>1. op[i] \in OpRow /\ op[i].job \in JobRow /\ op \in [Ops -> OpRow]
  BY RowsAreTyped DEF IInv, TypeOK
<1>2. /\ r.status = to /\ r.job.found = op[i].job.found
      /\ r.src = op[i].src /\ r.dst = op[i].dst /\ r.payload = op[i].payload
      /\ r.locVersion = op[i].locVersion /\ r.manifest = op[i].manifest
  BY <1>1 DEF OpRow, JobRow, SettledRow
<1>3. op' = [op EXCEPT ![i] = r]
  BY <1>1 DEF Settled, SettledRow
<1>4. Reserving(i)
  BY DEF IInv, JobServesOperation, Reserving, OpTerminal
<1> HIDE DEF r
<1> QED
  BY <1>1, <1>2, <1>3, <1>4, CalmRow

\* Failed operations that are replaced or released.
LEMMA StaleCalm ==
  ASSUME IInv, NEW gone,
         op' = [o \in Ops |-> IF o \in gone
                              THEN [op[o] EXCEPT !.status = "stale", !.version = @ + 1]
                              ELSE op[o]]
  PROVE  \A o \in Ops : Calm(o)
<1> SUFFICES ASSUME NEW o \in Ops PROVE Calm(o)
  OBVIOUS
<1> DEFINE r == [op[o] EXCEPT !.status = "stale", !.version = op[o].version + 1]
<1>1. op'[o] = IF o \in gone THEN r ELSE op[o]
  OBVIOUS
<1>2. op[o] \in OpRow
  BY RowsAreTyped
<1>3. /\ r.status = "stale" /\ r.job = op[o].job /\ r.src = op[o].src /\ r.dst = op[o].dst
      /\ r.payload = op[o].payload /\ r.locVersion = op[o].locVersion
      /\ r.manifest = op[o].manifest
  BY <1>2 DEF OpRow
<1> HIDE DEF r
<1> QED
  BY <1>1, <1>3 DEF Calm, Reserving, Acted, Live, OpTerminal

LEMMA CommandsKeepFolder ==
  ASSUME IInv, FolderInv, OfficeStep
  PROVE  FolderInv'
<1>1. op \in [Ops -> OpRow] /\ \A o \in Ops : op[o] \in OpRow /\ op[o].job \in JobRow
  BY RowsAreTyped DEF IInv, TypeOK
<1>2. UNCHANGED <<loc, disk, evidence, applied, hands>>
  BY DEF OfficeStep, CreatePlan, ApprovePlan, CancelOperation, PlanReopen, PlanClose,
         ApproveStale, ApproveFirst, ApproveRetry, CancelLifecycle
<1>3. ASSUME NEW i \in FreshOps, NEW r, op' = [op EXCEPT ![i] = r],
             r.status \in {"planned", "queued"}, r.locVersion = loc.version,
             r.payload = StrategyFor(r.src, r.dst), r.job.found = "nothing", ~r.manifest
      PROVE  \A o \in Ops : Calm(o) \/ Inserted(o)
  <2> SUFFICES ASSUME NEW o \in Ops PROVE Calm(o) \/ Inserted(o)
    OBVIOUS
  <2>1. CASE o = i
    BY <1>1, <1>3, <2>1 DEF Inserted, FreshOps, StrategyFor
  <2>2. CASE o # i
    <3>1. op'[o] = op[o]
      BY <1>1, <1>3, <2>2 DEF FreshOps
    <3> QED
      BY <3>1 DEF Calm, Reserving, Acted, Live
  <2> QED
    BY <2>1, <2>2
<1>4. ASSUME NEW p \in Paths, CreatePlan(p)
      PROVE  \A o \in Ops : Calm(o) \/ Inserted(o)
  <2> DEFINE r == [NoOp EXCEPT !.status = "planned", !.src = loc.path, !.dst = p,
                               !.locVersion = loc.version, !.version = 1,
                               !.strategy = StrategyFor(loc.path, p),
                               !.payload = StrategyFor(loc.path, p)]
  <2>1. PICK i \in FreshOps : op' = [op EXCEPT ![i] = r]
    BY <1>4 DEF CreatePlan
  <2>2. /\ r.status = "planned" /\ r.locVersion = loc.version /\ r.src = loc.path /\ r.dst = p
        /\ r.payload = StrategyFor(loc.path, p) /\ r.job.found = "nothing" /\ ~r.manifest
    BY DEF NoOp, NoJob
  <2> HIDE DEF r
  <2> QED
    BY <1>3, <2>1, <2>2
<1>5. ASSUME NEW o \in Ops, ApprovePlan(o)
      PROVE  \A i \in Ops : Calm(i)
  <2> DEFINE v == op[o].version + 1
             queued == [op[o] EXCEPT !.status = "queued", !.version = v,
                                     !.job = FreshJob(FALSE, v)]
             stale == [op[o] EXCEPT !.status = "stale", !.version = v]
  <2>1. op' = [op EXCEPT ![o] = IF LocationUnchanged(op[o]) THEN queued ELSE stale]
        /\ op[o].status = "planned"
    BY <1>5 DEF ApprovePlan
  <2>2. /\ queued.status = "queued" /\ queued.job.found = "nothing"
        /\ queued.src = op[o].src /\ queued.dst = op[o].dst /\ queued.payload = op[o].payload
        /\ queued.locVersion = op[o].locVersion /\ queued.manifest = op[o].manifest
        /\ stale.status = "stale" /\ stale.job = op[o].job
        /\ stale.src = op[o].src /\ stale.dst = op[o].dst /\ stale.payload = op[o].payload
        /\ stale.locVersion = op[o].locVersion /\ stale.manifest = op[o].manifest
    BY <1>1 DEF OpRow, FreshJob
  <2>3. Reserving(o)
    BY <2>1 DEF Reserving, OpTerminal
  <2> HIDE DEF queued, stale
  <2> QED
    BY <1>1, <2>1, <2>2, <2>3, CalmRow DEF Live
<1>6. ASSUME NEW o \in Ops, CancelOperation(o)
      PROVE  \A i \in Ops : Calm(i)
  <2> DEFINE e == IF op[o].job.status = "absent" THEN "absent" ELSE "cancelled"
             r == [op[o] EXCEPT !.status = "cancelled", !.version = @ + 1, !.job.status = e]
  <2>1. op' = [op EXCEPT ![o] = r]
    BY <1>1, <1>6 DEF CancelOperation
  <2>2. /\ r.status = "cancelled" /\ r.job.status = e
        /\ r.src = op[o].src /\ r.dst = op[o].dst /\ r.payload = op[o].payload
        /\ r.locVersion = op[o].locVersion /\ r.manifest = op[o].manifest
    BY <1>1 DEF OpRow, JobRow
  <2> HIDE DEF r
  <2> QED
    BY <1>1, <2>1, <2>2, CalmRow DEF OpTerminal
<1>7. ASSUME NEW row, NEW old, InsertPlan(row, old)
      PROVE  \A i \in Ops : Calm(i)
  BY <1>7, StaleCalm DEF InsertPlan
<1>8. ASSUME NEW l \in Plans, ApproveFirst(l)
      PROVE  \A o \in Ops : Calm(o) \/ Inserted(o)
  <2> DEFINE s == StrategyFor(plan[l].src, plan[l].dst)
             r == [NoOp EXCEPT !.status = "queued", !.version = 2,
                     !.src = plan[l].src, !.dst = plan[l].dst,
                     !.locVersion = plan[l].locVersion,
                     !.strategy = s, !.payload = s, !.job = FreshJob(FALSE, 2)]
  <2>1. PICK i \in FreshOps : op' = [op EXCEPT ![i] = r]
    BY <1>8 DEF ApproveFirst
  <2>2. /\ r.status = "queued" /\ r.locVersion = plan[l].locVersion
        /\ r.src = plan[l].src /\ r.dst = plan[l].dst /\ r.payload = s
        /\ r.job.found = "nothing" /\ ~r.manifest
    BY DEF NoOp, FreshJob
  <2>3. plan[l].locVersion = loc.version
    BY <1>8 DEF ApproveFirst, LocationUnchanged
  <2> HIDE DEF r
  <2> QED
    BY <1>3, <2>1, <2>2, <2>3
<1>9. ASSUME NEW l \in Plans, ApproveRetry(l)
      PROVE  \A i \in Ops : Calm(i)
  <2> DEFINE o == plan[l].op
             r == [op[o] EXCEPT !.status = "queued", !.job = FreshJob(FALSE, op[o].version)]
  <2>1. o \in Ops /\ op[o].status = "failed"
    BY <1>9 DEF ApproveRetry, IInv, TypeOK, PlanRow
  <2>2. op' = [op EXCEPT ![o] = r]
    BY <1>1, <1>9, <2>1 DEF ApproveRetry
  <2>3. /\ r.status = "queued" /\ r.job.found = "nothing"
        /\ r.src = op[o].src /\ r.dst = op[o].dst /\ r.payload = op[o].payload
        /\ r.locVersion = op[o].locVersion /\ r.manifest = op[o].manifest
    BY <1>1, <2>1 DEF OpRow, FreshJob
  <2>4. Reserving(o)
    BY <2>1 DEF Reserving, OpTerminal
  <2> HIDE DEF r, o
  <2> QED
    BY <1>1, <2>1, <2>2, <2>3, <2>4, CalmRow
<1>10. ASSUME NEW l \in Plans, ApproveStale(l) \/ CancelLifecycle(l)
       PROVE  \A i \in Ops : Calm(i)
  BY <1>10, SameRows DEF ApproveStale, CancelLifecycle
<1>11. \A o \in Ops : Calm(o) \/ Inserted(o)
  BY <1>4, <1>5, <1>6, <1>7, <1>8, <1>9, <1>10 DEF OfficeStep, PlanReopen, PlanClose
<1> QED
  BY <1>2, <1>11, CalmKeeps

LEMMA QueueKeepsFolder ==
  ASSUME IInv, FolderInv, QueueStep
  PROVE  FolderInv'
<1>1. op \in [Ops -> OpRow] /\ \A o \in Ops : op[o] \in OpRow /\ op[o].job \in JobRow
  BY RowsAreTyped DEF IInv, TypeOK
<1>2. UNCHANGED <<loc, disk, evidence, applied, hands>>
  BY DEF QueueStep, Claim, ClaimExhausted, Heartbeat
<1>3. \A o \in Ops : Live(o) =>
        /\ Reserving(o)
        /\ Stage(o) \in {"queued", "cleanup_pending"}
        /\ Stage(o) = "cleanup_pending" => op[o].status = "cleanup_pending"
  BY <1>1 DEF IInv, JobServesOperation, Reserving, OpTerminal, Stage, JobRow
<1>4. ASSUME NEW o \in Ops, Claim(o)
      PROVE  \A i \in Ops : Calm(i)
  <2> DEFINE j == LeasedJob(o)
             r == [op[o] EXCEPT !.job = j, !.status = Stage(o)]
  <2>1. op' = [op EXCEPT ![o] = r] /\ Live(o)
    BY <1>1, <1>4 DEF Claim
  <2>2. j.found = "nothing"
    BY <1>1 DEF LeasedJob, JobRow
  <2> HIDE DEF j
  <2>3. /\ r.status = Stage(o) /\ r.job = j
        /\ r.src = op[o].src /\ r.dst = op[o].dst /\ r.payload = op[o].payload
        /\ r.locVersion = op[o].locVersion /\ r.manifest = op[o].manifest
    BY <1>1 DEF OpRow
  <2> HIDE DEF r
  <2> QED
    BY <1>1, <1>3, <2>1, <2>2, <2>3, CalmRow
<1>5. ASSUME NEW o \in Ops, ClaimExhausted(o)
      PROVE  \A i \in Ops : Calm(i)
  BY <1>5, SettledCalm DEF ClaimExhausted, ExhaustedStatus
<1>6. ASSUME NEW o \in Ops, Heartbeat(o)
      PROVE  \A i \in Ops : Calm(i)
  <2> DEFINE r == [op[o] EXCEPT !.status = "applying"]
  <2>1. op' = [op EXCEPT ![o] = r] /\ Live(o)
    BY <1>1, <1>6 DEF Heartbeat, Leased, Live
  <2>2. /\ r.status = "applying" /\ r.job = op[o].job
        /\ r.src = op[o].src /\ r.dst = op[o].dst /\ r.payload = op[o].payload
        /\ r.locVersion = op[o].locVersion /\ r.manifest = op[o].manifest
    BY <1>1 DEF OpRow
  <2> HIDE DEF r
  <2> QED
    BY <1>1, <1>3, <2>1, <2>2, CalmRow
<1>7. \A o \in Ops : Calm(o)
  BY <1>4, <1>5, <1>6 DEF QueueStep
<1> QED
  BY <1>2, <1>7, CalmKeeps

\* What an agent finds is written into its own job, and no other job lives.
LEMMA FoundRow ==
  ASSUME IInv, NEW o \in Ops, NEW f, Live(o), Found(o, f)
  PROVE  /\ op'[o].job.found = f
         /\ \A i \in Ops : /\ op'[i].status = op[i].status
                           /\ op'[i].src = op[i].src /\ op'[i].dst = op[i].dst
                           /\ op'[i].payload = op[i].payload
                           /\ op'[i].locVersion = op[i].locVersion
                           /\ op'[i].manifest = op[i].manifest
                           /\ Live(i)' <=> i = o
         /\ \A i \in Ops : op[i].status = "cleanup_pending" => i = o
<1> DEFINE j == [op[o].job EXCEPT !.found = f]
           r == [op[o] EXCEPT !.job = j]
<1>1. op[o] \in OpRow /\ op[o].job \in JobRow /\ op \in [Ops -> OpRow]
  BY RowsAreTyped DEF IInv, TypeOK
<1>2. op' = [op EXCEPT ![o] = r]
  BY <1>1 DEF Found
<1>3. j.found = f /\ j.status = op[o].job.status
  BY <1>1 DEF JobRow
<1> HIDE DEF j
<1>4. /\ r.status = op[o].status /\ r.job = j
      /\ r.src = op[o].src /\ r.dst = op[o].dst /\ r.payload = op[o].payload
      /\ r.locVersion = op[o].locVersion /\ r.manifest = op[o].manifest
  BY <1>1 DEF OpRow
<1> HIDE DEF r
<1>5. op'[o] = r /\ \A i \in Ops : i # o => op'[i] = op[i]
  BY <1>1, <1>2
<1>6. \A i \in Ops : /\ Live(i) => Reserving(i)
                     /\ op[i].status = "cleanup_pending" => Live(i)
  BY DEF IInv, JobServesOperation, Reserving, OpTerminal
<1>7. \A i \in Ops : Live(i) => i = o
  BY <1>6 DEF IInv, OneAtATime
<1> QED
  BY <1>3, <1>4, <1>5, <1>6, <1>7 DEF Live

LEMMA AgentKeepsFolder ==
  ASSUME IInv, FolderInv, AgentStep
  PROVE  FolderInv'
<1> USE DEF FolderInv
<1>1. evidence \in SUBSET Ops /\ applied \in SUBSET Ops
  BY DEF IInv, TypeOK
<1>2. ASSUME NEW o \in Ops, AgentWritesEvidence(o)
      PROVE  FolderInv'
  <2>1. /\ op[o].status = "applying" /\ op[o].payload = "atomic_rename"
        /\ evidence' = evidence \cup {o}
        /\ UNCHANGED <<loc, op, disk, applied, hands>>
    BY <1>2 DEF AgentWritesEvidence, Moving
  <2> QED
    BY <2>1 DEF EvidenceFits, CopiesMove, VersionsFit, FoundFits, FolderAtRest, Acted, Live,
                Reserving, AssignmentsFit, AssignmentsStand
<1>3. ASSUME NEW o \in Ops, NEW f, Live(o), Found(o, f), UNCHANGED <<loc, evidence, hands>>,
             f \in {"renamed", "recovered"} => o \in evidence,
             f = "copied" => op[o].src # op[o].dst,
             hands = 0 => /\ f # "absent" => op[o].dst \in disk'
                          /\ f = "cleaned" => op[o].src \notin disk'
                          /\ op[o].status = "cleanup_pending" /\ op[o].dst \in disk
                             => op[o].dst \in disk',
             \/ o \in applied' /\ op[o].status = "applying"
             \/ /\ applied' = applied /\ disk' \subseteq disk
                /\ loc.path \in disk => hands # 0 \/ loc.path \in disk'
      PROVE  FolderInv'
  <2>1. /\ op'[o].job.found = f
        /\ \A i \in Ops : /\ op'[i].status = op[i].status
                          /\ op'[i].src = op[i].src /\ op'[i].dst = op[i].dst
                          /\ op'[i].payload = op[i].payload
                          /\ op'[i].locVersion = op[i].locVersion
                          /\ op'[i].manifest = op[i].manifest
                          /\ Live(i)' <=> i = o
        /\ \A i \in Ops : op[i].status = "cleanup_pending" => i = o
    BY <1>3, FoundRow
  <2>2. \A i \in Ops : Acted(i)' => i = o /\ f # "absent"
    BY <2>1 DEF Acted
  <2>3. EvidenceFits'
    BY <1>3, <2>1, <2>2 DEF EvidenceFits
  <2>4. CopiesMove'
    BY <1>3, <2>1, <2>2 DEF CopiesMove
  <2>5. VersionsFit'
    BY <1>3, <2>1 DEF VersionsFit, Reserving
  <2>6. FoundFits'
    BY <1>3, <2>1, <2>2 DEF FoundFits
  <2>7. FolderAtRest'
    <3>1. CASE o \in applied' /\ op[o].status = "applying"
      BY <2>1, <3>1 DEF FolderAtRest
    <3>2. CASE applied' = applied /\ disk' \subseteq disk
               /\ (loc.path \in disk => hands # 0 \/ loc.path \in disk')
      BY <1>1, <1>3, <2>1, <3>2 DEF FolderAtRest
    <3> QED
      BY <1>3, <3>1, <3>2
  <2>8. AssignmentsFit'
    BY <1>3, <2>1 DEF AssignmentsFit, AssignmentsStand
  <2> QED
    BY <2>3, <2>4, <2>5, <2>6, <2>7, <2>8
<1>4. ASSUME NEW o \in Ops, AgentRenames(o)
      PROVE  FolderInv'
  <2>1. /\ Live(o) /\ op[o].status = "applying" /\ Found(o, "renamed") /\ o \in evidence
        /\ op[o].dst \in disk' /\ o \in applied' /\ UNCHANGED <<loc, evidence, hands>>
    BY <1>4 DEF AgentRenames, Moving, Leased, Live
  <2> QED
    BY <1>3, <2>1
<1>5. ASSUME NEW o \in Ops, AgentCopies(o)
      PROVE  FolderInv'
  <2>1. /\ Live(o) /\ op[o].status = "applying" /\ Found(o, "copied")
        /\ op[o].src # op[o].dst
        /\ op[o].dst \in disk' /\ o \in applied' /\ UNCHANGED <<loc, evidence, hands>>
    BY <1>5 DEF AgentCopies, Moving, Leased, Live
  <2> QED
    BY <1>3, <2>1
<1>6. ASSUME NEW o \in Ops, AgentInspects(o)
      PROVE  FolderInv'
  <2>1. /\ Live(o) /\ UNCHANGED <<loc, evidence, hands, applied, disk>>
        /\ \/ Found(o, "matched") /\ op[o].dst \in disk
           \/ Found(o, "recovered") /\ op[o].dst \in disk /\ o \in evidence
           \/ Found(o, "absent")
    BY <1>6 DEF AgentInspects, Moving, Leased, Live
  <2>2. CASE Found(o, "matched") /\ op[o].dst \in disk
    BY <1>3, <2>1, <2>2
  <2>3. CASE Found(o, "recovered") /\ op[o].dst \in disk /\ o \in evidence
    BY <1>3, <2>1, <2>3
  <2>4. CASE Found(o, "absent")
    BY <1>3, <2>1, <2>4
  <2> QED
    BY <2>1, <2>2, <2>3, <2>4
<1>7. ASSUME NEW o \in Ops, AgentCleans(o)
      PROVE  FolderInv'
  <2>1. /\ Live(o) /\ Found(o, "cleaned") /\ UNCHANGED <<loc, evidence, hands, applied>>
        /\ op[o].dst \in disk /\ disk' = disk \ {op[o].src}
    BY <1>7 DEF AgentCleans, Leased, Live
  <2>2. op[o].status = "cleanup_pending"
    BY <1>7, <2>1 DEF IInv, JobServesOperation, AgentCleans, Leased
  <2>3. op[o].src # op[o].dst /\ (hands = 0 => loc.path = op[o].dst)
    BY <2>2 DEF CopiesMove, FoundFits
  <2> QED
    BY <1>3, <2>1, <2>3
<1> QED
  BY <1>2, <1>4, <1>5, <1>6, <1>7 DEF AgentStep

LEMMA MoveKeepsFolder ==
  ASSUME IInv, FolderInv, NEW o \in Ops, ReportMoved(o)
  PROVE  FolderInv'
<1> USE DEF FolderInv
<1> DEFINE strategy == ResultStrategy(o)
           r == MovedRow(o, strategy)
           to == IF strategy = "staged_copy" THEN "cleanup_pending" ELSE "ready"
<1>1. op[o] \in OpRow /\ op[o].job \in JobRow /\ op \in [Ops -> OpRow]
      /\ loc.version \in Nat /\ \A i \in Ops : op[i].locVersion \in Nat
  BY RowsAreTyped DEF IInv, TypeOK, OpRow
<1>2. /\ Live(o) /\ Acted(o) /\ op[o].job.found # "cleaned"
      /\ op' = [op EXCEPT ![o] = r]
      /\ LocationAgrees(o)
      /\ loc' = IF RecoveredLocation(o) THEN loc
                ELSE [path |-> op[o].dst, status |-> "verified",
                      version |-> loc.version + 1, imported |-> FALSE, given |-> loc.given]
      /\ UNCHANGED <<disk, evidence, applied, hands>>
  BY DEF ReportMoved, Leased, Live, Acted
<1>3. strategy \in Strategies
  BY StrategyTyped DEF ReportMoved
<1>4. /\ strategy = "staged_copy" => op[o].job.found = "copied" \/ op[o].payload = "staged_copy"
      /\ strategy # "staged_copy" => op[o].payload = "atomic_rename"
  BY <1>1, <1>2 DEF ResultStrategy, ReportMoved, EvidenceFits, OpRow, Strategies
<1> HIDE DEF strategy
<1>5. /\ r.status = to /\ r.src = op[o].src /\ r.dst = op[o].dst /\ r.payload = op[o].payload
      /\ r.locVersion = op[o].locVersion /\ r.manifest
      /\ r.job.status = "pending" => r.job.found = "nothing"
      /\ r.job.status # "leased"
  <2>1. CASE strategy = "staged_copy"
    <3> DEFINE j == FreshJob(TRUE, op[o].version + 1)
    <3>1. r = [op[o] EXCEPT !.status = "cleanup_pending", !.strategy = strategy,
                            !.manifest = TRUE, !.version = op[o].version + 1, !.job = j]
      BY <2>1 DEF MovedRow
    <3>2. j.status = "pending" /\ j.found = "nothing"
      BY DEF FreshJob
    <3> HIDE DEF j, r
    <3> QED
      BY <1>1, <2>1, <3>1, <3>2 DEF OpRow
  <2>2. CASE strategy # "staged_copy"
    <3> DEFINE j == [op[o].job EXCEPT !.status = "succeeded"]
    <3>1. r = [op[o] EXCEPT !.status = "ready", !.strategy = strategy,
                            !.manifest = TRUE, !.version = op[o].version + 1, !.job = j]
      BY <2>2 DEF MovedRow
    <3>2. j.status = "succeeded"
      BY <1>1 DEF JobRow
    <3> HIDE DEF j, r
    <3> QED
      BY <1>1, <2>2, <3>1, <3>2 DEF OpRow
  <2> QED
    BY <2>1, <2>2
<1> HIDE DEF r
<1>6. op'[o] = r /\ (\A i \in Ops : i # o => op'[i] = op[i])
  BY <1>1, <1>2
<1>7. \A i \in Ops : /\ ~Acted(i)'
                     /\ i # o => ~Reserving(i)
                     /\ i # o => op[i].status # "cleanup_pending"
  <2>1. \A i \in Ops : /\ Live(i) => Reserving(i)
                       /\ op[i].status = "cleanup_pending" => Live(i)
    BY DEF IInv, JobServesOperation, Reserving, OpTerminal
  <2>2. \A i \in Ops : Reserving(i) => i = o
    BY <1>2, <2>1 DEF IInv, OneAtATime
  <2> QED
    BY <1>5, <1>6, <2>1, <2>2 DEF Acted, Live
<1>8. /\ loc'.path = op[o].dst
      /\ loc'.version = op[o].locVersion + 1 /\ loc.version \in {op[o].locVersion, op[o].locVersion + 1}
  BY <1>1, <1>2 DEF LocationAgrees, RecoveredLocation, LocationUnchanged
<1>9. \A i \in Ops : i # o /\ op[i].status = "ready" => op[i].locVersion < op[o].locVersion
  BY <1>2 DEF VersionsFit, IInv, JobServesOperation, Reserving, OpTerminal
<1>10. EvidenceFits'
  BY <1>2, <1>5, <1>6, <1>7 DEF EvidenceFits
<1>11. CopiesMove'
  BY <1>2, <1>4, <1>5, <1>6, <1>7 DEF CopiesMove
<1>12. VersionsFit'
  <2>1. \A i \in Ops : i # o => ~Reserving(i)'
    BY <1>6, <1>7 DEF Reserving
  <2>2. op'[o].status = "ready" => ~Reserving(o)'
    BY DEF Reserving, OpTerminal
  <2>3. ASSUME NEW i \in Ops, op'[i].status \in {"ready", "cleanup_pending"}
        PROVE  op'[i].locVersion < loc'.version
    <3>1. CASE i = o
      BY <1>1, <1>5, <1>6, <1>8, <3>1
    <3>2. CASE i # o
      BY <1>1, <1>6, <1>7, <1>8, <1>9, <2>3, <3>2
    <3> QED
      BY <3>1, <3>2
  <2>4. ASSUME NEW i \in Ops, op'[i].status = "ready", NEW k \in Ops, Reserving(k)'
        PROVE  op'[i].locVersion < op'[k].locVersion
    BY <1>5, <1>6, <1>9, <2>1, <2>2, <2>4
  <2> QED
    BY <2>3, <2>4 DEF VersionsFit
<1>13. FoundFits'
  BY <1>2, <1>5, <1>6, <1>7, <1>8 DEF FoundFits
<1>14. FolderAtRest'
  <2> SUFFICES ASSUME hands = 0
               PROVE  /\ loc'.path \in disk'
                      /\ \A i \in Ops :
                           /\ op'[i].status = "ready" /\ op'[i].payload = "staged_copy"
                           /\ loc'.version = op'[i].locVersion + 1
                           => op'[i].src \notin disk'
    BY <1>2 DEF FolderAtRest
  <2>1. loc'.path \in disk'
    BY <1>2, <1>8 DEF FoundFits
  <2>2. ~(op'[o].status = "ready" /\ op'[o].payload = "staged_copy")
    BY <1>4, <1>5, <1>6
  <2>3. \A i \in Ops : i # o /\ op'[i].status = "ready" => loc'.version # op'[i].locVersion + 1
    BY <1>1, <1>6, <1>8, <1>9
  <2> QED
    BY <2>1, <2>2, <2>3
<1>15. AssignmentsFit'
  <2>1. loc'.given = loc.given /\ loc.given.version \in Nat
    BY <1>2 DEF IInv, TypeOK, Given
  <2>2. loc'.given.version <= loc'.version
    BY <1>1, <1>2, <2>1 DEF AssignmentsFit
  <2>3. \A i \in Ops : op'[i].manifest => op'[i].status # "absent"
    BY <1>5, <1>6 DEF AssignmentsFit
  <2>4. CASE RecoveredLocation(o)
    BY <1>2, <1>5, <1>6, <2>2, <2>3, <2>4 DEF AssignmentsFit, AssignmentsStand
  <2>5. CASE ~RecoveredLocation(o)
    <3>1. op'[o].locVersion >= loc'.given.version
      BY <1>1, <1>2, <1>5, <1>6, <2>1, <2>5
         DEF AssignmentsFit, LocationAgrees, LocationUnchanged
    <3> QED
      BY <1>5, <1>6, <1>8, <2>2, <2>3, <3>1 DEF AssignmentsFit, AssignmentsStand
  <2> QED
    BY <2>4, <2>5
<1> QED
  BY <1>10, <1>11, <1>12, <1>13, <1>14, <1>15

LEMMA CleaningKeepsFolder ==
  ASSUME IInv, FolderInv, NEW o \in Ops, ReportCleaned(o)
  PROVE  FolderInv'
<1> USE DEF FolderInv
<1> DEFINE agrees == /\ loc.status = "verified" /\ loc.path = op[o].dst
                     /\ loc.version = op[o].locVersion + 1
<1>1. op[o] \in OpRow /\ op[o].job \in JobRow /\ op \in [Ops -> OpRow]
      /\ loc.version \in Nat /\ \A i \in Ops : op[i].locVersion \in Nat
  BY RowsAreTyped DEF IInv, TypeOK, OpRow
<1>2. /\ Live(o) /\ Acted(o) /\ op[o].job.found = "cleaned"
      /\ UNCHANGED <<loc, disk, evidence, applied, hands>>
  BY DEF ReportCleaned, Leased, Live, Acted
<1>3. op[o].status = "cleanup_pending" /\ Reserving(o)
  BY DEF ReportCleaned, Leased, IInv, JobServesOperation, Live, Reserving, OpTerminal
<1>4. CASE ~agrees
  BY <1>2, <1>4, SettledCalm, CalmKeeps DEF ReportCleaned
<1>5. CASE agrees
  <2> DEFINE r == [op[o] EXCEPT !.status = "ready", !.version = @ + 1,
                                !.job.status = "succeeded"]
  <2>1. op' = [op EXCEPT ![o] = r]
    BY <1>1, <1>5 DEF ReportCleaned
  <2>2. /\ r.status = "ready" /\ r.src = op[o].src /\ r.dst = op[o].dst
        /\ r.payload = op[o].payload /\ r.locVersion = op[o].locVersion
        /\ r.manifest = op[o].manifest /\ r.job.status = "succeeded"
    BY <1>1 DEF OpRow, JobRow
  <2> HIDE DEF r
  <2>3. op'[o] = r /\ (\A i \in Ops : i # o => op'[i] = op[i])
    BY <1>1, <2>1
  <2>4. \A i \in Ops : /\ ~Acted(i)' /\ ~Reserving(i)'
                       /\ op'[i].status # "cleanup_pending"
    <3>1. \A i \in Ops : /\ Live(i) => Reserving(i)
                         /\ op[i].status = "cleanup_pending" => Live(i)
      BY DEF IInv, JobServesOperation, Reserving, OpTerminal
    <3>2. \A i \in Ops : Reserving(i) => i = o
      BY <1>3 DEF IInv, OneAtATime
    <3> QED
      BY <2>2, <2>3, <3>1, <3>2 DEF Acted, Live, Reserving, OpTerminal
  <2>5. \A i \in Ops : i # o /\ op[i].status = "ready" => op[i].locVersion < op[o].locVersion
    BY <1>3 DEF VersionsFit
  <2>6. EvidenceFits'
    BY <1>2, <2>2, <2>3, <2>4 DEF EvidenceFits
  <2>7. CopiesMove'
    BY <1>3, <2>2, <2>3, <2>4 DEF CopiesMove
  <2>8. VersionsFit'
    BY <1>2, <1>3, <2>2, <2>3, <2>4 DEF VersionsFit
  <2>9. FoundFits'
    BY <2>4 DEF FoundFits
  <2>10. FolderAtRest'
    <3> SUFFICES ASSUME hands = 0
                 PROVE  /\ loc'.path \in disk'
                        /\ \A i \in Ops :
                             /\ op'[i].status = "ready" /\ loc'.version = op'[i].locVersion + 1
                             => op'[i].src \notin disk'
      BY <1>2 DEF FolderAtRest
    <3>1. loc'.path \in disk' /\ op'[o].src \notin disk'
      BY <1>2, <1>3, <2>2, <2>3 DEF FoundFits
    <3>2. \A i \in Ops : i # o /\ op'[i].status = "ready" => loc'.version # op'[i].locVersion + 1
      BY <1>1, <1>2, <1>5, <2>3, <2>5
    <3> QED
      BY <3>1, <3>2
  <2>11. AssignmentsFit'
    BY <1>2, <2>2, <2>3 DEF AssignmentsFit, AssignmentsStand
  <2> QED
    BY <2>6, <2>7, <2>8, <2>9, <2>10, <2>11
<1> QED
  BY <1>4, <1>5

LEMMA ReportsKeepFolder ==
  ASSUME IInv, FolderInv, ReportStep
  PROVE  FolderInv'
<1>1. PICK o \in Ops : \/ ReportMoved(o) \/ ReportUnwanted(o) \/ ReportMissing(o)
                       \/ ReportCleaned(o) \/ ReportRetry(o) \/ ReportLastFailure(o)
                       \/ ReportGivesUp(o)
  BY DEF ReportStep
<1>2. CASE ReportMoved(o)
  BY <1>2, MoveKeepsFolder
<1>3. CASE ReportCleaned(o)
  BY <1>3, CleaningKeepsFolder
<1>4. CASE ReportUnwanted(o)
  BY <1>4, SettledCalm, CalmKeeps DEF ReportUnwanted, Leased, Live
<1>5. CASE ReportMissing(o)
  BY <1>5, SettledCalm, CalmKeeps DEF ReportMissing, Leased, Live
<1>6. CASE ReportRetry(o)
  <2>1. Live(o) /\ op[o].job.cleanup \in BOOLEAN
    BY <1>6, RowsAreTyped DEF ReportRetry, Live
  <2>2. Stage(o) = op[o].status \/ Stage(o) = "queued"
    BY <2>1 DEF IInv, JobServesOperation, Stage
  <2> QED
    BY <1>6, <2>1, <2>2, SettledCalm, CalmKeeps DEF ReportRetry
<1>7. CASE ReportLastFailure(o)
  BY <1>7, SettledCalm, CalmKeeps DEF ReportLastFailure, Live
<1>8. CASE ReportGivesUp(o)
  BY <1>8, SettledCalm, CalmKeeps DEF ReportGivesUp, Live
<1> QED
  BY <1>1, <1>2, <1>3, <1>4, <1>5, <1>6, <1>7, <1>8

LEMMA OthersKeepFolder ==
  ASSUME IInv, FolderInv, OtherStep
  PROVE  FolderInv'
<1> USE DEF FolderInv
<1>1. /\ hands \in Nat /\ loc.version \in Nat /\ \A i \in Ops : op[i].locVersion \in Nat
      /\ loc \in [path : Paths, status : {"pending", "verified", "missing"},
                  version : Nat \ {0}, imported : BOOLEAN, given : Given]
  BY RowsAreTyped, SagaAssumption DEF IInv, TypeOK, OpRow
<1>2. ASSUME UNCHANGED <<op, evidence, applied>>, loc'.version \in Nat,
             loc'.version >= loc.version, hands' \in Nat,
             \/ loc'.given = loc.given /\ loc'.path = loc.path
             \/ loc'.given = [path |-> loc'.path, version |-> loc'.version],
             \/ hands' # 0
             \/ /\ hands' = hands /\ disk' = disk
                /\ loc'.path = loc.path /\ loc'.version = loc.version
             \/ /\ hands' = hands /\ disk' = disk /\ loc.path \notin disk
                /\ loc'.path \in disk /\ loc'.version = loc.version + 1
      PROVE  FolderInv'
  <2>1. EvidenceFits' /\ CopiesMove'
    BY <1>2 DEF EvidenceFits, CopiesMove, Acted, Live
  <2>2. VersionsFit'
    BY <1>1, <1>2 DEF VersionsFit, Reserving
  <2>3. FoundFits'
    BY <1>2 DEF FoundFits, Acted, Live
  <2>4. FolderAtRest'
    BY <1>1, <1>2 DEF FolderAtRest, VersionsFit
  <2>5. AssignmentsFit'
    BY <1>1, <1>2 DEF AssignmentsFit, AssignmentsStand, Given
  <2> QED
    BY <2>1, <2>2, <2>3, <2>4, <2>5
<1>3. ASSUME NEW p \in Paths, NEW q \in Paths, MoveByHand(p, q)
      PROVE  FolderInv'
  BY <1>1, <1>2, <1>3 DEF MoveByHand
<1>4. ASSUME NEW p \in Paths, AssignLocation(p)
      PROVE  FolderInv'
  BY <1>1, <1>2, <1>4 DEF AssignLocation
<1>5. ASSUME NEW p \in Paths, Relocate(p)
      PROVE  FolderInv'
  BY <1>1, <1>2, <1>5 DEF Relocate
<1>6. CASE VerifyLocation
  BY <1>1, <1>2, <1>6 DEF VerifyLocation
<1>7. CASE ScanInventory
  <2> DEFINE place == loc.path[2]
             after == IF loc.path \in disk /\ ~Busy THEN place ELSE case.status
             release(o) ==
               /\ op[o].status = "failed" /\ ~Live(o)
               /\ loc.status = "verified" /\ loc.path = op[o].dst /\ loc.path \in disk
               /\ \E l \in Plans : /\ plan[l].op = o /\ plan[l].status = "failed"
                                   /\ After(l) = after
             gone == {o \in Ops : release(o)}
  <2>1. /\ op' = [o \in Ops |-> IF o \in gone
                                THEN [op[o] EXCEPT !.status = "stale", !.version = @ + 1]
                                ELSE op[o]]
        /\ UNCHANGED <<loc, disk, evidence, applied, hands>>
    BY <1>7 DEF ScanInventory
  <2> HIDE DEF gone
  <2> QED
    BY <2>1, StaleCalm, CalmKeeps
<1>8. CASE EditCase \/ RequirementsChange
  BY <1>8, SameRows, CalmKeeps DEF EditCase, RequirementsChange
<1> QED
  BY <1>3, <1>4, <1>5, <1>6, <1>7, <1>8 DEF OtherStep

LEMMA NextKeepsFolder ==
  ASSUME IInv, FolderInv, [Next]_vars
  PROVE  FolderInv'
<1>1. CASE UNCHANGED vars
  BY <1>1, SameRows, CalmKeeps DEF vars
<1> QED
  BY <1>1, CommandsKeepFolder, QueueKeepsFolder, AgentKeepsFolder, ReportsKeepFolder,
     OthersKeepFolder DEF Next

THEOREM FoldersFit == Spec => []FolderInv
  BY InitFolderInv, NextKeepsFolder, Inductive, PTL DEF Spec

\* While nobody has touched folders or locations by hand, a verified location
\* of a case at rest is where its folder stands.
THEOREM LocationsHoldFolders == Spec => []LocationHoldsFolder
<1>1. FolderInv => LocationHoldsFolder
  BY DEF FolderInv, FolderAtRest, LocationHoldsFolder
<1> QED
  BY <1>1, FoldersFit, PTL

\* Once a move between two roots is ready, the folder it came from is gone
\* while the case has not been moved again.
THEOREM CopiesLeaveNoSource == Spec => []CopyLeavesNoSource
<1>1. FolderInv => CopyLeavesNoSource
  BY DEF FolderInv, FolderAtRest, CopyLeavesNoSource
<1> QED
  BY <1>1, FoldersFit, PTL

\* A location that was assigned, or that discovery followed the folder to, stands
\* until a move that was planned after it has been carried out.
THEOREM AssignmentsAreKept == Spec => []AssignmentsStand
<1>1. FolderInv => AssignmentsStand
  BY DEF FolderInv, AssignmentsFit
<1> QED
  BY <1>1, FoldersFit, PTL
=============================================================================
