--------------------------- MODULE PolicyTextProofs ---------------------------
(***************************************************************************)
(* The reading of one document by any number of agents, attempts and       *)
(* faults: rows follow their jobs, and every step of the protocol is a     *)
(* step of PolicyReading or none, so what is stored of a document is all   *)
(* that one attempt saw of it, settled in one step and for good.           *)
(***************************************************************************)
EXTENDS PolicyText, TLAPS

\* What an agent has in hand it has seen for a row that was ordered.
AgentKnows(a) ==
  LET r == agent[a].task IN
  IF r = "none" THEN agent[a].seen = <<>>
  ELSE
    /\ row[r].status # "absent"
    /\ agent[a].seen = <<>> \/ Len(agent[a].seen) = Len(row[r].selected)
    /\ agent[a].seen # <<>> /\ row[r].status \notin Ended => agent[a].seen \in seen[r]

\* A report on its way tells what an attempt saw, a chunk of a page ordered.
ReportKnown(m) == row[m.task].status \notin Ended => m.seen \in seen[m.task]
ChunkKnown(c) ==
  row[c.task].status # "absent" /\ c.seq <= Len(row[c.task].selected)

Known ==
  /\ \A a \in Agents : AgentKnows(a)
  /\ \A m \in late : ReportKnown(m)
  /\ \A c \in wire : ChunkKnown(c)

EndedForgotten == \A r \in Readings : row[r].status \in Ended => seen[r] = {}

Fits == pdf \in Documents /\ \A r \in Readings : Len(row[r].selected) <= Len(pdf)

IInv == TypeOK /\ RowFollowsJob /\ Known /\ EndedForgotten /\ Fits

LEMMA InitIInv == Init => IInv
<1> SUFFICES ASSUME Init PROVE IInv
  OBVIOUS
<1> USE TextAssumption DEF Init
<1>1. /\ NoRow \in RowType /\ NoRow.status = "absent"
      /\ NoRow.selected = <<>> /\ NoRow.pages = <<>>
  BY DEF NoRow, RowType, RowStatuses
<1>2. NoJob \in JobType /\ NoJob.status = "absent"
  BY DEF NoJob, JobType
<1>3. Idle \in AgentType /\ Idle.task = "none"
  BY DEF Idle, AgentType
<1>4. TypeOK
  BY <1>1, <1>2, <1>3 DEF TypeOK
<1>5. RowFollowsJob
  BY <1>1, <1>2 DEF RowFollowsJob, Read, TextFinal, OcrFinal
<1>6. Known
  BY <1>3 DEF Known, AgentKnows, Idle
<1>7. EndedForgotten
  BY DEF EndedForgotten
<1>8. Fits
  <2>1. pdf \in Seq(PageKinds)
    OBVIOUS
  <2> QED
    BY <1>1, <2>1 DEF Fits
<1> QED
  BY <1>4, <1>5, <1>6, <1>7, <1>8 DEF IInv, EndedForgotten

-----------------------------------------------------------------------------
(* Steps that write one row and its job                                    *)

Matches(x, y) ==
  /\ x.status = "queued" <=> y.status = "pending"
  /\ x.status = "working" <=> y.status = "leased"
  /\ x.status \in Read <=> y.status = "succeeded"
  /\ x.status = "cancelled" <=> y.status = "cancelled"

\* The row r, which has not ended, becomes x, and its job y.
Writes(r, x, y) ==
  /\ row' = [row EXCEPT ![r] = x] /\ job' = [job EXCEPT ![r] = y] /\ pdf' = pdf
  /\ x \in RowType /\ y \in JobType /\ Matches(x, y)
  /\ Len(x.pages) <= Len(x.selected) /\ Len(x.selected) <= Len(pdf)
  /\ row[r].status \notin Ended /\ x.status # "absent"
  /\ row[r].status # "absent" => x.selected = row[r].selected

Open == {"queued", "working"}

\* What becomes of a reading: ordered, attempted, given up or cancelled, read.
Ordered(r, x) == row[r].status = "absent" /\ x.status \in Open /\ seen' = seen
Attempted(r, x) ==
  /\ row[r].status \in Open /\ x.status \in Open
  /\ \/ seen' = seen
     \/ \E s \in [1 .. Len(row[r].selected) -> Outcomes] :
          seen' = [seen EXCEPT ![r] = @ \cup {s}]
Stopped(r, x) ==
  /\ row[r].status \in Open /\ x.status \in {"failed", "cancelled"}
  /\ seen' = [seen EXCEPT ![r] = {}]
Settled(r, x) ==
  /\ row[r].status \in Open /\ x.status \in Read
  /\ x.status = StatusOf(r, x.pages) /\ x.pages \in seen[r]
  /\ seen' = [seen EXCEPT ![r] = {}]

Fate(r, x) == Ordered(r, x) \/ Attempted(r, x) \/ Stopped(r, x) \/ Settled(r, x)

Rests == row' = row /\ job' = job /\ pdf' = pdf /\ seen' = seen

Moves == Rests \/ \E r \in Readings : \E x, y : Writes(r, x, y) /\ Fate(r, x)

\* What is known of rows stays known.
Grows ==
  \A r \in Readings :
    /\ row[r].status # "absent" => /\ row'[r].status # "absent"
                                   /\ row'[r].selected = row[r].selected
    /\ row[r].status \in Ended => row'[r].status \in Ended
    /\ row'[r].status \notin Ended => seen[r] \subseteq seen'[r]

RowsTyped ==
  /\ row \in [Readings -> RowType] /\ job \in [Readings -> JobType]
  /\ seen \in [Readings -> SUBSET Seq(Outcomes)]
  /\ \A r \in Readings : Len(row[r].pages) <= Len(row[r].selected)

RowsFit == RowsTyped /\ RowFollowsJob /\ EndedForgotten /\ Fits

LEMMA SeenTyped ==
  ASSUME NEW n \in Nat, NEW s \in [1 .. n -> Outcomes]
  PROVE  s \in Seq(Outcomes) /\ Len(s) = n
  OBVIOUS

LEMMA MovesKeep ==
  ASSUME RowsFit, Moves
  PROVE  RowsFit' /\ Grows
<1>1. CASE Rests
  BY <1>1 DEF Rests, RowsFit, RowsTyped, RowFollowsJob, EndedForgotten, Fits, Grows
<1>2. ASSUME NEW r \in Readings, NEW x, NEW y, Writes(r, x, y), Fate(r, x)
      PROVE  RowsFit' /\ Grows
  <2>1. /\ row \in [Readings -> RowType] /\ job \in [Readings -> JobType]
        /\ seen \in [Readings -> SUBSET Seq(Outcomes)]
    BY DEF RowsFit, RowsTyped
  <2>2. /\ row' \in [Readings -> RowType] /\ job' \in [Readings -> JobType]
        /\ row'[r] = x /\ job'[r] = y
        /\ \A q \in Readings : q # r => row'[q] = row[q] /\ job'[q] = job[q]
    BY <1>2, <2>1 DEF Writes
  <2>3. /\ seen' \in [Readings -> SUBSET Seq(Outcomes)]
        /\ \A q \in Readings : q # r => seen'[q] = seen[q]
        /\ x.status \in Ended => seen'[r] = {}
        /\ x.status \notin Ended => seen[r] \subseteq seen'[r]
    <3>1. CASE Ordered(r, x)
      BY <2>1, <3>1 DEF Ordered, Open, Ended, Read, TextFinal, OcrFinal
    <3>2. CASE Attempted(r, x)
      <4>1. Len(row[r].selected) \in Nat
        BY <2>1 DEF RowType
      <4>2. x.status \notin Ended
        BY <3>2 DEF Attempted, Open, Ended, Read, TextFinal, OcrFinal
      <4> QED
        BY <2>1, <3>2, <4>1, <4>2, SeenTyped DEF Attempted
    <3>3. CASE Stopped(r, x)
      BY <2>1, <3>3 DEF Stopped, Ended
    <3>4. CASE Settled(r, x)
      BY <2>1, <3>4 DEF Settled, Ended
    <3> QED
      BY <1>2, <3>1, <3>2, <3>3, <3>4 DEF Fate
  <2>4. RowsTyped'
    BY <1>2, <2>2, <2>3 DEF RowsTyped, RowsFit, Writes
  <2>5. RowFollowsJob'
    BY <1>2, <2>2 DEF RowFollowsJob, RowsFit, Writes, Matches
  <2>6. EndedForgotten'
    BY <2>2, <2>3 DEF EndedForgotten, RowsFit
  <2>7. Fits'
    BY <1>2, <2>2 DEF Fits, RowsFit, Writes
  <2>8. Grows
    BY <1>2, <2>2, <2>3 DEF Grows, Writes
  <2> QED
    BY <2>4, <2>5, <2>6, <2>7, <2>8 DEF RowsFit
<1> QED
  BY <1>1, <1>2 DEF Moves

-----------------------------------------------------------------------------
(* Such a step is a step of PolicyReading                                  *)

Orders == UNION {[1 .. n -> Outcomes] : n \in UNION {0 .. Len(d) : d \in Documents}}

ResultOf(r) == IF StateOf(r) = "read"
               THEN [pages |-> row[r].pages, status |-> row[r].status]
               ELSE NoResult

LEMMA StatesOf ==
  ASSUME NEW r \in Readings
  PROVE  /\ row[r].status = "absent" => StateOf(r) = "absent"
         /\ row[r].status \in Open => StateOf(r) = "open"
         /\ row[r].status \in Read => StateOf(r) = "read"
         /\ row[r].status \in {"failed", "cancelled"} => StateOf(r) = row[r].status
  BY DEF StateOf, Open, Read, TextFinal, OcrFinal

LEMMA MovesRefine ==
  ASSUME RowsFit, Moves
  PROVE  Promise!Next \/ UNCHANGED Promise!vars
<1>1. CASE Rests
  BY <1>1 DEF Rests, Promise!vars, StateOf
<1>2. ASSUME NEW r \in Readings, NEW x, NEW y, Writes(r, x, y), Fate(r, x)
      PROVE  Promise!Next \/ UNCHANGED Promise!vars
  <2> DEFINE state == [q \in Readings |-> StateOf(q)]
             result == [q \in Readings |-> ResultOf(q)]
  <2>1. /\ row \in [Readings -> RowType] /\ row' = [row EXCEPT ![r] = x]
        /\ row'[r] = x /\ \A q \in Readings : q # r => row'[q] = row[q]
        /\ seen \in [Readings -> SUBSET Seq(Outcomes)]
    BY <1>2 DEF RowsFit, RowsTyped, Writes
  <2>2. \A q \in Readings : q # r => StateOf(q)' = StateOf(q) /\ ResultOf(q)' = ResultOf(q)
    BY <2>1 DEF StateOf, ResultOf
  <2>3. state' = [state EXCEPT ![r] = StateOf(r)'] /\ result' = [result EXCEPT ![r] = ResultOf(r)']
    BY <2>2
  <2>4. /\ x.status = "absent" => StateOf(r)' = "absent"
        /\ x.status \in Open => StateOf(r)' = "open"
        /\ x.status \in Read => StateOf(r)' = "read"
        /\ x.status \in {"failed", "cancelled"} => StateOf(r)' = x.status
    BY <2>1 DEF StateOf, Open, Read, TextFinal, OcrFinal
  <2>5. CASE Ordered(r, x)
    <3>1. StateOf(r) = "absent" /\ StateOf(r)' = "open"
      BY <2>4, <2>5, StatesOf DEF Ordered
    <3>2. ResultOf(r)' = ResultOf(r)
      BY <3>1 DEF ResultOf
    <3>3. result' = result /\ seen' = seen
      BY <2>3, <2>5, <3>2 DEF Ordered
    <3>4. Promise!Order(r)
      BY <2>3, <3>1, <3>3 DEF Promise!Order, ResultOf
    <3> QED
      BY <3>4 DEF Promise!Next
  <2>6. CASE Attempted(r, x)
    <3>1. StateOf(r) = "open" /\ StateOf(r)' = "open"
      BY <2>4, <2>6, StatesOf DEF Attempted
    <3>2. ResultOf(r)' = ResultOf(r)
      BY <3>1 DEF ResultOf
    <3>3. state' = state /\ result' = result
      BY <2>3, <3>1, <3>2
    <3>4. CASE seen' = seen
      BY <3>3, <3>4 DEF Promise!vars, ResultOf
    <3>5. ASSUME NEW s \in [1 .. Len(row[r].selected) -> Outcomes],
                 seen' = [seen EXCEPT ![r] = @ \cup {s}]
          PROVE  Promise!Next
      <4>1. s \in Orders
        <5>1. Len(row[r].selected) \in Nat /\ Len(row[r].selected) <= Len(pdf) /\ pdf \in Documents
          BY <2>1 DEF RowsFit, Fits, RowType
        <5>2. pdf \in Seq(PageKinds)
          BY <5>1, TextAssumption
        <5>3. Len(row[r].selected) \in 0 .. Len(pdf)
          BY <5>1, <5>2
        <5> QED
          BY <5>1, <5>3 DEF Orders
      <4>2. Promise!Attempt(r)
        BY <3>1, <3>3, <3>5, <4>1 DEF Promise!Attempt, Orders, ResultOf
      <4> QED
        BY <4>2 DEF Promise!Next
    <3> QED
      BY <2>6, <3>4, <3>5 DEF Attempted
  <2>7. CASE Stopped(r, x)
    <3>1. StateOf(r) = "open" /\ StateOf(r)' \in {"failed", "cancelled"}
      BY <2>4, <2>7, StatesOf DEF Stopped
    <3>2. ResultOf(r)' = ResultOf(r)
      BY <3>1 DEF ResultOf
    <3>3. result' = result
      BY <2>3, <3>2
    <3>4. Promise!GiveUp(r) \/ Promise!Cancel(r)
      BY <2>3, <2>7, <3>1, <3>3 DEF Promise!GiveUp, Promise!Cancel, Stopped, ResultOf
    <3> QED
      BY <3>4 DEF Promise!Next
  <2>8. CASE Settled(r, x)
    <3>1. StateOf(r) = "open" /\ StateOf(r)' = "read"
      BY <2>4, <2>8, StatesOf DEF Settled
    <3>2. ResultOf(r)' = [pages |-> x.pages, status |-> StatusOf(r, x.pages)]
      BY <2>1, <2>8, <3>1 DEF ResultOf, Settled
    <3>3. Promise!Read(r)
      BY <2>3, <2>8, <3>1, <3>2 DEF Promise!Read, Settled, ResultOf
    <3> QED
      BY <3>3 DEF Promise!Next
  <2> QED
    BY <1>2, <2>5, <2>6, <2>7, <2>8 DEF Fate
<1> QED
  BY <1>1, <1>2 DEF Moves

-----------------------------------------------------------------------------
(* The steps move rows so                                                  *)

LEMMA RowsAre ==
  ASSUME IInv, NEW r \in Readings
  PROVE  /\ row[r] \in RowType /\ job[r] \in JobType /\ seen[r] \subseteq Seq(Outcomes)
         /\ row \in [Readings -> RowType] /\ job \in [Readings -> JobType]
         /\ seen \in [Readings -> SUBSET Seq(Outcomes)]
         /\ Len(row[r].pages) <= Len(row[r].selected) /\ Len(row[r].selected) <= Len(pdf)
         /\ Matches(row[r], job[r])
  BY DEF IInv, TypeOK, Fits, RowFollowsJob, Matches

LEMMA SeenAfter ==
  ASSUME IInv, NEW r \in Readings, NEW x, row' = [row EXCEPT ![r] = x], SeenUntilEnded
  PROVE  /\ x.status \in Ended => seen' = [seen EXCEPT ![r] = {}]
         /\ x.status \notin Ended => seen' = seen
<1>1. /\ row \in [Readings -> RowType] /\ seen \in [Readings -> SUBSET Seq(Outcomes)]
      /\ \A q \in Readings : row[q].status \in Ended => seen[q] = {}
  BY DEF IInv, TypeOK, EndedForgotten
<1>2. \A q \in Readings : row'[q] = IF q = r THEN x ELSE row[q]
  BY <1>1
<1>3. seen' = [q \in Readings |-> IF row'[q].status \in Ended THEN {} ELSE seen[q]]
  BY DEF SeenUntilEnded
<1>4. \A q \in Readings : q # r => seen'[q] = seen[q]
  BY <1>1, <1>2, <1>3
<1>5. seen'[r] = IF x.status \in Ended THEN {} ELSE seen[r]
  BY <1>2, <1>3
<1> QED
  BY <1>1, <1>3, <1>4, <1>5

LEMMA SeenRests ==
  ASSUME IInv, row' = row, SeenUntilEnded
  PROVE  seen' = seen
<1>1. /\ seen \in [Readings -> SUBSET Seq(Outcomes)]
      /\ \A q \in Readings : row[q].status \in Ended => seen[q] = {}
  BY DEF IInv, TypeOK, EndedForgotten
<1> QED
  BY <1>1 DEF SeenUntilEnded

\* The row takes the status st and its job the status js.
LEMMA StatusesMove ==
  ASSUME IInv, NEW r \in Readings, NEW x, NEW y,
         row' = [row EXCEPT ![r] = x], job' = [job EXCEPT ![r] = y], pdf' = pdf,
         y \in JobType, row[r].status \in Open,
         x = [row[r] EXCEPT !.status = x.status],
         x.status \in RowStatuses \ {"absent"}, Matches(x, y), Fate(r, x)
  PROVE  Moves
<1>1. /\ row[r] \in RowType
      /\ Len(row[r].pages) <= Len(row[r].selected) /\ Len(row[r].selected) <= Len(pdf)
  BY RowsAre
<1>2. x \in RowType /\ x.pages = row[r].pages /\ x.selected = row[r].selected
  BY <1>1 DEF RowType
<1>3. row[r].status \notin Ended
  BY DEF Open, Ended, Read, TextFinal, OcrFinal
<1>4. Writes(r, x, y)
  BY <1>1, <1>2, <1>3 DEF Writes
<1> QED
  BY <1>4 DEF Moves

LEMMA QueuedMoves ==
  ASSUME IInv, NEW r \in Readings, row[r].status = "absent", NEW n \in Nat, n <= Len(pdf),
         NEW s \in [1 .. n -> Nat], Queued(r, s), pdf' = pdf, seen' = seen
  PROVE  Moves
<1> DEFINE x == [status |-> "queued", selected |-> s, pages |-> <<>>]
           y == [NoJob EXCEPT !.status = "pending"]
<1>1. s \in Seq(Nat) /\ Len(s) = n /\ <<>> \in Seq(Outcomes) /\ Len(<<>>) <= n
  OBVIOUS
<1>2. x \in RowType
  BY <1>1 DEF RowType, RowStatuses
<1>3. y \in JobType /\ y.status = "pending"
  <2>1. NoJob \in JobType
    BY TextAssumption DEF NoJob, JobType
  <2> QED
    BY <2>1 DEF JobType
<1>4. Matches(x, y)
  BY <1>3 DEF Matches, Read, TextFinal, OcrFinal
<1>5. Writes(r, x, y)
  BY <1>1, <1>2, <1>3, <1>4 DEF Writes, Queued, Ended, Read, TextFinal, OcrFinal
<1>6. Fate(r, x)
  BY DEF Fate, Ordered, Open
<1> QED
  BY <1>5, <1>6 DEF Moves

LEMMA OrdersMove ==
  ASSUME IInv, CreateText \/ CreateOcr \/ RetryOcr
  PROVE  Moves
<1>1. pdf \in Seq(PageKinds) /\ {"text", "ocr", "ocr_hq"} \subseteq Readings
  BY TextAssumption DEF IInv, Fits, Readings
<1>2. CASE CreateText
  <2>1. Len(pdf) \in Nat /\ [i \in 1 .. Len(pdf) |-> i] \in [1 .. Len(pdf) -> Nat]
    BY <1>1
  <2> QED
    BY <1>1, <1>2, <2>1, QueuedMoves DEF CreateText
<1>3. CASE CreateOcr
  <2>1. PICK n \in 1 .. Len(pdf) : \E pages \in [1 .. n -> ImagePages] : Queued("ocr", pages)
    BY <1>3 DEF CreateOcr
  <2>2. PICK pages \in [1 .. n -> ImagePages] : Queued("ocr", pages)
    BY <2>1
  <2>3. ImagePages \subseteq Nat
    <3>1. row["text"].pages \in Seq(Outcomes)
      BY <1>1, RowsAre DEF RowType
    <3>2. DOMAIN row["text"].pages \subseteq Nat
      BY <3>1
    <3> QED
      BY <3>2 DEF ImagePages
  <2>4. pages \in [1 .. n -> Nat] /\ n \in Nat /\ n <= Len(pdf)
    <3>1. Len(pdf) \in Nat
      BY <1>1
    <3>2. n \in Nat /\ n <= Len(pdf)
      BY <3>1
    <3>3. \A i \in 1 .. n : pages[i] \in Nat
      BY <2>2, <2>3
    <3> QED
      BY <2>2, <3>2, <3>3
  <2> QED
    BY <1>1, <1>3, <2>2, <2>4, QueuedMoves DEF CreateOcr
<1>4. CASE RetryOcr
  <2> DEFINE s == row["ocr"].selected
  <2>1. s \in Seq(Nat) /\ Len(s) <= Len(pdf)
    BY <1>1, RowsAre DEF RowType
  <2>2. Len(s) \in Nat /\ s \in [1 .. Len(s) -> Nat]
    BY <2>1
  <2> QED
    BY <1>1, <1>4, <2>1, <2>2, QueuedMoves DEF RetryOcr
<1> QED
  BY <1>2, <1>3, <1>4

LEMMA CancelMoves ==
  ASSUME IInv, NEW r \in Readings, Cancel(r)
  PROVE  Moves
<1> DEFINE x == [row[r] EXCEPT !.status = "cancelled"]
           y == [job[r] EXCEPT !.status = "cancelled"]
<1>1. row[r] \in RowType /\ job[r] \in JobType /\ job[r].status = "pending"
  BY RowsAre DEF Cancel, Matches
<1>2. row' = [row EXCEPT ![r] = x] /\ job' = [job EXCEPT ![r] = y]
  BY <1>1 DEF Cancel
<1>3. x.status = "cancelled" /\ y \in JobType /\ y.status = "cancelled"
  BY <1>1 DEF RowType, JobType, JobEnded
<1>4. Matches(x, y)
  BY <1>3 DEF Matches, Read, TextFinal, OcrFinal
<1>5. Fate(r, x)
  BY <1>2, <1>3, SeenAfter DEF Cancel, Fate, Stopped, Open, Ended
<1> QED
  BY <1>2, <1>3, <1>4, <1>5, StatusesMove DEF Cancel, Open, RowStatuses, Ended

\* A job that is pending or leased is that of a row that is open.
LEMMA OpenJob ==
  ASSUME IInv, NEW r \in Readings, job[r].status \in {"pending", "leased"}
  PROVE  row[r].status \in Open /\ row[r].status \notin Ended
  BY RowsAre DEF Matches, Open, Ended, Read, TextFinal, OcrFinal

LEMMA ClaimMoves ==
  ASSUME IInv, NEW a \in Agents, NEW r \in Readings, Claim(a, r)
  PROVE  /\ Moves /\ row'[r].status = "working" /\ row'[r].selected = row[r].selected
         /\ \E s \in [1 .. Len(row[r].selected) -> Outcomes] :
              /\ s \in seen'[r]
              /\ agent' = [agent EXCEPT ![a] = [task |-> r, seen |-> s, sent |-> 0]]
<1> DEFINE x == [row[r] EXCEPT !.status = "working"]
           y == [status |-> "leased", attempt |-> job[r].attempt + 1, holder |-> a, live |-> TRUE]
<1>1. /\ row \in [Readings -> RowType] /\ row[r] \in RowType /\ job[r] \in JobType
      /\ job \in [Readings -> JobType] /\ seen \in [Readings -> SUBSET Seq(Outcomes)]
      /\ row[r].status \in Open
  BY RowsAre, OpenJob DEF Claim, Claimable
<1>2. /\ row' = [row EXCEPT ![r] = x]
      /\ job' = [job EXCEPT ![r] = y]
  BY <1>1 DEF Claim, Started, Open
<1>3. y \in JobType
  <2>1. job[r].attempt \in 0 .. MaxAttempts /\ job[r].attempt < MaxAttempts
    BY <1>1 DEF JobType, Claim
  <2>2. job[r].attempt + 1 \in 0 .. MaxAttempts
    BY <2>1, TextAssumption
  <2> QED
    BY <2>2 DEF JobType
<1>4. x.status = "working" /\ x.selected = row[r].selected /\ Matches(x, y)
  BY <1>1 DEF RowType, Matches, Read, TextFinal, OcrFinal
<1>5. PICK s \in Seeings(r) :
        /\ agent' = [agent EXCEPT ![a] = [task |-> r, seen |-> s, sent |-> 0]]
        /\ seen' = [seen EXCEPT ![r] = @ \cup {s}]
  BY DEF Claim
<1>6. s \in [1 .. Len(row[r].selected) -> Outcomes] /\ s \in seen'[r]
  BY <1>1, <1>5 DEF Seeings
<1>7. Fate(r, x)
  BY <1>1, <1>4, <1>5, <1>6 DEF Fate, Attempted, Open
<1>8. Moves
  BY <1>1, <1>2, <1>3, <1>4, <1>7, StatusesMove DEF Claim, RowStatuses
<1>9. row'[r] = x
  BY <1>1, <1>2
<1> QED
  BY <1>4, <1>5, <1>6, <1>8, <1>9

\* No attempt follows: the row has failed and its job has ended.
LEMMA FailedMoves ==
  ASSUME IInv, NEW r \in Readings, job[r].status \in {"pending", "leased"},
         NEW y \in JobType, y.status \in {"failed", "dead_letter"},
         row' = Failed(r), job' = [job EXCEPT ![r] = y], pdf' = pdf, SeenUntilEnded
  PROVE  Moves
<1> DEFINE x == [row[r] EXCEPT !.status = "failed"]
<1>1. row[r] \in RowType /\ row[r].status \in Open /\ row' = [row EXCEPT ![r] = x]
  BY RowsAre, OpenJob DEF Failed
<1>2. x.status = "failed" /\ Matches(x, y)
  BY <1>1 DEF RowType, Matches, Read, TextFinal, OcrFinal
<1>3. Fate(r, x)
  BY <1>1, <1>2, SeenAfter DEF Fate, Stopped, Ended
<1> QED
  BY <1>1, <1>2, <1>3, StatusesMove DEF RowStatuses, Ended

LEMMA DeadLetterTyped ==
  ASSUME IInv, NEW r \in Readings
  PROVE  \E y \in JobType : y.status = "dead_letter" /\ DeadLettered(r) = [job EXCEPT ![r] = y]
<1> DEFINE y == [job[r] EXCEPT !.status = "dead_letter", !.holder = Nobody, !.live = FALSE]
<1>1. job[r] \in JobType /\ job \in [Readings -> JobType]
  BY RowsAre
<1>2. y \in JobType /\ y.status = "dead_letter"
  BY <1>1 DEF JobType, JobEnded
<1>3. DeadLettered(r) = [job EXCEPT ![r] = y]
  BY <1>1 DEF DeadLettered
<1> QED
  BY <1>2, <1>3

LEMMA ClaimExhaustedMoves ==
  ASSUME IInv, NEW a \in Agents, NEW r \in Readings, ClaimExhausted(a, r)
  PROVE  Moves
  BY DeadLetterTyped, FailedMoves DEF ClaimExhausted, Claimable

LEMMA LeaseExpiresMoves ==
  ASSUME IInv, NEW r \in Readings, LeaseExpires(r)
  PROVE  Moves
<1> DEFINE y == [job[r] EXCEPT !.live = FALSE]
<1>1. row[r] \in RowType /\ job[r] \in JobType /\ Matches(row[r], job[r])
      /\ row \in [Readings -> RowType] /\ job \in [Readings -> JobType]
      /\ row[r].status \in Open
  BY RowsAre, OpenJob DEF LeaseExpires
<1>2. y \in JobType /\ y.status = job[r].status
  BY <1>1 DEF JobType
<1>3. row' = [row EXCEPT ![r] = row[r]] /\ job' = [job EXCEPT ![r] = y]
  BY <1>1 DEF LeaseExpires
<1>4. Matches(row[r], y) /\ Fate(r, row[r])
  BY <1>1, <1>2 DEF Matches, Fate, Attempted, LeaseExpires
<1>5. row[r] = [row[r] EXCEPT !.status = row[r].status] /\ row[r].status \in RowStatuses \ {"absent"}
  BY <1>1 DEF RowType, Open
<1> QED
  BY <1>1, <1>2, <1>3, <1>4, <1>5, StatusesMove DEF LeaseExpires

\* A page is stored by the attempt that holds the lease.
LEMMA StoredMoves ==
  ASSUME IInv, NEW c \in [agent : Agents, task : Readings, seq : Nat, page : Outcomes],
         c.seq <= Len(row[c.task].selected),
         Accepts(c), row' = Stored(c), UNCHANGED <<pdf, job, seen>>
  PROVE  Moves
<1> DEFINE r == c.task
           p == IF c.seq = Len(row[r].pages) + 1 THEN Append(row[r].pages, c.page)
                ELSE row[r].pages
           x == [row[r] EXCEPT !.pages = p]
<1>1. /\ r \in Readings /\ row[r] \in RowType /\ job[r] \in JobType
      /\ row \in [Readings -> RowType] /\ job \in [Readings -> JobType]
      /\ Matches(row[r], job[r])
      /\ Len(row[r].pages) <= Len(row[r].selected) /\ Len(row[r].selected) <= Len(pdf)
      /\ row[r].status = "working"
  BY RowsAre DEF Accepts
<1>2. row[r].pages \in Seq(Outcomes) /\ c.page \in Outcomes
  BY <1>1 DEF RowType
<1>3. p \in Seq(Outcomes) /\ Len(p) <= Len(row[r].selected)
  <2>1. CASE c.seq = Len(row[r].pages) + 1
    <3>1. /\ p = Append(row[r].pages, c.page) /\ Len(p) = Len(row[r].pages) + 1
          /\ p \in Seq(Outcomes)
      BY <1>2, <2>1
    <3> QED
      BY <2>1, <3>1
  <2>2. CASE c.seq # Len(row[r].pages) + 1
    BY <1>1, <1>2, <2>2
  <2> QED
    BY <2>1, <2>2
<1>4. row' = [row EXCEPT ![r] = x] /\ job' = [job EXCEPT ![r] = job[r]]
  <2>1. job' = [job EXCEPT ![r] = job[r]]
    BY <1>1
  <2>2. row' = [row EXCEPT ![r] = x]
    <3>1. CASE c.seq = Len(row[r].pages) + 1
      BY <1>1, <3>1 DEF Stored
    <3>2. CASE c.seq # Len(row[r].pages) + 1
      <4>1. x = row[r]
        BY <1>1, <3>2 DEF RowType
      <4> HIDE DEF x
      <4> QED
        BY <1>1, <3>2, <4>1 DEF Stored
    <3> QED
      BY <3>1, <3>2
  <2> QED
    BY <2>1, <2>2
<1> HIDE DEF p
<1>5. /\ x \in RowType /\ x.status = "working" /\ x.selected = row[r].selected
      /\ x.pages = p
  BY <1>1, <1>3 DEF RowType
<1>6. Matches(x, job[r]) /\ Fate(r, x)
  BY <1>1, <1>5 DEF Matches, Fate, Attempted, Open
<1> HIDE DEF x, r
<1>7. Writes(r, x, job[r])
  BY <1>1, <1>3, <1>4, <1>5, <1>6 DEF Writes, Ended, Read, TextFinal, OcrFinal
<1> QED
  BY <1>1, <1>6, <1>7 DEF Moves

LEMMA ReadStatuses ==
  ASSUME NEW r, NEW pages
  PROVE  StatusOf(r, pages) \in Read
  BY DEF StatusOf, TextStatus, OcrStatus, Read, TextFinal, OcrFinal

\* A report of what an attempt has seen.
LEMMA FinishMoves ==
  ASSUME IInv, NEW a \in Agents, NEW r \in Readings, NEW s, Finish(a, r, s),
         row[r].status \notin Ended => s \in seen[r], SeenUntilEnded, pdf' = pdf
  PROVE  Moves
<1>1. CASE ~Holds(a, r)
  BY <1>1, SeenRests DEF Finish, Moves, Rests
<1>2. CASE Holds(a, r) /\ row[r].status = "working" /\ SummaryMatches(r, s)
  <2> DEFINE st == StatusOf(r, row[r].pages)
             x == [row[r] EXCEPT !.status = st]
             y == [job[r] EXCEPT !.status = "succeeded"]
  <2>1. row[r] \in RowType /\ job[r] \in JobType
    BY RowsAre
  <2>2. st \in Read
    BY ReadStatuses
  <2>3. row' = [row EXCEPT ![r] = x] /\ job' = [job EXCEPT ![r] = y]
    BY <1>2, <2>1 DEF Finish, Finalized
  <2> HIDE DEF st
  <2>4. /\ x.status = st /\ x.pages = row[r].pages
        /\ y \in JobType /\ y.status = "succeeded"
    BY <2>1 DEF RowType, JobType, JobEnded
  <2>5. Matches(x, y)
    BY <2>2, <2>4 DEF Matches, Read, TextFinal, OcrFinal
  <2>6. Fate(r, x)
    <3>1. s = row[r].pages /\ s \in seen[r] /\ row[r].status \in Open
      BY <1>2 DEF SummaryMatches, Open, Ended, Read, TextFinal, OcrFinal
    <3>2. seen' = [seen EXCEPT ![r] = {}]
      BY <2>2, <2>3, <2>4, SeenAfter DEF Ended
    <3> QED
      BY <2>2, <2>4, <3>1, <3>2 DEF Fate, Settled, st
  <2> QED
    <3>1. st \in RowStatuses \ {"absent"}
      BY <2>2 DEF RowStatuses, Ended, Read, TextFinal, OcrFinal
    <3>2. row[r].status \in Open
      BY <1>2 DEF Open
    <3>3. x = [row[r] EXCEPT !.status = x.status] /\ x.status \in RowStatuses \ {"absent"}
      BY <2>4, <3>1
    <3> HIDE DEF x, y
    <3> QED
      BY <2>3, <2>4, <2>5, <2>6, <3>2, <3>3, StatusesMove
<1>3. CASE Holds(a, r) /\ ~(row[r].status = "working" /\ SummaryMatches(r, s))
  <2> DEFINE y == [job[r] EXCEPT !.status = "failed"]
  <2>1. job[r] \in JobType
    BY RowsAre
  <2>2. y \in JobType /\ y.status = "failed"
    BY <2>1 DEF JobType, JobEnded
  <2>3. row' = Failed(r) /\ job' = [job EXCEPT ![r] = y]
    BY <1>3, <2>1 DEF Finish
  <2> QED
    BY <1>3, <2>2, <2>3, FailedMoves DEF Holds
<1> QED
  BY <1>1, <1>2, <1>3

LEMMA ReportFailedMoves ==
  ASSUME IInv, NEW a \in Agents, ReportFailed(a)
  PROVE  Moves
<1> DEFINE r == agent[a].task
<1>1. r \in Readings /\ SeenUntilEnded /\ pdf' = pdf
  BY DEF ReportFailed, IInv, TypeOK, AgentType
<1>2. \/ UNCHANGED <<row, job>>
      \/ Holds(a, r) /\ row' = Failed(r) /\ job' = DeadLettered(r)
      \/ /\ Holds(a, r) /\ row' = Requeued(r)
         /\ job' = [job EXCEPT ![r].status = "pending",
                               ![r].holder = Nobody, ![r].live = FALSE]
  BY DEF ReportFailed
<1> HIDE DEF r
<1>3. CASE UNCHANGED <<row, job>>
  BY <1>1, <1>3, SeenRests DEF Moves, Rests
<1>4. CASE Holds(a, r) /\ row' = Failed(r) /\ job' = DeadLettered(r)
  BY <1>1, <1>4, DeadLetterTyped, FailedMoves DEF Holds
<1>5. CASE /\ Holds(a, r) /\ row' = Requeued(r)
           /\ job' = [job EXCEPT ![r].status = "pending",
                                 ![r].holder = Nobody, ![r].live = FALSE]
  <2> DEFINE x == [row[r] EXCEPT !.status = "queued"]
             y == [job[r] EXCEPT !.status = "pending", !.holder = Nobody, !.live = FALSE]
  <2>1. /\ row[r] \in RowType /\ job[r] \in JobType /\ job \in [Readings -> JobType]
        /\ row[r].status \in Open /\ row[r].status \notin Ended
    BY <1>1, <1>5, RowsAre, OpenJob DEF Holds
  <2>2. row' = [row EXCEPT ![r] = x] /\ job' = [job EXCEPT ![r] = y]
    BY <1>1, <1>5, <2>1 DEF Requeued
  <2>3. y \in JobType /\ y.status = "pending" /\ x.status = "queued"
    BY <2>1 DEF JobType, RowType
  <2>4. Matches(x, y) /\ x.status \notin Ended
    BY <2>3 DEF Matches, Ended, Read, TextFinal, OcrFinal
  <2>5. Fate(r, x)
    BY <1>1, <2>1, <2>2, <2>3, <2>4, SeenAfter DEF Fate, Attempted, Open
  <2> QED
    BY <1>1, <2>1, <2>2, <2>3, <2>4, <2>5, StatusesMove DEF RowStatuses
<1> QED
  BY <1>2, <1>3, <1>4, <1>5

-----------------------------------------------------------------------------
(* What agents hold, and what is on its way                                *)

SameTask(a) ==
  agent'[a].task = agent[a].task /\ agent'[a].seen \in {agent[a].seen, <<>>}

\* The agents and the messages after a step.
AgentsGo ==
  /\ agent' \in [Agents -> AgentType]
  /\ \A a \in Agents : SameTask(a) \/ agent'[a] = Idle \/ AgentKnows(a)'

ChunkType == [agent : Agents, task : Readings, seq : Nat, page : Outcomes]
ReportType == [agent : Agents, task : Readings, seen : Seq(Outcomes)]

MessagesGo ==
  /\ wire' \subseteq ChunkType /\ late' \subseteq ReportType /\ faults' \in 0 .. MaxFaults
  /\ \A c \in wire' : c \in wire \/ ChunkKnown(c)
  /\ \A m \in late' : m \in late \/ ReportKnown(m)

LEMMA StepKeeps ==
  ASSUME IInv, Moves, AgentsGo, MessagesGo
  PROVE  IInv'
<1>1. RowsFit
  BY DEF IInv, TypeOK, RowsFit, RowsTyped
<1>2. RowsFit' /\ Grows
  BY <1>1, MovesKeep
<1>3. TypeOK'
  BY <1>2 DEF RowsFit, RowsTyped, TypeOK, AgentsGo, MessagesGo, ChunkType, ReportType
<1>4. \A a \in Agents : AgentKnows(a)'
  <2>a. \A a \in Agents : agent'[a] = Idle => AgentKnows(a)'
    BY DEF AgentKnows, Idle
  <2>b. \A a \in Agents : SameTask(a) /\ agent[a].task = "none" => AgentKnows(a)'
    BY DEF AgentKnows, SameTask, IInv, Known
  <2> SUFFICES ASSUME NEW a \in Agents, SameTask(a), agent[a].task # "none"
               PROVE  AgentKnows(a)'
    BY <2>a, <2>b DEF AgentsGo
  <2> DEFINE r == agent[a].task
  <2>1. r \in Readings /\ r # "none" /\ AgentKnows(a) /\ agent'[a].task = r
    BY DEF IInv, TypeOK, AgentType, Known, SameTask
  <2>2. /\ row[r].status # "absent" /\ row'[r].status # "absent"
        /\ row'[r].selected = row[r].selected
        /\ row[r].status \in Ended => row'[r].status \in Ended
        /\ row'[r].status \notin Ended => seen[r] \subseteq seen'[r]
    BY <1>2, <2>1 DEF Grows, AgentKnows
  <2>3. /\ agent[a].seen = <<>> \/ Len(agent[a].seen) = Len(row[r].selected)
        /\ agent[a].seen # <<>> /\ row[r].status \notin Ended => agent[a].seen \in seen[r]
    BY <2>1 DEF AgentKnows
  <2>4. agent'[a].seen \in {agent[a].seen, <<>>}
    BY DEF SameTask
  <2> HIDE DEF r
  <2> QED
    BY <2>1, <2>2, <2>3, <2>4 DEF AgentKnows
<1>5. \A c \in wire' : ChunkKnown(c)'
  <2> SUFFICES ASSUME NEW c \in wire' PROVE ChunkKnown(c)'
    OBVIOUS
  <2>1. c.task \in Readings /\ ChunkKnown(c)
    BY DEF MessagesGo, ChunkType, IInv, Known
  <2> QED
    BY <1>2, <2>1 DEF Grows, ChunkKnown
<1>6. \A m \in late' : ReportKnown(m)'
  <2> SUFFICES ASSUME NEW m \in late' PROVE ReportKnown(m)'
    OBVIOUS
  <2>1. m.task \in Readings /\ ReportKnown(m)
    BY DEF MessagesGo, ReportType, IInv, Known
  <2> QED
    BY <1>2, <2>1 DEF Grows, ReportKnown
<1> QED
  BY <1>2, <1>3, <1>4, <1>5, <1>6 DEF IInv, Known, RowsFit

\* Agents and messages stay as they are.
LEMMA AgentsStay ==
  ASSUME IInv, agent' = agent
  PROVE  AgentsGo
  BY DEF IInv, TypeOK, AgentsGo, SameTask

LEMMA MessagesStay ==
  ASSUME IInv, wire' \subseteq wire, late' \subseteq late, faults' = faults \/ Fault
  PROVE  MessagesGo
<1>1. faults' \in 0 .. MaxFaults
  BY TextAssumption DEF IInv, TypeOK, Fault
<1> QED
  BY <1>1 DEF IInv, TypeOK, MessagesGo, ChunkType, ReportType

LEMMA AgentIdles ==
  ASSUME IInv, NEW a \in Agents, agent' = [agent EXCEPT ![a] = Idle]
  PROVE  AgentsGo
<1>1. Idle \in AgentType /\ Idle.task = "none"
  BY DEF Idle, AgentType
<1> QED
  BY <1>1 DEF IInv, TypeOK, AgentsGo, SameTask

LEMMA NothingMoves ==
  ASSUME UNCHANGED <<pdf, row, job, seen>>
  PROVE  Moves
  BY DEF Moves, Rests

\* Every step moves the rows so, and the agents and messages.
Steps == Moves /\ AgentsGo /\ MessagesGo

LEMMA PeopleAndClocks ==
  ASSUME IInv,
         \/ CreateText \/ CreateOcr \/ RetryOcr
         \/ \E r \in Readings : Cancel(r) \/ LeaseExpires(r)
         \/ \E a \in Agents, r \in Readings : ClaimExhausted(a, r)
  PROVE  Steps
<1>1. UNCHANGED <<agent, wire, late>> /\ (faults' = faults \/ Fault)
  BY DEF CreateText, CreateOcr, RetryOcr, Cancel, LeaseExpires, ClaimExhausted
<1>2. AgentsGo /\ MessagesGo
  BY <1>1, AgentsStay, MessagesStay
<1>3. Moves
  BY OrdersMove, CancelMoves, LeaseExpiresMoves, ClaimExhaustedMoves
<1> QED
  BY <1>2, <1>3 DEF Steps

LEMMA ClaimSteps ==
  ASSUME IInv, NEW a \in Agents, NEW r \in Readings, Claim(a, r)
  PROVE  Steps
<1>1. PICK s \in [1 .. Len(row[r].selected) -> Outcomes] :
        s \in seen'[r] /\ agent' = [agent EXCEPT ![a] = [task |-> r, seen |-> s, sent |-> 0]]
  BY ClaimMoves
<1>2. row'[r].status = "working" /\ row'[r].selected = row[r].selected /\ Moves
  BY ClaimMoves
<1>3. Len(row[r].selected) \in Nat
  BY RowsAre DEF RowType
<1>4. s \in Seq(Outcomes) /\ Len(s) = Len(row[r].selected)
  BY <1>1, <1>3, SeenTyped
<1> DEFINE g == [task |-> r, seen |-> s, sent |-> 0]
<1>5. g \in AgentType /\ g.task = r /\ g.seen = s
  BY <1>4 DEF AgentType
<1> HIDE DEF g
<1>6. agent' = [agent EXCEPT ![a] = g] /\ agent \in [Agents -> AgentType]
  BY <1>1 DEF g, IInv, TypeOK
<1>7. agent'[a] = g
  BY <1>6
<1>8. AgentKnows(a)'
  <2>1. agent'[a].task = r /\ agent'[a].seen = s /\ r # "none"
    BY <1>5, <1>7 DEF Readings
  <2>2. Len(s) = Len(row'[r].selected)
    BY <1>2, <1>4
  <2> QED
    BY <1>1, <1>2, <2>1, <2>2, Zenon DEF AgentKnows
<1>9. AgentsGo
  BY <1>5, <1>6, <1>8 DEF AgentsGo, SameTask
<1> QED
  BY <1>2, <1>9, MessagesStay DEF Steps, Claim

\* The page that an agent sends next is one of those ordered.
LEMMA ChunkTyped ==
  ASSUME IInv, NEW a \in Agents, Reading(a)
  PROVE  /\ Chunk(a) \in ChunkType /\ Chunk(a).task = agent[a].task
         /\ Chunk(a).seq <= Len(row[agent[a].task].selected)
         /\ row[agent[a].task].status # "absent"
<1>1. /\ agent[a] \in AgentType /\ agent[a].task \in Readings /\ agent[a].seen \in Seq(Outcomes)
      /\ agent[a].sent \in Nat /\ agent[a].sent < Len(agent[a].seen)
      /\ agent[a].task # "none"
  BY DEF IInv, TypeOK, AgentType, Reading
<1>2. agent[a].seen[agent[a].sent + 1] \in Outcomes /\ agent[a].seen # <<>>
  BY <1>1
<1>3. AgentKnows(a)
  BY DEF IInv, Known
<1>4. /\ Len(agent[a].seen) = Len(row[agent[a].task].selected)
      /\ row[agent[a].task].status # "absent"
  BY <1>1, <1>2, <1>3 DEF AgentKnows
<1> QED
  BY <1>1, <1>2, <1>4 DEF Chunk, ChunkType

LEMMA ChunksStep ==
  ASSUME IInv, NEW a \in Agents, SendChunk(a) \/ LoseAnswer(a)
  PROVE  Steps
<1>1. Chunk(a) \in ChunkType /\ Chunk(a).seq <= Len(row[Chunk(a).task].selected)
      /\ row[Chunk(a).task].status # "absent"
  BY ChunkTyped DEF SendChunk, LoseAnswer
<1>2. agent \in [Agents -> AgentType] /\ agent[a] \in AgentType
  BY DEF IInv, TypeOK
<1>3. CASE SendChunk(a)
  <2> DEFINE g == [agent[a] EXCEPT !.sent = agent[a].sent + 1]
  <2>1. agent' = [agent EXCEPT ![a] = g]
    BY <1>2, <1>3 DEF SendChunk
  <2>2. g \in AgentType /\ g.task = agent[a].task /\ g.seen = agent[a].seen
    <3>1. agent[a].sent + 1 \in Nat
      BY <1>2 DEF AgentType
    <3> QED
      BY <1>2, <3>1 DEF AgentType
  <2> HIDE DEF g
  <2>3. AgentsGo
    BY <1>2, <2>1, <2>2 DEF AgentsGo, SameTask
  <2>4. Moves
    BY <1>1, <1>3, StoredMoves DEF SendChunk, ChunkType
  <2> QED
    BY <1>3, <2>3, <2>4, MessagesStay DEF SendChunk, Steps
<1>4. CASE LoseAnswer(a)
  <2> DEFINE g == [agent[a] EXCEPT !.seen = <<>>, !.sent = 1]
  <2>1. agent' = [agent EXCEPT ![a] = g]
    BY <1>2, <1>4 DEF LoseAnswer
  <2>2. g \in AgentType /\ g.task = agent[a].task /\ g.seen = <<>>
    <3>1. <<>> \in Seq(Outcomes) /\ 1 \in Nat
      OBVIOUS
    <3> QED
      BY <1>2, <3>1 DEF AgentType
  <2> HIDE DEF g
  <2>3. AgentsGo
    BY <1>2, <2>1, <2>2 DEF AgentsGo, SameTask
  <2>4. MessagesGo
    <3>1. ChunkKnown(Chunk(a))
      BY <1>1 DEF ChunkKnown
    <3>2. wire' = wire \cup {Chunk(a)} /\ late' = late /\ faults' \in 0 .. MaxFaults
      BY <1>4, TextAssumption DEF LoseAnswer, Fault, IInv, TypeOK
    <3> QED
      BY <1>1, <3>1, <3>2 DEF MessagesGo, IInv, TypeOK, ChunkType, ReportType
  <2>5. Moves
    BY <1>4, NothingMoves DEF LoseAnswer
  <2> QED
    BY <2>3, <2>4, <2>5 DEF Steps
<1> QED
  BY <1>3, <1>4

LEMMA ReportsStep ==
  ASSUME IInv, NEW a \in Agents,
         ReportRead(a) \/ LoseReport(a) \/ ReportFailed(a) \/ Abandon(a)
  PROVE  Steps
<1>1. AgentsGo
  BY AgentIdles DEF ReportRead, LoseReport, ReportFailed, Abandon
<1>2. AgentKnows(a) /\ agent[a] \in AgentType
  BY DEF IInv, TypeOK, Known
<1>3. ASSUME Uploaded(a)
      PROVE  /\ agent[a].task \in Readings /\ agent[a].seen \in Seq(Outcomes)
             /\ row[agent[a].task].status \notin Ended => agent[a].seen \in seen[agent[a].task]
  BY <1>2, <1>3 DEF AgentKnows, AgentType, Uploaded
<1>4. CASE ReportRead(a)
  BY <1>1, <1>3, <1>4, FinishMoves, MessagesStay DEF ReportRead, Steps
<1>5. CASE LoseReport(a)
  <2> DEFINE m == [agent |-> a, task |-> agent[a].task, seen |-> agent[a].seen]
  <2>1. m \in ReportType /\ ReportKnown(m)
    BY <1>3, <1>5 DEF LoseReport, ReportType, ReportKnown
  <2>2. wire' = wire /\ late' = late \cup {m} /\ faults' \in 0 .. MaxFaults
    BY <1>5, TextAssumption DEF LoseReport, Fault, IInv, TypeOK
  <2> HIDE DEF m
  <2>3. MessagesGo
    BY <2>1, <2>2 DEF MessagesGo, IInv, TypeOK, ChunkType, ReportType
  <2> QED
    BY <1>1, <1>5, <2>3, NothingMoves DEF LoseReport, Steps
<1>6. CASE ReportFailed(a)
  <2>1. UNCHANGED <<wire, late>> /\ (faults' = faults \/ Fault)
    BY <1>6 DEF ReportFailed, WorkerFails, ChunkRefused, ChunkUnanswered
  <2> QED
    BY <1>1, <1>6, <2>1, ReportFailedMoves, MessagesStay DEF Steps
<1>7. CASE Abandon(a)
  BY <1>1, <1>7, NothingMoves, MessagesStay DEF Abandon, Steps
<1> QED
  BY <1>4, <1>5, <1>6, <1>7

LEMMA LateStep ==
  ASSUME IInv,
         (\E c \in wire : ChunkArrivesLate(c)) \/ (\E m \in late : ReportArrivesLate(m))
  PROVE  Steps
<1>1. ASSUME NEW c \in wire, ChunkArrivesLate(c)
      PROVE  Steps
  <2>1. c \in [agent : Agents, task : Readings, seq : Nat, page : Outcomes] /\ ChunkKnown(c)
    BY DEF IInv, TypeOK, Known
  <2>2. CASE Accepts(c)
    BY <1>1, <2>1, <2>2, StoredMoves, AgentsStay, MessagesStay
       DEF ChunkArrivesLate, ChunkKnown, Steps
  <2>3. CASE ~Accepts(c)
    BY <1>1, <2>3, NothingMoves, AgentsStay, MessagesStay DEF ChunkArrivesLate, Steps
  <2> QED
    BY <2>2, <2>3
<1>2. ASSUME NEW m \in late, ReportArrivesLate(m)
      PROVE  Steps
  <2>1. m.agent \in Agents /\ m.task \in Readings /\ ReportKnown(m)
    BY DEF IInv, TypeOK, Known
  <2>2. Moves
    BY <1>2, <2>1, FinishMoves DEF ReportArrivesLate, ReportKnown
  <2> QED
    BY <1>2, <2>2, AgentsStay, MessagesStay DEF ReportArrivesLate, Steps
<1> QED
  BY <1>1, <1>2

LEMMA EveryStep ==
  ASSUME IInv, [Next]_vars
  PROVE  Steps
<1>1. CASE UNCHANGED vars
  BY <1>1, NothingMoves, AgentsStay, MessagesStay DEF vars, Steps
<1>2. CASE Next
  BY <1>2, PeopleAndClocks, ClaimSteps, ChunksStep, ReportsStep, LateStep DEF Next
<1> QED
  BY <1>1, <1>2

-----------------------------------------------------------------------------
THEOREM Inductive == Spec => []IInv
<1>1. IInv /\ [Next]_vars => IInv'
  BY EveryStep, StepKeeps DEF Steps
<1> QED
  BY <1>1, InitIInv, PTL DEF Spec

\* Rows, jobs, agents and messages keep their types; no job is leased more often
\* than max_attempts, and no row has more pages than were ordered.
THEOREM TypeCorrect == Spec => []TypeOK
<1>1. IInv => TypeOK
  BY DEF IInv
<1> QED
  BY <1>1, Inductive, PTL

\* A row waits, is worked on or has ended exactly as its job does, whatever
\* leases, reports and chunks are lost or late.
THEOREM RowsFollowJobs == Spec => []RowFollowsJob
<1>1. IInv => RowFollowsJob
  BY DEF IInv
<1> QED
  BY <1>1, Inductive, PTL

\* Leases, attempts, chunks and late messages implement PolicyReading: a reading
\* is settled in one step, with all that one of its attempts saw, for good.
THEOREM ReadingImplemented == Spec => Promise!Init /\ [][Promise!Next]_(Promise!vars)
<1>1. Init => Promise!Init
  <2> SUFFICES ASSUME Init PROVE Promise!Init
    OBVIOUS
  <2>1. \A r \in Readings : row[r].status = "absent"
    BY DEF Init, NoRow
  <2>2. \A r \in Readings : StateOf(r) = "absent"
    BY <2>1, StatesOf
  <2> QED
    BY <2>2 DEF Promise!Init, Init
<1>2. IInv /\ [Next]_vars => [Promise!Next]_(Promise!vars)
  <2>1. IInv => RowsFit
    BY DEF IInv, TypeOK, RowsFit, RowsTyped
  <2> QED
    BY <2>1, EveryStep, MovesRefine DEF Steps
<1> QED
  BY <1>1, <1>2, Inductive, PTL DEF Spec
===============================================================================
