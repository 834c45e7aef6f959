----------------------------- MODULE MoneyProofs ------------------------------
(***************************************************************************)
(* What the office pays and is paid, for every value of the constants: the *)
(* calls of a provider and the budget of a month, the fee of a closure,    *)
(* the value a vehicle has lost.                                           *)
(***************************************************************************)
EXTENDS Office, FiniteSetTheorems, WellFoundedInduction, TLAPS

-----------------------------------------------------------------------------
(* Sums over finite sets                                                   *)

\* Induction over numbers, of a set: what holds T, from 0 on, holds every number.
LEMMA NumberInduction ==
  ASSUME NEW T, 0 \in T, \A n \in Nat : n \in T => n + 1 \in T
  PROVE  Nat \subseteq T
<1>1. IsWellFoundedOn(OpToRel(<, Nat), Nat)
  BY NatLessThanWellFounded
<1> DEFINE left == Nat \ T
<1>2. CASE left # {}
  <2>1. PICK n \in left : \A m \in left : <<m, n>> \notin OpToRel(<, Nat)
    BY <1>1, <1>2, WFMin
  <2>2. \A m \in left : ~(m < n)
    BY <2>1 DEF OpToRel
  <2> QED
    BY <2>2
<1> QED
  BY <1>2

\* Induction over the subsets of a finite set: T holds {}, and with every set
\* that lacks one of its elements the set itself.
LEMMA SubsetInduction ==
  ASSUME NEW S, IsFiniteSet(S), NEW T, {} \in T,
         \A s \in SUBSET S : s # {} /\ s \ {CHOOSE x \in s : TRUE} \in T => s \in T
  PROVE  SUBSET S \subseteq T
<1> DEFINE upTo == {n \in Nat : \A s \in SUBSET S : Cardinality(s) <= n => s \in T}
<1>1. ASSUME NEW s \in SUBSET S
      PROVE  IsFiniteSet(s) /\ Cardinality(s) \in Nat /\ (Cardinality(s) = 0 <=> s = {})
  BY <1>1, FS_Subset, FS_CardinalityType, FS_EmptySet
<1>2. 0 \in upTo
  BY <1>1
<1>3. ASSUME NEW n \in Nat, n \in upTo PROVE n + 1 \in upTo
  <2>1. ASSUME NEW s \in SUBSET S, Cardinality(s) <= n + 1, s # {} PROVE s \in T
    <3> DEFINE x == CHOOSE x \in s : TRUE
    <3>1. x \in s
      BY <2>1
    <3>2. Cardinality(s \ {x}) = Cardinality(s) - 1
      BY <1>1, <3>1, FS_RemoveElement
    <3>3. s \ {x} \in SUBSET S
      OBVIOUS
    <3>4. Cardinality(s \ {x}) <= n
      BY <1>1, <2>1, <3>2
    <3>5. s \ {x} \in T
      BY <1>3, <3>3, <3>4
    <3> QED
      BY <2>1, <3>5
  <2>2. \A s \in SUBSET S : Cardinality(s) <= n + 1 => s \in T
    BY <2>1
  <2> QED
    BY <2>2
<1>4. Nat \subseteq upTo
  <2> HIDE DEF upTo
  <2> QED
    BY <1>2, <1>3, NumberInduction
<1>5. ASSUME NEW s \in SUBSET S PROVE s \in T
  <2>1. Cardinality(s) \in upTo
    BY <1>1, <1>4
  <2> QED
    BY <1>1, <2>1
<1> QED
  BY <1>5

\* The sums over the subsets of S, each from the one with one element less.
SumStep(f, s, g) ==
  IF s = {} THEN 0
  ELSE f[CHOOSE x \in s : TRUE] + g[s \ {CHOOSE x \in s : TRUE}]

Sums(f, S) == CHOOSE g : g = [s \in SUBSET S |-> SumStep(f, s, g)]

LEMMA SumIsLast ==
  ASSUME NEW f, NEW S
  PROVE  Ai!SumFunctionOnSet(f, S) = Sums(f, S)[S]
BY DEF Ai!SumFunctionOnSet, Ai!FoldFunctionOnSet, Ai!MapThenFoldSet, Sums, SumStep

LEMMA SumsAre ==
  ASSUME NEW S, IsFiniteSet(S), NEW f
  PROVE  Sums(f, S) = [s \in SUBSET S |-> SumStep(f, s, Sums(f, S))]
<1> DEFINE Good(g, n) == \A s \in SUBSET S : Cardinality(s) <= n => g[s] = SumStep(f, s, g)
           upTo == {n \in Nat : \E g : g = [s \in SUBSET S |-> g[s]] /\ Good(g, n)}
<1>1. ASSUME NEW s \in SUBSET S
      PROVE  /\ IsFiniteSet(s) /\ Cardinality(s) \in Nat /\ (Cardinality(s) = 0 <=> s = {})
             /\ Cardinality(s) <= Cardinality(S)
  BY <1>1, FS_Subset, FS_CardinalityType, FS_EmptySet
<1>2. 0 \in upTo
  <2> DEFINE g == [s \in SUBSET S |-> 0]
  <2>1. Good(g, 0)
    BY <1>1 DEF SumStep
  <2> QED
    BY <2>1
<1>3. ASSUME NEW n \in Nat, n \in upTo PROVE n + 1 \in upTo
  <2>1. PICK g : g = [s \in SUBSET S |-> g[s]] /\ Good(g, n)
    BY <1>3
  <2> DEFINE h == [s \in SUBSET S |-> SumStep(f, s, g)]
  <2>2. ASSUME NEW s \in SUBSET S, Cardinality(s) <= n + 1 PROVE h[s] = SumStep(f, s, h)
    <3>1. CASE s = {}
      BY <3>1 DEF SumStep
    <3>2. CASE s # {}
      <4> DEFINE x == CHOOSE x \in s : TRUE
      <4>1. x \in s
        BY <3>2
      <4>2. Cardinality(s \ {x}) = Cardinality(s) - 1
        BY <1>1, <4>1, FS_RemoveElement
      <4>3. s \ {x} \in SUBSET S /\ Cardinality(s \ {x}) <= n
        BY <1>1, <2>2, <4>2
      <4>4. h[s \ {x}] = g[s \ {x}]
        BY <2>1, <4>3
      <4> HIDE DEF h
      <4>5. h[s] = SumStep(f, s, g)
        BY DEF h
      <4> QED
        BY <3>2, <4>4, <4>5 DEF SumStep
    <3> QED
      BY <3>1, <3>2
  <2> HIDE DEF h
  <2>3. Good(h, n + 1)
    BY <2>2
  <2>4. h = [s \in SUBSET S |-> h[s]]
    BY DEF h
  <2>5. \E k : k = [s \in SUBSET S |-> k[s]] /\ Good(k, n + 1)
    BY <2>3, <2>4
  <2> QED
    BY <2>5
<1>4. Nat \subseteq upTo
  <2> HIDE DEF upTo
  <2> QED
    BY <1>2, <1>3, NumberInduction
<1>5. PICK g : g = [s \in SUBSET S |-> g[s]] /\ Good(g, Cardinality(S))
  <2>1. Cardinality(S) \in upTo
    BY <1>4, FS_CardinalityType
  <2> QED
    BY <2>1
<1>6. g = [s \in SUBSET S |-> SumStep(f, s, g)]
  BY <1>1, <1>5
<1> QED
  BY <1>6 DEF Sums

\* What the sum of a function over a finite set is, for functions to numbers.
LEMMA SumsAreNumbers ==
  ASSUME NEW S, IsFiniteSet(S), NEW f \in [S -> Nat]
  PROVE  Sums(f, S) \in [SUBSET S -> Nat]
<1> DEFINE T == {s \in SUBSET S : Sums(f, S)[s] \in Nat}
<1>1. Sums(f, S) = [s \in SUBSET S |-> SumStep(f, s, Sums(f, S))]
  BY SumsAre
<1>2. {} \in T
  BY <1>1 DEF SumStep
<1>3. ASSUME NEW s \in SUBSET S, s # {}, s \ {CHOOSE x \in s : TRUE} \in T PROVE s \in T
  <2> DEFINE x == CHOOSE x \in s : TRUE
  <2>1. x \in s
    BY <1>3
  <2>2. f[x] \in Nat
    BY <2>1
  <2>3. Sums(f, S)[s] = f[x] + Sums(f, S)[s \ {x}]
    BY <1>1, <1>3 DEF SumStep
  <2> QED
    BY <1>3, <2>2, <2>3
<1>4. SUBSET S \subseteq T
  <2> HIDE DEF T
  <2> QED
    BY <1>2, <1>3, SubsetInduction
<1> QED
  BY <1>1, <1>4

LEMMA SumIsNumber ==
  ASSUME NEW S, IsFiniteSet(S), NEW f \in [S -> Nat]
  PROVE  Ai!SumFunction(f) \in Nat
<1>1. Ai!SumFunction(f) = Sums(f, S)[S]
  BY SumIsLast DEF Ai!SumFunction
<1>2. S \in SUBSET S /\ Sums(f, S) \in [SUBSET S -> Nat]
  BY SumsAreNumbers
<1> QED
  BY <1>1, <1>2

\* Where every value is at most another, so is the sum.
LEMMA SumGrows ==
  ASSUME NEW S, IsFiniteSet(S), NEW f \in [S -> Nat], NEW g \in [S -> Nat],
         \A x \in S : f[x] <= g[x]
  PROVE  Ai!SumFunction(f) <= Ai!SumFunction(g)
<1> DEFINE T == {s \in SUBSET S : Sums(f, S)[s] <= Sums(g, S)[s]}
<1>1. /\ Sums(f, S) = [s \in SUBSET S |-> SumStep(f, s, Sums(f, S))]
      /\ Sums(g, S) = [s \in SUBSET S |-> SumStep(g, s, Sums(g, S))]
      /\ Sums(f, S) \in [SUBSET S -> Nat] /\ Sums(g, S) \in [SUBSET S -> Nat]
  BY SumsAre, SumsAreNumbers
<1>2. {} \in T
  BY <1>1 DEF SumStep
<1>3. ASSUME NEW s \in SUBSET S, s # {}, s \ {CHOOSE x \in s : TRUE} \in T PROVE s \in T
  <2> DEFINE x == CHOOSE x \in s : TRUE
             rest == s \ {x}
  <2>1. x \in S /\ rest \in SUBSET S
    BY <1>3
  <2>2. f[x] \in Nat /\ g[x] \in Nat /\ f[x] <= g[x]
    BY <2>1
  <2>3. /\ Sums(f, S)[s] = f[x] + Sums(f, S)[rest]
        /\ Sums(g, S)[s] = g[x] + Sums(g, S)[rest]
    BY <1>1, <1>3 DEF SumStep
  <2>4. /\ Sums(f, S)[rest] \in Nat /\ Sums(g, S)[rest] \in Nat
        /\ Sums(f, S)[rest] <= Sums(g, S)[rest]
    BY <1>1, <1>3, <2>1
  <2> HIDE DEF x, rest
  <2> QED
    BY <1>3, <2>2, <2>3, <2>4
<1>4. S \in T
  <2> HIDE DEF T
  <2> QED
    BY <1>2, <1>3, SubsetInduction
<1> QED
  BY <1>4, SumIsLast DEF Ai!SumFunction

\* The sum of two functions.
LEMMA SumOfBoth ==
  ASSUME NEW S, IsFiniteSet(S), NEW f \in [S -> Nat], NEW g \in [S -> Nat],
         NEW h \in [S -> Nat], \A x \in S : h[x] = f[x] + g[x]
  PROVE  Ai!SumFunction(h) = Ai!SumFunction(f) + Ai!SumFunction(g)
<1> DEFINE T == {s \in SUBSET S : Sums(h, S)[s] = Sums(f, S)[s] + Sums(g, S)[s]}
<1>1. /\ Sums(f, S) = [s \in SUBSET S |-> SumStep(f, s, Sums(f, S))]
      /\ Sums(g, S) = [s \in SUBSET S |-> SumStep(g, s, Sums(g, S))]
      /\ Sums(h, S) = [s \in SUBSET S |-> SumStep(h, s, Sums(h, S))]
      /\ Sums(f, S) \in [SUBSET S -> Nat] /\ Sums(g, S) \in [SUBSET S -> Nat]
  BY SumsAre, SumsAreNumbers
<1>2. {} \in T
  BY <1>1 DEF SumStep
<1>3. ASSUME NEW s \in SUBSET S, s # {}, s \ {CHOOSE x \in s : TRUE} \in T PROVE s \in T
  <2> DEFINE x == CHOOSE x \in s : TRUE
             rest == s \ {x}
  <2>1. x \in S /\ rest \in SUBSET S
    BY <1>3
  <2>2. f[x] \in Nat /\ g[x] \in Nat /\ h[x] = f[x] + g[x]
    BY <2>1
  <2>3. /\ Sums(f, S)[s] = f[x] + Sums(f, S)[rest]
        /\ Sums(g, S)[s] = g[x] + Sums(g, S)[rest]
        /\ Sums(h, S)[s] = h[x] + Sums(h, S)[rest]
    BY <1>1, <1>3 DEF SumStep
  <2>4. /\ Sums(f, S)[rest] \in Nat /\ Sums(g, S)[rest] \in Nat
        /\ Sums(h, S)[rest] = Sums(f, S)[rest] + Sums(g, S)[rest]
    BY <1>1, <1>3, <2>1
  <2> HIDE DEF x, rest
  <2> QED
    BY <1>3, <2>2, <2>3, <2>4
<1>4. S \in T
  <2> HIDE DEF T
  <2> QED
    BY <1>2, <1>3, SubsetInduction
<1> QED
  BY <1>4, SumIsLast DEF Ai!SumFunction

\* The sum of a function that is 0 but for one argument.
LEMMA SumOfOne ==
  ASSUME NEW S, IsFiniteSet(S), NEW r \in S, NEW f \in [S -> Nat],
         \A x \in S \ {r} : f[x] = 0
  PROVE  Ai!SumFunction(f) = f[r]
<1> DEFINE T == {s \in SUBSET S : Sums(f, S)[s] = IF r \in s THEN f[r] ELSE 0}
<1>1. /\ Sums(f, S) = [s \in SUBSET S |-> SumStep(f, s, Sums(f, S))]
      /\ Sums(f, S) \in [SUBSET S -> Nat]
  BY SumsAre, SumsAreNumbers
<1>2. {} \in T
  BY <1>1 DEF SumStep
<1>3. ASSUME NEW s \in SUBSET S, s # {}, s \ {CHOOSE x \in s : TRUE} \in T PROVE s \in T
  <2> DEFINE x == CHOOSE x \in s : TRUE
             rest == s \ {x}
  <2>1. x \in s /\ x \in S /\ rest \in SUBSET S
    BY <1>3
  <2>2. f[x] \in Nat /\ f[r] \in Nat /\ (x # r => f[x] = 0)
    BY <2>1
  <2>3. Sums(f, S)[s] = f[x] + Sums(f, S)[rest]
    BY <1>1, <1>3 DEF SumStep
  <2>4. Sums(f, S)[rest] = IF r \in rest THEN f[r] ELSE 0
    BY <1>3
  <2>5. r \in rest <=> r \in s /\ r # x
    OBVIOUS
  <2> HIDE DEF x, rest
  <2> QED
    BY <1>3, <2>1, <2>2, <2>3, <2>4, <2>5
<1>4. S \in T
  <2> HIDE DEF T
  <2> QED
    BY <1>2, <1>3, SubsetInduction
<1> QED
  BY <1>4, SumIsLast DEF Ai!SumFunction

LEMMA SumOfNone ==
  ASSUME NEW f, DOMAIN f = {}
  PROVE  Ai!SumFunction(f) = 0
<1>1. Sums(f, {}) = [s \in SUBSET {} |-> SumStep(f, s, Sums(f, {}))]
  BY SumsAre, FS_EmptySet
<1> QED
  BY <1>1, SumIsLast DEF Ai!SumFunction, SumStep

-----------------------------------------------------------------------------
(***************************************************************************)
(* Paid calls: a run is called once, and run, receipt and ledger agree     *)
(* after every crash.                                                      *)
(***************************************************************************)

\* What the office does, its part does, or nothing.
LEMMA AiRuns == OfficeSpec => Ai!Spec
<1>1. OfficeInit => Ai!Init
  BY DEF OfficeInit
<1>2. [OfficeNext]_officeVars => [Ai!Next]_(Ai!vars)
  BY DEF OfficeNext, officeVars, Only, aiRows, Ai!vars, TextStep, AnalysisStep, AiStep,
     AccountsStep, FeesStep, MailStep, LossStep, RegistryStep, PhotosStep, TramerStep,
     TrackingStep
<1> QED
  BY <1>1, <1>2, PTL DEF OfficeSpec, Ai!Spec

LEMMA AiCounts == \A S : Ai!Cardinality(S) = Cardinality(S)
BY DEF Ai!Cardinality, Cardinality

Uncalled == {"none", "planned", "budget_blocked", "cancelled", "stale"}
AiOpen == {"dispatch_reserved", "response_recorded"}
Kinds == {"success", "failure"}

\* What a cost column can be: NULL or a cost.
Costs == {{}} \cup {{c} : c \in Nat}

ReceiptRow ==
  [status : {"none", "finalized"} \cup Ai!OpenReceipt, month : Nat,
   kind : {"none"} \cup Kinds, actual : Costs]

Answer == [kind : Kinds, actual : Costs]

RequestState ==
  {Ai!Idle}
  \cup [step : {"calling", "finalizing", "giving_up"}, run : Runs]
  \cup [step : {"recording"}, run : Runs, answer : Answer]

BookRow == [month : Nat, actual : Costs]

AiTyped ==
  /\ run \in [Runs -> Uncalled \cup {"running"} \cup Ai!Ended]
  /\ receipt \in [Runs -> ReceiptRow]
  /\ booked \in [Runs -> Seq(BookRow)]
  /\ calls \in [Runs -> Nat]
  /\ at \in [Requests -> RequestState]
  /\ month \in Nat /\ month \in 1 .. Months /\ overdue \subseteq Runs /\ changed \subseteq Runs

\* The receipt of a run tells how often it was called, and is there as soon as
\* the run is more than a plan.
ReceiptTells(r) ==
  /\ calls[r] = (IF receipt[r].status = "none" THEN 0 ELSE 1)
  /\ run[r] \in Uncalled <=> receipt[r].status = "none"
  /\ receipt[r].status = "response_recorded" => receipt[r].kind \in Kinds
  /\ receipt[r].status = "none" => receipt[r].month = 0

Agreed(r) ==
  /\ run[r] = "running" <=> receipt[r].status \in AiOpen
  /\ run[r] = "review_required" <=> receipt[r].status = "finalized" /\ receipt[r].kind = "success"
  /\ Len(booked[r]) = (IF run[r] \in Ai!Ended THEN 1 ELSE 0)

AiInv == AiTyped /\ \A r \in Runs : ReceiptTells(r) /\ Agreed(r)

LEMMA AiBegins == Ai!Init => AiInv
<1> SUFFICES ASSUME Ai!Init PROVE AiInv
  OBVIOUS
<1> USE DEF Ai!Init
<1>1. Ai!NoReceipt \in ReceiptRow /\ Ai!NoReceipt.status = "none" /\ Ai!NoReceipt.month = 0
  BY DEF Costs, Ai!NoReceipt, ReceiptRow
<1>2. <<>> \in Seq(BookRow) /\ Len(<<>>) = 0
  OBVIOUS
<1>3. AiTyped
  BY <1>1, <1>2, AiCallsAssumption DEF AiTyped, Uncalled, RequestState
<1>4. ASSUME NEW r \in Runs PROVE ReceiptTells(r) /\ Agreed(r)
  BY <1>1, <1>2 DEF ReceiptTells, Agreed, Uncalled, AiOpen, Ai!Ended
<1> QED
  BY <1>3, <1>4 DEF AiInv

-----------------------------------------------------------------------------
(* The steps                                                               *)

\* A step that changes one run before its call, to another state of that kind.
LEMMA BeforeCallKeeps ==
  ASSUME AiInv, NEW r \in Runs, NEW s \in Uncalled,
         run[r] \in Uncalled, run' = [run EXCEPT ![r] = s],
         UNCHANGED <<receipt, booked, month, overdue, changed, at, calls>>
  PROVE  AiInv'
<1>1. AiTyped'
  BY DEF AiInv, AiTyped
<1>2. ASSUME NEW p \in Runs PROVE (ReceiptTells(p) /\ Agreed(p))'
  <2>1. CASE p = r
    <3>1. run'[p] = s /\ ReceiptTells(p) /\ Agreed(p)
      BY <2>1 DEF AiInv, AiTyped
    <3> QED
      BY <2>1, <3>1 DEF ReceiptTells, Agreed, Uncalled, AiOpen, Ai!Ended
  <2>2. CASE p # r
    BY <2>2 DEF AiInv, AiTyped, ReceiptTells, Agreed
  <2> QED
    BY <2>1, <2>2
<1> QED
  BY <1>1, <1>2 DEF AiInv

\* A step that changes neither runs nor their calls.
LEMMA RequestKeeps ==
  ASSUME AiInv, at' \in [Requests -> RequestState],
         UNCHANGED <<run, receipt, booked, month, overdue, changed, calls>>
  PROVE  AiInv'
BY DEF AiInv, AiTyped, ReceiptTells, Agreed

LEMMA DispatchKeeps ==
  ASSUME AiInv, NEW q \in Requests, NEW r \in Runs, Ai!Dispatch(q, r)
  PROVE  AiInv'
<1> USE DEF AiInv, Ai!Dispatch, Ai!Dispatchable
<1> DEFINE reserved == [Ai!NoReceipt EXCEPT !.status = "dispatch_reserved", !.month = month]
<1>1. reserved \in ReceiptRow /\ reserved.status = "dispatch_reserved" /\ reserved.kind = "none"
  BY DEF Costs, Ai!NoReceipt, ReceiptRow, Ai!OpenReceipt, AiTyped
<1>2. [step |-> "calling", run |-> r] \in RequestState
  BY DEF RequestState
<1>3. /\ run' = [run EXCEPT ![r] = "running"] /\ receipt' = [receipt EXCEPT ![r] = reserved]
      /\ calls' = [calls EXCEPT ![r] = @ + 1]
  OBVIOUS
<1>4. AiTyped'
  <2>1. receipt' \in [Runs -> ReceiptRow]
    BY <1>1, <1>3 DEF AiTyped
  <2>2. at' \in [Requests -> RequestState]
    BY <1>2 DEF AiTyped
  <2>3. calls' \in [Runs -> Nat]
    BY DEF AiTyped
  <2> QED
    BY <2>1, <2>2, <2>3, <1>3 DEF AiTyped
<1>5. ASSUME NEW p \in Runs PROVE (ReceiptTells(p) /\ Agreed(p))'
  <2>1. CASE p = r
    <3>1. calls[p] = 0 /\ run[p] \in Uncalled /\ Len(booked[p]) = 0
      BY <2>1 DEF ReceiptTells, Agreed, Uncalled, Ai!Ended
    <3>2. calls'[p] = 1 /\ run'[p] = "running" /\ receipt'[p] = reserved /\ Len(booked'[p]) = 0
      BY <2>1, <1>3, <3>1 DEF AiTyped
    <3> HIDE DEF reserved
    <3> QED
      BY <1>1, <3>2 DEF ReceiptTells, Agreed, Uncalled, AiOpen, Ai!Ended
  <2>2. CASE p # r
    BY <2>2, <1>3 DEF AiTyped, ReceiptTells, Agreed
  <2> QED
    BY <2>1, <2>2
<1> QED
  BY <1>4, <1>5

LEMMA StartKeeps ==
  ASSUME AiInv, NEW q \in Requests, NEW r \in Runs, Ai!Start(q, r)
  PROVE  AiInv'
<1>1. CASE Ai!Dispatch(q, r)
  BY <1>1, DispatchKeeps
<1>2. CASE Ai!Block(q, r)
  BY <1>2, BeforeCallKeeps DEF Ai!Block, Ai!Dispatchable, AiInv, ReceiptTells, Uncalled
<1>3. CASE Ai!GoStale(q, r)
  BY <1>3, BeforeCallKeeps DEF Ai!GoStale, Ai!Dispatchable, AiInv, ReceiptTells, Uncalled
<1>4. CASE Ai!Resume(q, r)
  <2>1. /\ [step |-> "finalizing", run |-> r] \in RequestState
        /\ [step |-> "giving_up", run |-> r] \in RequestState
    BY DEF RequestState
  <2>2. at' \in [Requests -> RequestState]
    BY <1>4, <2>1 DEF Ai!Resume, AiInv, AiTyped
  <2> QED
    BY <1>4, <2>2, RequestKeeps DEF Ai!Resume
<1> QED
  BY <1>1, <1>2, <1>3, <1>4 DEF Ai!Start

\* Where a request is that is not idle.
LEMMA RequestRun ==
  ASSUME AiInv, NEW q \in Requests
  PROVE  /\ at[q].step # "idle" => at[q].run \in Runs
         /\ at[q].step = "recording" => at[q].answer \in Answer
<1>1. at[q] \in RequestState
  BY DEF AiInv, AiTyped
<1> QED
  BY <1>1 DEF RequestState, Ai!Idle

LEMMA ProviderAnswersKeeps ==
  ASSUME AiInv, NEW q \in Requests, Ai!ProviderAnswers(q)
  PROVE  AiInv'
<1>1. at[q].run \in Runs
  BY RequestRun DEF Ai!ProviderAnswers
<1>2. PICK answer \in Ai!Answers(at[q].run) :
        at' = [at EXCEPT ![q] = [step |-> "recording", run |-> at[q].run, answer |-> answer]]
  BY DEF Ai!ProviderAnswers
<1>3. answer \in Answer
  BY <1>1, AiCallsAssumption DEF Costs, Ai!Answers, Answer, Kinds
<1>4. at' \in [Requests -> RequestState]
  BY <1>1, <1>2, <1>3 DEF AiInv, AiTyped, RequestState
<1> QED
  BY <1>4, RequestKeeps DEF Ai!ProviderAnswers

LEMMA CallFailsKeeps ==
  ASSUME AiInv, NEW q \in Requests, Ai!CallFails(q)
  PROVE  AiInv'
<1>1. at[q].run \in Runs
  BY RequestRun DEF Ai!CallFails
<1>2. at' \in [Requests -> RequestState]
  BY <1>1 DEF Ai!CallFails, AiInv, AiTyped, RequestState
<1> QED
  BY <1>2, RequestKeeps DEF Ai!CallFails

LEMMA RecordKeeps ==
  ASSUME AiInv, NEW q \in Requests, Ai!Record(q)
  PROVE  AiInv'
<1> DEFINE r == at[q].run
           answer == at[q].answer
           recorded == [receipt[r] EXCEPT !.status = "response_recorded",
                                      !.kind = answer.kind, !.actual = answer.actual]
<1>1. r \in Runs /\ answer \in Answer
  BY RequestRun DEF Ai!Record
<1>2. [step |-> "finalizing", run |-> r] \in RequestState
  BY <1>1 DEF RequestState
<1>3. at' \in [Requests -> RequestState]
  BY <1>2 DEF Ai!Record, AiInv, AiTyped
<1>4. CASE ~Ai!Recordable(r)
  BY <1>3, <1>4, RequestKeeps DEF Ai!Record
<1>5. CASE Ai!Recordable(r)
  <2>1. /\ receipt[r] \in ReceiptRow /\ receipt[r].status = "dispatch_reserved"
        /\ ReceiptTells(r) /\ Agreed(r)
    BY <1>1, <1>5 DEF Ai!Recordable, AiInv, AiTyped
  <2>2. recorded \in ReceiptRow /\ recorded.status = "response_recorded"
          /\ recorded.kind \in Kinds
    BY <1>1, <2>1 DEF ReceiptRow, Answer, Ai!OpenReceipt, Kinds
  <2>3. receipt' = [receipt EXCEPT ![r] = recorded]
    BY <1>5, <1>1 DEF Ai!Record, AiInv, AiTyped
  <2> HIDE DEF recorded, r
  <2>4. AiTyped'
    <3>1. receipt' \in [Runs -> ReceiptRow]
      BY <2>2, <2>3 DEF AiInv, AiTyped
    <3>2. UNCHANGED <<run, booked, month, overdue, changed, calls>>
      BY DEF Ai!Record
    <3> QED
      BY <1>3, <3>1, <3>2 DEF AiInv, AiTyped
  <2>5. ASSUME NEW p \in Runs PROVE (ReceiptTells(p) /\ Agreed(p))'
    <3>1. CASE p = r
      <4>1. receipt'[p] = recorded /\ UNCHANGED <<run[p], calls[p], booked[p]>>
        BY <2>3, <3>1 DEF Ai!Record, AiInv, AiTyped
      <4> QED
        BY <2>1, <2>2, <3>1, <4>1 DEF ReceiptTells, Agreed, AiOpen
    <3>2. CASE p # r
      BY <2>3, <3>2 DEF Ai!Record, AiInv, AiTyped, ReceiptTells, Agreed
    <3> QED
      BY <3>1, <3>2
  <2> QED
    BY <2>4, <2>5 DEF AiInv
<1> QED
  BY <1>4, <1>5

\* The end of a call: from an open receipt to a closed one, booked once.
LEMMA EndKeeps ==
  ASSUME AiInv, NEW r \in Runs, at' \in [Requests -> RequestState],
         NEW closed \in ReceiptRow, NEW s \in Ai!Ended, NEW actual \in Costs,
         run[r] = "running",
         closed.status \in {"finalized", "outcome_unknown"},
         s = "review_required" <=> closed.status = "finalized" /\ closed.kind = "success",
         receipt' = [receipt EXCEPT ![r] = closed], run' = [run EXCEPT ![r] = s],
         Ai!Book(r, actual), UNCHANGED <<month, overdue, changed, calls>>
  PROVE  AiInv'
<1> USE DEF AiInv
<1>1. booked[r] \in Seq(BookRow) /\ [month |-> month, actual |-> actual] \in BookRow
  BY DEF AiTyped, BookRow
<1>2. /\ Append(booked[r], [month |-> month, actual |-> actual]) \in Seq(BookRow)
      /\ Len(Append(booked[r], [month |-> month, actual |-> actual])) = Len(booked[r]) + 1
  BY <1>1
<1>3. booked' \in [Runs -> Seq(BookRow)] /\ Len(booked'[r]) = Len(booked[r]) + 1
  BY <1>2 DEF Ai!Book, AiTyped
<1>4. AiTyped'
  BY <1>3 DEF AiTyped
<1>5. ASSUME NEW p \in Runs PROVE (ReceiptTells(p) /\ Agreed(p))'
  <2>1. CASE p = r
    <3>1. receipt'[p] = closed /\ run'[p] = s /\ calls'[p] = calls[p]
      BY <2>1 DEF AiTyped
    <3>2. calls[p] = 1 /\ Len(booked[p]) = 0
      BY <2>1 DEF ReceiptTells, Agreed, Uncalled, Ai!Ended, AiOpen
    <3>3. Len(booked'[p]) = 1
      BY <1>3, <2>1, <3>2
    <3> QED
      BY <3>1, <3>2, <3>3, <2>1 DEF ReceiptTells, Agreed, Uncalled, Ai!Ended, AiOpen
  <2>2. CASE p # r
    <3>1. receipt'[p] = receipt[p] /\ run'[p] = run[p] /\ calls'[p] = calls[p]
            /\ booked'[p] = booked[p]
      BY <2>2 DEF AiTyped, Ai!Book
    <3> QED
      BY <3>1 DEF ReceiptTells, Agreed
  <2> QED
    BY <2>1, <2>2
<1> QED
  BY <1>4, <1>5

LEMMA FinalizeKeeps ==
  ASSUME AiInv, NEW q \in Requests, Ai!Finalize(q)
  PROVE  AiInv'
<1> DEFINE r == at[q].run
           settled == [receipt[r] EXCEPT !.status = "finalized"]
           s == IF receipt[r].kind = "success" THEN "review_required" ELSE "failed"
           due == receipt[r].status = "response_recorded" /\ run[r] = "running"
<1>1. r \in Runs
  BY RequestRun DEF Ai!Finalize
<1>2. at' \in [Requests -> RequestState]
  BY DEF Ai!Finalize, AiInv, AiTyped, RequestState
<1>3. CASE ~due
  BY <1>2, <1>3, RequestKeeps DEF Ai!Finalize
<1>4. CASE due
  <2>1. receipt[r] \in ReceiptRow
    BY <1>1 DEF AiInv, AiTyped
  <2>2. /\ settled \in ReceiptRow /\ settled.status = "finalized"
        /\ settled.kind = receipt[r].kind /\ receipt[r].actual \in Costs
    BY <2>1 DEF ReceiptRow
  <2>3. receipt' = [receipt EXCEPT ![r] = settled]
    BY <1>1, <1>4 DEF Ai!Finalize, AiInv, AiTyped
  <2>4. run' = [run EXCEPT ![r] = s] /\ Ai!Book(r, receipt[r].actual)
          /\ UNCHANGED <<month, overdue, changed, calls>>
    BY <1>4 DEF Ai!Finalize
  <2>5. s \in Ai!Ended /\ (s = "review_required" <=> settled.kind = "success")
    BY <2>2 DEF Ai!Ended
  <2>6. run[r] = "running"
    BY <1>4
  <2> HIDE DEF settled, s, r
  <2> QED
    BY <1>1, <1>2, <2>2, <2>3, <2>4, <2>5, <2>6, EndKeeps
<1> QED
  BY <1>3, <1>4

LEMMA GiveUpKeeps ==
  ASSUME AiInv, NEW q \in Requests, Ai!GiveUp(q)
  PROVE  AiInv'
<1> DEFINE r == at[q].run
           lost == [receipt[r] EXCEPT !.status = "outcome_unknown", !.kind = "failure"]
           s == IF Ai!Policy(r) THEN "failed" ELSE "outcome_unknown"
           due == receipt[r].status = "dispatch_reserved"
<1>1. r \in Runs
  BY RequestRun DEF Ai!GiveUp
<1>2. at' \in [Requests -> RequestState]
  BY DEF Ai!GiveUp, AiInv, AiTyped, RequestState
<1>3. CASE ~due
  BY <1>2, <1>3, RequestKeeps DEF Ai!GiveUp
<1>4. CASE due
  <2>1. receipt[r] \in ReceiptRow /\ Agreed(r)
    BY <1>1 DEF AiInv, AiTyped
  <2>2. lost \in ReceiptRow /\ lost.status = "outcome_unknown"
    BY <2>1 DEF ReceiptRow, Ai!OpenReceipt, Kinds
  <2>3. receipt' = [receipt EXCEPT ![r] = lost]
    BY <1>1, <1>4 DEF Ai!GiveUp, Ai!GivenUp, AiInv, AiTyped
  <2>4. run' = [run EXCEPT ![r] = s] /\ Ai!Book(r, {})
          /\ UNCHANGED <<month, overdue, changed, calls>>
    BY <1>4 DEF Ai!GiveUp
  <2>5. s \in Ai!Ended /\ s # "review_required"
    BY DEF Ai!Ended
  <2>6. run[r] = "running"
    BY <1>4, <2>1 DEF Agreed, AiOpen
  <2>7. {} \in Costs
    BY DEF Costs
  <2> HIDE DEF lost, s, r
  <2> QED
    BY <1>1, <1>2, <2>2, <2>3, <2>4, <2>5, <2>6, <2>7, EndKeeps
<1> QED
  BY <1>3, <1>4

LEMMA AiKeeps ==
  ASSUME AiInv, [Ai!Next]_(Ai!vars)
  PROVE  AiInv'
<1>1. ASSUME NEW r \in Runs, Ai!Plan(r) PROVE AiInv'
  <2>1. run[r] \in Uncalled /\ "planned" \in Uncalled
    BY <1>1 DEF Ai!Plan, Uncalled
  <2> QED
    BY <1>1, <2>1, BeforeCallKeeps DEF Ai!Plan
<1>2. ASSUME NEW r \in Runs, Ai!Cancel(r) PROVE AiInv'
  <2>1. run[r] \in Uncalled /\ "cancelled" \in Uncalled
    BY <1>2 DEF Ai!Cancel, Uncalled, Ai!Blockable
  <2> QED
    BY <1>2, <2>1, BeforeCallKeeps DEF Ai!Cancel
<1>3. ASSUME NEW r \in Runs, Ai!BecomesOverdue(r) \/ Ai!Changes(r) PROVE AiInv'
  BY <1>3 DEF Ai!BecomesOverdue, Ai!Changes, AiInv, AiTyped, ReceiptTells, Agreed
<1>4. ASSUME NEW q \in Requests, NEW r \in Runs, Ai!Start(q, r) PROVE AiInv'
  BY <1>4, StartKeeps
<1>5. ASSUME NEW q \in Requests, Ai!ProviderAnswers(q) \/ Ai!CallFails(q) \/ Ai!Record(q)
        PROVE AiInv'
  BY <1>5, ProviderAnswersKeeps, CallFailsKeeps, RecordKeeps
<1>6. ASSUME NEW q \in Requests, Ai!Finalize(q) \/ Ai!GiveUp(q) PROVE AiInv'
  BY <1>6, FinalizeKeeps, GiveUpKeeps
<1>7. ASSUME NEW q \in Requests, Ai!Dies(q) PROVE AiInv'
  <2>1. /\ at' \in [Requests -> RequestState]
        /\ UNCHANGED <<run, receipt, booked, month, overdue, changed, calls>>
    BY <1>7 DEF Ai!Dies, AiInv, AiTyped, RequestState
  <2> QED
    BY <2>1, RequestKeeps
<1>8. CASE Ai!MonthEnds
  <2>1. month' \in Nat /\ month' \in 1 .. Months
    BY <1>8, AiCallsAssumption DEF Ai!MonthEnds, AiInv, AiTyped
  <2> QED
    BY <1>8, <2>1 DEF Ai!MonthEnds, AiInv, AiTyped, ReceiptTells, Agreed
<1>9. CASE UNCHANGED Ai!vars
  BY <1>9 DEF Ai!vars, AiInv, AiTyped, ReceiptTells, Agreed
<1> QED
  BY <1>1, <1>2, <1>3, <1>4, <1>5, <1>6, <1>7, <1>8, <1>9 DEF Ai!Next

-----------------------------------------------------------------------------
(* What the calls cost                                                     *)

LEMMA Coalesced ==
  ASSUME NEW cost \in Costs, NEW default \in Nat
  PROVE  /\ Ai!Coalesce(cost, default) \in Nat
         /\ cost = {} => Ai!Coalesce(cost, default) = default
         /\ \A c \in cost : cost = {c} /\ Ai!Coalesce(cost, default) = c
<1>1. CASE cost = {}
  BY <1>1 DEF Ai!Coalesce
<1>2. CASE cost # {}
  <2>1. PICK c \in Nat : cost = {c}
    BY <1>2 DEF Costs
  <2>2. Ai!Max({c}) = c
    BY <2>1 DEF Ai!Max
  <2>3. Ai!Coalesce(cost, default) = c
    BY <1>2, <2>1, <2>2 DEF Ai!Coalesce
  <2> QED
    BY <2>1, <2>3
<1> QED
  BY <1>1, <1>2

\* No call costs more than its estimate, and the row of the ledger that books a
\* settled call was written in the month of the call or later.
CostFits(r) ==
  /\ \A c \in receipt[r].actual : c <= Estimate[r]
  /\ receipt[r].status = "dispatch_reserved" => receipt[r].actual = {}
  /\ receipt[r].month <= month
  /\ receipt[r].status = "finalized" =>
       /\ booked[r][1].actual = receipt[r].actual
       /\ receipt[r].month <= booked[r][1].month /\ booked[r][1].month <= month

AnswerFits(q) ==
  at[q].step = "recording" => \A c \in at[q].answer.actual : c <= Estimate[at[q].run]

CostsFit == (\A r \in Runs : CostFits(r)) /\ (\A q \in Requests : AnswerFits(q))

\* Where a request that is not recording goes, or stays.
LEMMA AnswerStays ==
  ASSUME AiInv, CostsFit, NEW q \in Requests, NEW where,
         where.step = "recording" => \A c \in where.answer.actual : c <= Estimate[where.run],
         at' = [at EXCEPT ![q] = where]
  PROVE  \A p \in Requests : AnswerFits(p)'
<1>1. ASSUME NEW p \in Requests PROVE AnswerFits(p)'
  <2>1. CASE p = q
    <3>1. at'[p] = where
      BY <2>1 DEF AiInv, AiTyped
    <3> QED
      BY <3>1 DEF AnswerFits
  <2>2. CASE p # q
    <3>1. at'[p] = at[p]
      BY <2>2 DEF AiInv, AiTyped
    <3> QED
      BY <3>1 DEF AnswerFits, CostsFit
  <2> QED
    BY <2>1, <2>2
<1> QED
  BY <1>1

\* A step that writes no receipt.
LEMMA ReceiptsStay ==
  ASSUME AiInv, CostsFit, UNCHANGED <<receipt, booked, month>>,
         \A p \in Requests : AnswerFits(p)'
  PROVE  CostsFit'
BY DEF CostsFit, CostFits

\* A step that writes one receipt and settles none.
LEMMA ReceiptFits ==
  ASSUME AiInv, CostsFit, NEW r \in Runs, NEW entered,
         \A c \in entered.actual : c <= Estimate[r],
         entered.status # "finalized", entered.status = "dispatch_reserved"
           => entered.actual = {},
         entered.month <= month, receipt' = [receipt EXCEPT ![r] = entered],
         \A p \in Runs : p # r => booked'[p] = booked[p], UNCHANGED month,
         \A p \in Requests : AnswerFits(p)'
  PROVE  CostsFit'
<1>1. ASSUME NEW p \in Runs PROVE CostFits(p)'
  <2>1. CASE p = r
    <3>1. receipt'[p] = entered
      BY <2>1 DEF AiInv, AiTyped
    <3> QED
      BY <2>1, <3>1 DEF CostFits
  <2>2. CASE p # r
    <3>1. receipt'[p] = receipt[p] /\ booked'[p] = booked[p]
      BY <2>2 DEF AiInv, AiTyped
    <3> QED
      BY <3>1 DEF CostFits, CostsFit
  <2> QED
    BY <2>1, <2>2
<1> QED
  BY <1>1 DEF CostsFit

LEMMA StartFits ==
  ASSUME AiInv, CostsFit, NEW q \in Requests, NEW r \in Runs, Ai!Start(q, r)
  PROVE  CostsFit'
<1>1. CASE Ai!Dispatch(q, r)
  <2> DEFINE entered == [Ai!NoReceipt EXCEPT !.status = "dispatch_reserved", !.month = month]
             where == [step |-> "calling", run |-> r]
  <2>1. entered.actual = {} /\ entered.status = "dispatch_reserved" /\ entered.month = month
          /\ month \in Nat
    BY DEF Ai!NoReceipt, AiInv, AiTyped
  <2>2. /\ receipt' = [receipt EXCEPT ![r] = entered] /\ month' = month
        /\ \A p \in Runs : booked'[p] = booked[p]
    BY <1>1 DEF Ai!Dispatch
  <2>3. \A p \in Requests : AnswerFits(p)'
    <3>1. at' = [at EXCEPT ![q] = where] /\ where.step # "recording"
      BY <1>1 DEF Ai!Dispatch
    <3> HIDE DEF where
    <3> QED
      BY <3>1, AnswerStays
  <2>4. entered.month <= month
    BY <2>1
  <2> HIDE DEF entered
  <2> QED
    BY <2>1, <2>2, <2>3, <2>4, ReceiptFits
<1>2. CASE Ai!Block(q, r) \/ Ai!GoStale(q, r)
  BY <1>2 DEF Ai!Block, Ai!GoStale, CostsFit, CostFits, AnswerFits
<1>3. CASE Ai!Resume(q, r)
  <2>1. PICK step \in {"finalizing", "giving_up"} :
          at' = [at EXCEPT ![q] = [step |-> step, run |-> r]]
    BY <1>3 DEF Ai!Resume
  <2> DEFINE where == [step |-> step, run |-> r]
  <2>2. where.step # "recording" /\ at' = [at EXCEPT ![q] = where]
    BY <2>1
  <2> HIDE DEF where
  <2>3. \A p \in Requests : AnswerFits(p)'
    BY <2>2, AnswerStays
  <2> QED
    BY <1>3, <2>3, ReceiptsStay DEF Ai!Resume
<1> QED
  BY <1>1, <1>2, <1>3 DEF Ai!Start

LEMMA AnswerComes ==
  ASSUME AiInv, CostsFit, NEW q \in Requests, Ai!ProviderAnswers(q)
  PROVE  CostsFit'
<1>1. at[q].run \in Runs
  BY RequestRun DEF Ai!ProviderAnswers
<1>2. PICK answer \in Ai!Answers(at[q].run) :
        at' = [at EXCEPT ![q] = [step |-> "recording", run |-> at[q].run, answer |-> answer]]
  BY DEF Ai!ProviderAnswers
<1>3. \A c \in answer.actual : c <= Estimate[at[q].run]
  <2>1. Estimate[at[q].run] \in Nat
    BY <1>1, AiCallsAssumption
  <2>2. answer.actual \in {{}} \cup {{c} : c \in 0..Estimate[at[q].run]}
    BY DEF Ai!Answers
  <2> QED
    BY <2>1, <2>2
<1> DEFINE where == [step |-> "recording", run |-> at[q].run, answer |-> answer]
<1>4. /\ where.step = "recording" => \A c \in where.answer.actual : c <= Estimate[where.run]
      /\ at' = [at EXCEPT ![q] = where]
  BY <1>2, <1>3
<1> HIDE DEF where
<1>5. \A p \in Requests : AnswerFits(p)'
  BY <1>4, AnswerStays
<1> QED
  BY <1>5, ReceiptsStay DEF Ai!ProviderAnswers

LEMMA RequestFits ==
  ASSUME AiInv, CostsFit, NEW q \in Requests, Ai!CallFails(q) \/ Ai!Dies(q)
  PROVE  CostsFit'
<1> DEFINE where == IF Ai!CallFails(q) THEN [step |-> "giving_up", run |-> at[q].run] ELSE Ai!Idle
<1>1. where.step # "recording" /\ at' = [at EXCEPT ![q] = where]
  BY DEF Ai!CallFails, Ai!Dies, Ai!Idle
<1> HIDE DEF where
<1>2. \A p \in Requests : AnswerFits(p)'
  BY <1>1, AnswerStays
<1> QED
  BY <1>2, ReceiptsStay DEF Ai!CallFails, Ai!Dies

LEMMA RecordFits ==
  ASSUME AiInv, CostsFit, NEW q \in Requests, Ai!Record(q)
  PROVE  CostsFit'
<1> DEFINE r == at[q].run
           answer == at[q].answer
           recorded == [receipt[r] EXCEPT !.status = "response_recorded",
                                      !.kind = answer.kind, !.actual = answer.actual]
           where == [step |-> "finalizing", run |-> r]
<1>1. r \in Runs /\ answer \in Answer
  BY RequestRun DEF Ai!Record
<1>2. \A p \in Requests : AnswerFits(p)'
  <2>1. at' = [at EXCEPT ![q] = where] /\ where.step # "recording"
    BY DEF Ai!Record
  <2> HIDE DEF where
  <2> QED
    BY <2>1, AnswerStays
<1>3. CASE ~Ai!Recordable(r)
  BY <1>2, <1>3, ReceiptsStay DEF Ai!Record
<1>4. CASE Ai!Recordable(r)
  <2>1. receipt[r] \in ReceiptRow /\ receipt[r].month <= month
    BY <1>1 DEF CostsFit, CostFits, AiInv, AiTyped
  <2>2. recorded.status = "response_recorded" /\ recorded.actual = answer.actual
          /\ recorded.month = receipt[r].month
    BY <2>1 DEF ReceiptRow
  <2>3. \A c \in recorded.actual : c <= Estimate[r]
    BY <2>2 DEF CostsFit, AnswerFits, Ai!Record
  <2>4. receipt' = [receipt EXCEPT ![r] = recorded] /\ UNCHANGED <<booked, month>>
    BY <1>4, <1>1 DEF Ai!Record, AiInv, AiTyped
  <2> HIDE DEF recorded, r
  <2> QED
    BY <1>1, <1>2, <2>1, <2>2, <2>3, <2>4, ReceiptFits
<1> QED
  BY <1>3, <1>4

LEMMA FinalizeFits ==
  ASSUME AiInv, CostsFit, NEW q \in Requests, Ai!Finalize(q)
  PROVE  CostsFit'
<1> DEFINE r == at[q].run
           entered == [month |-> month, actual |-> receipt[r].actual]
<1>1. r \in Runs
  BY RequestRun DEF Ai!Finalize
<1>2. \A p \in Requests : AnswerFits(p)'
  BY AnswerStays DEF Ai!Finalize, Ai!Idle
<1>3. CASE ~(receipt[r].status = "response_recorded" /\ run[r] = "running")
  BY <1>2, <1>3, ReceiptsStay DEF Ai!Finalize
<1>4. CASE receipt[r].status = "response_recorded" /\ run[r] = "running"
  <2>1. receipt[r] \in ReceiptRow /\ month \in Nat
    BY <1>1 DEF AiInv, AiTyped
  <2>2. booked[r] \in Seq(BookRow) /\ Len(booked[r]) = 0 /\ entered \in BookRow
    BY <1>1, <1>4, <2>1 DEF AiInv, AiTyped, Agreed, Ai!Ended, BookRow, ReceiptRow
  <2>3. booked' = [booked EXCEPT ![r] = Append(booked[r], entered)]
    BY <1>4 DEF Ai!Finalize, Ai!Book
  <2>4. Append(booked[r], entered)[1] = entered
    <3> HIDE DEF entered, r
    <3> QED
      BY <2>2
  <2>5. /\ booked'[r][1] = entered
        /\ \A p \in Runs : p # r => booked'[p] = booked[p]
    BY <1>1, <2>3, <2>4 DEF AiInv, AiTyped
  <2>6. receipt' = [receipt EXCEPT ![r].status = "finalized"] /\ month' = month
    BY <1>4 DEF Ai!Finalize
  <2>7. ASSUME NEW p \in Runs PROVE CostFits(p)'
    <3>1. CASE p = r
      <4>1. receipt'[p].actual = receipt[p].actual /\ receipt'[p].month = receipt[p].month
            /\ receipt'[p].status = "finalized"
        BY <2>1, <2>6, <3>1 DEF AiInv, AiTyped, ReceiptRow
      <4>2. receipt[p].month <= month /\ \A c \in receipt[p].actual : c <= Estimate[p]
        BY DEF CostsFit, CostFits
      <4>3. booked'[p][1].actual = receipt[p].actual /\ booked'[p][1].month = month
        BY <2>5, <3>1
      <4> QED
        BY <2>1, <2>6, <4>1, <4>2, <4>3 DEF CostFits
    <3>2. CASE p # r
      <4>1. receipt'[p] = receipt[p] /\ booked'[p] = booked[p]
        BY <2>5, <2>6, <3>2 DEF AiInv, AiTyped
      <4> QED
        BY <2>6, <4>1 DEF CostFits, CostsFit
    <3> QED
      BY <3>1, <3>2
  <2> QED
    BY <1>2, <2>7 DEF CostsFit
<1> QED
  BY <1>3, <1>4

LEMMA GiveUpFits ==
  ASSUME AiInv, CostsFit, NEW q \in Requests, Ai!GiveUp(q)
  PROVE  CostsFit'
<1> DEFINE r == at[q].run
           lost == [receipt[r] EXCEPT !.status = "outcome_unknown", !.kind = "failure"]
<1>1. r \in Runs
  BY RequestRun DEF Ai!GiveUp
<1>2. \A p \in Requests : AnswerFits(p)'
  BY AnswerStays DEF Ai!GiveUp, Ai!Idle
<1>3. CASE receipt[r].status # "dispatch_reserved"
  BY <1>2, <1>3, ReceiptsStay DEF Ai!GiveUp
<1>4. CASE receipt[r].status = "dispatch_reserved"
  <2>1. receipt[r] \in ReceiptRow /\ CostFits(r)
    BY <1>1 DEF CostsFit, AiInv, AiTyped
  <2>2. /\ lost.status = "outcome_unknown"
        /\ lost.actual = receipt[r].actual /\ lost.month = receipt[r].month
    BY <2>1 DEF ReceiptRow
  <2>3. receipt' = [receipt EXCEPT ![r] = lost] /\ UNCHANGED month
    BY <1>1, <1>4 DEF Ai!GiveUp, Ai!GivenUp, AiInv, AiTyped
  <2>4. \A p \in Runs : p # r => booked'[p] = booked[p]
    BY <1>1, <1>4 DEF Ai!GiveUp, Ai!Book, AiInv, AiTyped
  <2> HIDE DEF lost, r
  <2> QED
    BY <1>1, <1>2, <2>1, <2>2, <2>3, <2>4, ReceiptFits DEF CostFits
<1> QED
  BY <1>3, <1>4

LEMMA MonthEndFits ==
  ASSUME AiInv, CostsFit, Ai!MonthEnds
  PROVE  CostsFit'
<1>1. ASSUME NEW r \in Runs PROVE CostFits(r)'
  <2>1. month \in Nat /\ month' = month + 1 /\ receipt[r].month \in Nat
    BY DEF Ai!MonthEnds, AiInv, AiTyped, ReceiptRow
  <2>2. receipt[r].status = "finalized" => booked[r][1].month \in Nat
    <3>1. ASSUME receipt[r].status = "finalized"
            PROVE Len(booked[r]) = 1 /\ booked[r] \in Seq(BookRow)
      BY <3>1 DEF AiInv, AiTyped, ReceiptTells, Agreed, AiOpen
    <3>2. ASSUME receipt[r].status = "finalized" PROVE booked[r][1] \in BookRow
      BY <3>1, <3>2
    <3> QED
      BY <3>2 DEF BookRow
  <2>3. CostFits(r) /\ UNCHANGED <<receipt, booked>>
    BY DEF CostsFit, Ai!MonthEnds
  <2> QED
    BY <2>1, <2>2, <2>3 DEF CostFits
<1>2. \A q \in Requests : AnswerFits(q)'
  BY DEF CostsFit, AnswerFits, Ai!MonthEnds
<1> QED
  BY <1>1, <1>2 DEF CostsFit

LEMMA NextFits ==
  ASSUME AiInv, CostsFit, [Ai!Next]_(Ai!vars)
  PROVE  CostsFit'
<1>1. ASSUME NEW r \in Runs, Ai!Plan(r) \/ Ai!Cancel(r) \/ Ai!BecomesOverdue(r)
        \/ Ai!Changes(r) PROVE CostsFit'
  BY <1>1 DEF Ai!Plan, Ai!Cancel, Ai!BecomesOverdue, Ai!Changes, CostsFit, CostFits, AnswerFits
<1>2. CASE UNCHANGED Ai!vars
  BY <1>2 DEF Ai!vars, CostsFit, CostFits, AnswerFits
<1> QED
  BY <1>1, <1>2, StartFits, AnswerComes, RequestFits, RecordFits, FinalizeFits, GiveUpFits,
     MonthEndFits DEF Ai!Next

-----------------------------------------------------------------------------
(* The budget                                                              *)

LEMMA ChargesAreNumbers ==
  ASSUME AiInv, NEW r \in Runs
  PROVE  Ai!Held(r) \in Nat /\ Ai!Charged(r) \in Nat /\ Ai!Reserved(r) \in Nat
<1>1. receipt[r].actual \in Costs /\ Estimate[r] \in Nat
  BY AiCallsAssumption DEF AiInv, AiTyped, ReceiptRow
<1> QED
  BY <1>1, Coalesced DEF Ai!Held, Ai!Charged, Ai!Reserved

LEMMA BookedIs ==
  ASSUME AiInv, NEW r \in Runs
  PROVE  /\ Ai!Booked(r) \in Nat
         /\ Len(booked[r]) = 1 /\ booked[r][1].month = month
              => Ai!Booked(r) = Ai!Coalesce(booked[r][1].actual, 0)
<1> DEFINE rows == DOMAIN booked[r]
           costs == [i \in rows |->
                       IF booked[r][i].month = month THEN Ai!Coalesce(booked[r][i].actual, 0) ELSE 0]
<1>1. /\ booked[r] \in Seq(BookRow) /\ rows = 1 .. Len(booked[r]) /\ Len(booked[r]) \in Nat
      /\ \A i \in rows : booked[r][i] \in BookRow
  BY DEF AiInv, AiTyped
<1>2. IsFiniteSet(rows)
  BY <1>1, FS_Interval
<1>3. \A i \in rows : Ai!Coalesce(booked[r][i].actual, 0) \in Nat
  BY <1>1, Coalesced DEF BookRow
<1>4. costs \in [rows -> Nat]
  BY <1>3
<1>5. Ai!Booked(r) = Ai!SumFunction(costs)
  BY DEF Ai!Booked
<1>6. ASSUME Len(booked[r]) = 1, booked[r][1].month = month
      PROVE  Ai!SumFunction(costs) = Ai!Coalesce(booked[r][1].actual, 0)
  <2>1. 1 \in rows /\ \A i \in rows \ {1} : costs[i] = 0
    BY <1>1, <1>6
  <2>2. costs[1] = Ai!Coalesce(booked[r][1].actual, 0)
    BY <2>1, <1>6
  <2> HIDE DEF costs, rows
  <2> QED
    BY <1>2, <1>4, <2>1, <2>2, SumOfOne
<1>7. Ai!SumFunction(costs) \in Nat
  <2> HIDE DEF costs, rows
  <2> QED
    BY <1>2, <1>4, SumIsNumber
<1> QED
  BY <1>5, <1>6, <1>7

\* What a call of this month is charged is in the ledger or still reserved.
LEMMA ChargedIsCounted ==
  ASSUME AiInv, CostsFit, NEW r \in Runs, receipt[r].month = month
  PROVE  receipt[r].status = "none" \/ Ai!Charged(r) <= Ai!Booked(r) + Ai!Reserved(r)
<1>1. /\ Ai!Booked(r) \in Nat /\ Ai!Reserved(r) \in Nat /\ Ai!Charged(r) \in Nat
      /\ receipt[r].status \in {"none", "finalized"} \cup Ai!OpenReceipt /\ month \in Nat
  BY BookedIs, ChargesAreNumbers DEF AiInv, AiTyped, ReceiptRow
<1>2. CASE receipt[r].status \in Ai!OpenReceipt
  <2>1. Ai!Charged(r) = Ai!Reserved(r)
    BY <1>2 DEF Ai!Charged, Ai!Reserved, Ai!OpenReceipt
  <2> QED
    BY <1>1, <2>1
<1>3. CASE receipt[r].status = "finalized"
  <2>1. Len(booked[r]) = 1 /\ booked[r] \in Seq(BookRow)
    BY <1>3 DEF AiInv, AiTyped, ReceiptTells, Agreed, AiOpen
  <2>2. booked[r][1] \in BookRow
    BY <2>1
  <2>3. booked[r][1].month = month
    BY <1>1, <1>3, <2>2 DEF CostsFit, CostFits, BookRow
  <2>4. Ai!Booked(r) = Ai!Coalesce(receipt[r].actual, 0)
    BY <1>3, <2>1, <2>3, BookedIs DEF CostsFit, CostFits
  <2> QED
    BY <1>1, <1>3, <2>4 DEF Ai!Charged
<1> QED
  BY <1>1, <1>2, <1>3

\* A step by which no call is charged more.
LEMMA ChargesShrink ==
  ASSUME AiInv, AiInv', Ai!MonthsStayWithinBudget,
         \A r \in Runs :
           receipt'[r].month = receipt[r].month /\ Ai!Charged(r)' <= Ai!Charged(r)
  PROVE  Ai!MonthsStayWithinBudget'
<1> SUFFICES ASSUME NEW m \in 1 .. Months
             PROVE  Ai!SumFunction([r \in Runs |->
                      IF receipt'[r].month = m THEN Ai!Charged(r)' ELSE 0]) <= Budget
  BY DEF Ai!MonthsStayWithinBudget
<1> DEFINE before == [r \in Runs |-> IF receipt[r].month = m THEN Ai!Charged(r) ELSE 0]
           after == [r \in Runs |-> IF receipt'[r].month = m THEN Ai!Charged(r)' ELSE 0]
<1>1. \A r \in Runs : Ai!Charged(r) \in Nat
  BY ChargesAreNumbers
<1>2. ASSUME NEW r \in Runs PROVE Ai!Charged(r)' \in Nat
  <2>1. receipt'[r].actual \in Costs /\ Estimate[r] \in Nat
    BY AiCallsAssumption DEF AiInv, AiTyped, ReceiptRow
  <2> QED
    BY <2>1, Coalesced DEF Ai!Charged, Ai!Held
<1>3. before \in [Runs -> Nat] /\ after \in [Runs -> Nat] /\ \A r \in Runs : after[r] <= before[r]
  BY <1>1, <1>2
<1>4. Ai!SumFunction(before) <= Budget
  BY DEF Ai!MonthsStayWithinBudget
<1> HIDE DEF before
<1>5. Ai!SumFunction(after) <= Ai!SumFunction(before)
  <2> HIDE DEF after
  <2> QED
    BY <1>3, SumGrows, AiCallsAssumption
<1>6. Ai!SumFunction(after) \in Nat /\ Ai!SumFunction(before) \in Nat
  <2> HIDE DEF after
  <2> QED
    BY <1>3, SumIsNumber, AiCallsAssumption
<1> QED
  BY <1>4, <1>5, <1>6, AiCallsAssumption

\* A step that writes one receipt, which then is charged no more.
LEMMA OneChargeShrinks ==
  ASSUME AiInv, AiInv', Ai!MonthsStayWithinBudget, NEW r \in Runs, NEW entered,
         receipt' = [receipt EXCEPT ![r] = entered], entered.month = receipt[r].month,
         Ai!Charged(r)' <= Ai!Charged(r)
  PROVE  Ai!MonthsStayWithinBudget'
<1>1. ASSUME NEW p \in Runs
      PROVE  receipt'[p].month = receipt[p].month /\ Ai!Charged(p)' <= Ai!Charged(p)
  <2>1. CASE p = r
    BY <2>1 DEF AiInv, AiTyped
  <2>2. CASE p # r
    <3>1. receipt'[p] = receipt[p]
      BY <2>2 DEF AiInv, AiTyped
    <3>2. Ai!Charged(p)' = Ai!Charged(p)
      BY <3>1 DEF Ai!Charged, Ai!Held
    <3>3. Ai!Charged(p) \in Nat
      BY ChargesAreNumbers
    <3> QED
      BY <3>1, <3>2, <3>3
  <2> QED
    BY <2>1, <2>2
<1> QED
  BY <1>1, ChargesShrink

\* The check before a call is made counts every call of the month.
LEMMA DispatchInBudget ==
  ASSUME AiInv, AiInv', CostsFit, Ai!MonthsStayWithinBudget, NEW q \in Requests, NEW r \in Runs,
         Ai!Dispatch(q, r)
  PROVE  Ai!MonthsStayWithinBudget'
<1> DEFINE entered == [Ai!NoReceipt EXCEPT !.status = "dispatch_reserved", !.month = month]
<1>1. /\ receipt[r].status = "none" /\ month \in Nat /\ Estimate[r] \in Nat
      /\ entered.status = "dispatch_reserved" /\ entered.month = month /\ entered.actual = {}
      /\ Ai!CurrentMonthCost(ModuleOf[r]) + Estimate[r] <= Budget
  BY AiCallsAssumption DEF Ai!Dispatch, Ai!Dispatchable, Ai!NoReceipt, Ai!WithinBudget, AiInv,
     AiTyped
<1>2. receipt' = [receipt EXCEPT ![r] = entered] /\ month' = month
  BY DEF Ai!Dispatch
<1> HIDE DEF entered
<1>3. receipt'[r] = entered /\ Ai!Charged(r)' = Estimate[r]
  <2>1. receipt'[r] = entered
    BY <1>2 DEF AiInv, AiTyped
  <2> QED
    BY <1>1, <2>1 DEF Ai!Charged, Ai!Held, Ai!Coalesce
<1>4. ASSUME NEW p \in Runs, p # r
        PROVE receipt'[p] = receipt[p] /\ Ai!Charged(p)' = Ai!Charged(p)
  <2>1. receipt'[p] = receipt[p]
    BY <1>2, <1>4 DEF AiInv, AiTyped
  <2> QED
    BY <2>1 DEF Ai!Charged, Ai!Held
<1>5. ASSUME NEW p \in Runs
      PROVE  /\ Ai!Charged(p) \in Nat /\ Ai!Reserved(p) \in Nat /\ Ai!Booked(p) \in Nat
             /\ receipt[p].month = month /\ receipt[p].status # "none"
                  => Ai!Charged(p) <= Ai!Booked(p) + Ai!Reserved(p)
  BY ChargesAreNumbers, BookedIs, ChargedIsCounted
<1> SUFFICES ASSUME NEW m \in 1 .. Months
             PROVE  Ai!SumFunction([p \in Runs |->
                      IF receipt'[p].month = m THEN Ai!Charged(p)' ELSE 0]) <= Budget
  BY DEF Ai!MonthsStayWithinBudget
<1> DEFINE before == [p \in Runs |-> IF receipt[p].month = m THEN Ai!Charged(p) ELSE 0]
           after == [p \in Runs |-> IF receipt'[p].month = m THEN Ai!Charged(p)' ELSE 0]
           ledger == [p \in Runs |-> Ai!Booked(p)]
           open == [p \in Runs |-> Ai!Reserved(p)]
           counted == [p \in Runs |-> Ai!Booked(p) + Ai!Reserved(p)]
           new == [p \in Runs |-> IF p = r THEN Estimate[r] ELSE 0]
           all == [p \in Runs |-> counted[p] + new[p]]
<1>6. after \in [Runs -> Nat] /\ before \in [Runs -> Nat]
  BY <1>1, <1>3, <1>4, <1>5
<1>7. CASE m # month
  <2>1. ASSUME NEW p \in Runs PROVE after[p] <= before[p]
    <3>1. CASE p = r
      BY <1>1, <1>3, <1>5, <1>7, <3>1
    <3>2. CASE p # r
      BY <1>4, <1>5, <3>2
    <3> QED
      BY <3>1, <3>2
  <2>2. Ai!SumFunction(before) <= Budget
    BY DEF Ai!MonthsStayWithinBudget
  <2> HIDE DEF before
  <2>3. Ai!SumFunction(after) <= Ai!SumFunction(before)
    <3> HIDE DEF after
    <3> QED
      BY <1>6, <2>1, SumGrows, AiCallsAssumption
  <2>4. Ai!SumFunction(after) \in Nat /\ Ai!SumFunction(before) \in Nat
    <3> HIDE DEF after
    <3> QED
      BY <1>6, SumIsNumber, AiCallsAssumption
  <2> QED
    BY <2>2, <2>3, <2>4, AiCallsAssumption
<1>8. CASE m = month
  <2>1. /\ ledger \in [Runs -> Nat] /\ open \in [Runs -> Nat] /\ counted \in [Runs -> Nat]
        /\ new \in [Runs -> Nat] /\ all \in [Runs -> Nat]
    BY <1>1, <1>5
  <2>2. ASSUME NEW p \in Runs PROVE after[p] <= all[p]
    <3>1. CASE p = r
      BY <1>1, <1>3, <1>5, <3>1
    <3>2. CASE p # r
      <4>1. receipt[p].status = "none" => receipt[p].month = 0
        BY DEF AiInv, ReceiptTells
      <4>2. after[p] <= counted[p]
        BY <1>4, <1>5, <1>8, <3>2, <4>1
      <4> QED
        BY <1>5, <3>2, <4>2
    <3> QED
      BY <3>1, <3>2
  <2>3. Ai!SumFunction(ledger) + Ai!SumFunction(open) + Estimate[r] <= Budget
    BY <1>1 DEF Ai!CurrentMonthCost
  <2>4. IsFiniteSet(Runs)
    BY AiCallsAssumption
  <2>5. \A p \in Runs : counted[p] = ledger[p] + open[p]
    OBVIOUS
  <2>6. \A p \in Runs : all[p] = counted[p] + new[p]
    OBVIOUS
  <2>7. /\ \A p \in Runs \ {r} : new[p] = 0
        /\ new[r] = Estimate[r]
    OBVIOUS
  <2> HIDE DEF ledger, open, counted, new, all
  <2>8. Ai!SumFunction(counted) = Ai!SumFunction(ledger) + Ai!SumFunction(open)
    BY <2>1, <2>5, <2>4, SumOfBoth
  <2>9. Ai!SumFunction(new) = Estimate[r]
    BY <2>1, <2>7, SumOfOne, AiCallsAssumption
  <2>10. Ai!SumFunction(all) = Ai!SumFunction(counted) + Ai!SumFunction(new)
    BY <2>1, <2>6, <2>4, SumOfBoth
  <2>11. /\ Ai!SumFunction(after) \in Nat /\ Ai!SumFunction(all) \in Nat
           /\ Ai!SumFunction(ledger) \in Nat
        /\ Ai!SumFunction(open) \in Nat
    <3> HIDE DEF after
    <3> QED
      BY <1>6, <2>1, SumIsNumber, AiCallsAssumption
  <2>12. Ai!SumFunction(after) <= Ai!SumFunction(all)
    <3> HIDE DEF after
    <3> QED
      BY <1>6, <2>1, <2>2, SumGrows, AiCallsAssumption
  <2> QED
    BY <1>1, <2>3, <2>8, <2>9, <2>10, <2>11, <2>12, AiCallsAssumption
<1> QED
  BY <1>7, <1>8

LEMMA RecordInBudget ==
  ASSUME AiInv, AiInv', CostsFit, Ai!MonthsStayWithinBudget, NEW q \in Requests, Ai!Record(q)
  PROVE  Ai!MonthsStayWithinBudget'
<1>1. PICK r \in Runs : r = at[q].run
  BY RequestRun DEF Ai!Record
<1> DEFINE answer == at[q].answer
           recorded == [receipt[r] EXCEPT !.status = "response_recorded",
                                      !.kind = answer.kind, !.actual = answer.actual]
<1>2. answer \in Answer
  BY RequestRun DEF Ai!Record
<1>3. CASE ~Ai!Recordable(r)
  <2>1. receipt' = receipt
    BY <1>1, <1>3 DEF Ai!Record
  <2> QED
    BY <2>1 DEF Ai!MonthsStayWithinBudget, Ai!Charged, Ai!Held
<1>4. CASE Ai!Recordable(r)
  <2>1. receipt[r] \in ReceiptRow /\ receipt[r].status = "dispatch_reserved"
          /\ receipt[r].actual = {}
    BY <1>4 DEF Ai!Recordable, CostsFit, CostFits, AiInv, AiTyped
  <2>2. /\ recorded.status = "response_recorded" /\ recorded.actual = answer.actual
        /\ recorded.month = receipt[r].month
    BY <2>1 DEF ReceiptRow
  <2>3. receipt' = [receipt EXCEPT ![r] = recorded]
    BY <1>4, <1>1 DEF Ai!Record, AiInv, AiTyped
  <2>4. answer.actual \in Costs /\ \A c \in answer.actual : c <= Estimate[r]
    BY <1>1, <1>2 DEF Answer, CostsFit, AnswerFits, Ai!Record
  <2>5. Estimate[r] \in Nat
    BY <1>2, AiCallsAssumption
  <2> HIDE DEF recorded
  <2>6. receipt'[r] = recorded
    BY <1>2, <2>3 DEF AiInv, AiTyped
  <2>7. Ai!Charged(r) = Estimate[r]
    BY <2>1 DEF Ai!Charged, Ai!Held, Ai!Coalesce
  <2>8. Ai!Charged(r)' = Ai!Coalesce(answer.actual, Estimate[r])
    BY <2>2, <2>6 DEF Ai!Charged, Ai!Held
  <2>9. Ai!Charged(r)' <= Ai!Charged(r)
    <3>1. CASE answer.actual = {}
      BY <2>5, <2>7, <2>8, <3>1 DEF Ai!Coalesce
    <3>2. CASE answer.actual # {}
      <4>1. PICK c \in answer.actual : TRUE
        BY <3>2
      <4> QED
        BY <2>4, <2>5, <2>7, <2>8, <4>1, Coalesced
    <3> QED
      BY <3>1, <3>2
  <2> QED
    BY <1>2, <2>2, <2>3, <2>9, OneChargeShrinks
<1> QED
  BY <1>3, <1>4

LEMMA FinalizeInBudget ==
  ASSUME AiInv, AiInv', Ai!MonthsStayWithinBudget, NEW q \in Requests, Ai!Finalize(q)
  PROVE  Ai!MonthsStayWithinBudget'
<1>1. PICK r \in Runs : r = at[q].run
  BY RequestRun DEF Ai!Finalize
<1> DEFINE settled == [receipt[r] EXCEPT !.status = "finalized"]
<1>2. CASE receipt' = receipt
  BY <1>2 DEF Ai!MonthsStayWithinBudget, Ai!Charged, Ai!Held
<1>3. CASE receipt' # receipt
  <2>1. receipt[r] \in ReceiptRow /\ receipt[r].status = "response_recorded"
    BY <1>1, <1>3 DEF Ai!Finalize, AiInv, AiTyped
  <2>2. /\ settled.status = "finalized" /\ settled.actual = receipt[r].actual
        /\ settled.month = receipt[r].month /\ receipt[r].actual \in Costs
    BY <2>1 DEF ReceiptRow
  <2>3. receipt' = [receipt EXCEPT ![r] = settled]
    BY <1>3, <1>1 DEF Ai!Finalize, AiInv, AiTyped
  <2>4. Estimate[r] \in Nat
    BY <1>1, AiCallsAssumption
  <2> HIDE DEF settled
  <2>5. receipt'[r] = settled
    BY <1>1, <2>3 DEF AiInv, AiTyped
  <2>6. /\ Ai!Charged(r) = Ai!Coalesce(receipt[r].actual, Estimate[r])
        /\ Ai!Charged(r)' = Ai!Coalesce(receipt[r].actual, 0)
    BY <2>1, <2>2, <2>5 DEF Ai!Charged, Ai!Held
  <2>7. Ai!Charged(r)' <= Ai!Charged(r)
    <3>1. CASE receipt[r].actual = {}
      BY <2>4, <2>6, <3>1 DEF Ai!Coalesce
    <3>2. CASE receipt[r].actual # {}
      <4>1. Ai!Charged(r)' = Ai!Charged(r) /\ Ai!Charged(r) \in Nat
        BY <1>1, <2>6, <3>2, ChargesAreNumbers DEF Ai!Coalesce
      <4> QED
        BY <4>1
    <3> QED
      BY <3>1, <3>2
  <2> QED
    BY <1>1, <2>2, <2>3, <2>7, OneChargeShrinks
<1> QED
  BY <1>2, <1>3

LEMMA GiveUpInBudget ==
  ASSUME AiInv, AiInv', Ai!MonthsStayWithinBudget, NEW q \in Requests, Ai!GiveUp(q)
  PROVE  Ai!MonthsStayWithinBudget'
<1>1. PICK r \in Runs : r = at[q].run
  BY RequestRun DEF Ai!GiveUp
<1> DEFINE lost == [receipt[r] EXCEPT !.status = "outcome_unknown", !.kind = "failure"]
<1>2. CASE receipt' = receipt
  BY <1>2 DEF Ai!MonthsStayWithinBudget, Ai!Charged, Ai!Held
<1>3. CASE receipt' # receipt
  <2>1. receipt[r] \in ReceiptRow /\ receipt[r].status = "dispatch_reserved"
    BY <1>1, <1>3 DEF Ai!GiveUp, AiInv, AiTyped
  <2>2. /\ lost.status = "outcome_unknown" /\ lost.actual = receipt[r].actual
        /\ lost.month = receipt[r].month
    BY <2>1 DEF ReceiptRow
  <2>3. receipt' = [receipt EXCEPT ![r] = lost]
    BY <1>3, <1>1 DEF Ai!GiveUp, Ai!GivenUp, AiInv, AiTyped
  <2> HIDE DEF lost
  <2>4. receipt'[r] = lost
    BY <1>1, <2>3 DEF AiInv, AiTyped
  <2>5. Ai!Charged(r)' = Ai!Charged(r) /\ Ai!Charged(r) \in Nat
    BY <1>1, <2>1, <2>2, <2>4, ChargesAreNumbers DEF Ai!Charged, Ai!Held
  <2>6. Ai!Charged(r)' <= Ai!Charged(r)
    BY <2>5
  <2> QED
    BY <1>1, <2>2, <2>3, <2>6, OneChargeShrinks
<1> QED
  BY <1>2, <1>3

LEMMA NextInBudget ==
  ASSUME AiInv, AiInv', CostsFit, Ai!MonthsStayWithinBudget, [Ai!Next]_(Ai!vars)
  PROVE  Ai!MonthsStayWithinBudget'
<1>1. CASE receipt' = receipt
  BY <1>1 DEF Ai!MonthsStayWithinBudget, Ai!Charged, Ai!Held
<1>2. CASE receipt' # receipt
  <2>1. \/ \E q \in Requests, r \in Runs : Ai!Dispatch(q, r)
        \/ \E q \in Requests : Ai!Record(q) \/ Ai!Finalize(q) \/ Ai!GiveUp(q)
    BY <1>2 DEF Ai!Next, Ai!vars, Ai!Plan, Ai!Cancel, Ai!BecomesOverdue, Ai!Changes, Ai!Start,
       Ai!Block, Ai!GoStale, Ai!Resume,
                Ai!ProviderAnswers, Ai!CallFails, Ai!Dies, Ai!MonthEnds
  <2> QED
    BY <2>1, DispatchInBudget, RecordInBudget, FinalizeInBudget, GiveUpInBudget
<1> QED
  BY <1>1, <1>2

LEMMA InitInBudget == Ai!Init => CostsFit /\ Ai!MonthsStayWithinBudget
<1> SUFFICES ASSUME Ai!Init PROVE CostsFit /\ Ai!MonthsStayWithinBudget
  OBVIOUS
<1>1. /\ \A r \in Runs : receipt[r].month = 0 /\ receipt[r].actual = {}
        /\ receipt[r].status = "none"
      /\ month = 1 /\ \A q \in Requests : at[q].step = "idle"
  BY DEF Ai!Init, Ai!NoReceipt, Ai!Idle
<1>2. CostsFit
  BY <1>1 DEF CostsFit, CostFits, AnswerFits
<1>3. ASSUME NEW m \in 1 .. Months
      PROVE  Ai!SumFunction([r \in Runs |-> IF receipt[r].month = m THEN Ai!Charged(r) ELSE 0]) <= Budget
  <2> DEFINE none == [r \in Runs |-> 0]
  <2>1. [r \in Runs |-> IF receipt[r].month = m THEN Ai!Charged(r) ELSE 0] = none
    BY <1>1
  <2>2. none \in [Runs -> Nat] /\ \A r \in Runs : none[r] = none[r] + none[r]
    OBVIOUS
  <2>3. IsFiniteSet(Runs)
    BY AiCallsAssumption
  <2>4. Ai!SumFunction(none) = Ai!SumFunction(none) + Ai!SumFunction(none)
          /\ Ai!SumFunction(none) \in Nat
    <3> HIDE DEF none
    <3> QED
      BY <2>2, <2>3, SumOfBoth, SumIsNumber
  <2>5. Ai!SumFunction(none) = 0
    <3>1. \A n \in Nat : n = n + n => n = 0
      OBVIOUS
    <3> HIDE DEF none
    <3> QED
      BY <2>4, <3>1, Zenon
  <2>6. 0 <= Budget
    BY AiCallsAssumption
  <2> HIDE DEF none
  <2> QED
    BY <2>1, <2>5, <2>6, Zenon
<1> QED
  BY <1>2, <1>3 DEF Ai!MonthsStayWithinBudget

LEMMA AiHolds == Ai!Spec => [](AiInv /\ CostsFit /\ Ai!MonthsStayWithinBudget)
<1>1. Ai!Init => AiInv /\ CostsFit /\ Ai!MonthsStayWithinBudget
  BY AiBegins, InitInBudget
<1>2. AiInv /\ CostsFit /\ Ai!MonthsStayWithinBudget /\ [Ai!Next]_(Ai!vars)
        => (AiInv /\ CostsFit /\ Ai!MonthsStayWithinBudget)'
  BY AiKeeps, NextFits, NextInBudget
<1> QED
  BY <1>1, <1>2, PTL DEF Ai!Spec

LEMMA AiInvTypes == AiInv => Ai!TypeOK
<1> SUFFICES ASSUME AiInv PROVE Ai!TypeOK
  OBVIOUS
<1>1. ASSUME NEW c \in Costs PROVE Cardinality(c) <= 1
  <2>1. CASE c = {}
    BY <2>1, FS_EmptySet
  <2>2. CASE c # {}
    <3>1. PICK n \in Nat : c = {n}
      BY <2>2 DEF Costs
    <3> QED
      BY <3>1, FS_Singleton
  <2> QED
    BY <2>1, <2>2
<1>2. ASSUME NEW r \in Runs
      PROVE  /\ run[r] \in {"none", "running", "cancelled", "stale"} \cup Ai!Blockable \cup Ai!Ended
             /\ receipt[r].status \in {"none", "finalized"} \cup Ai!OpenReceipt
             /\ receipt[r].actual \in Costs
  BY DEF AiInv, AiTyped, Uncalled, Ai!Blockable, ReceiptRow
<1> QED
  BY <1>1, <1>2, AiCounts DEF AiInv, AiTyped, Ai!TypeOK

LEMMA InvTellsCalls == AiInv => Ai!OneCallPerRun /\ Ai!RunTellsItsCall
BY DEF AiInv, ReceiptTells, Agreed, AiOpen, Ai!OneCallPerRun, Ai!RunTellsItsCall

-----------------------------------------------------------------------------
(***************************************************************************)
(* The closure fee: every version is the effect of the key whose answer    *)
(* names it, and a key keeps its answer.                                   *)
(***************************************************************************)

\* What the office does, its part does, or nothing.
LEMMA FeesRuns == OfficeSpec => Fees!Spec
<1>1. OfficeInit => Fees!Init
  BY DEF OfficeInit
<1>2. [OfficeNext]_officeVars => [Fees!Next]_(Fees!vars)
  BY DEF OfficeNext, officeVars, Only, feeRows, Fees!vars, TextStep, AnalysisStep, AiStep,
     AccountsStep, FeesStep, MailStep, LossStep, RegistryStep, PhotosStep, TramerStep,
     TrackingStep
<1> QED
  BY <1>1, <1>2, PTL DEF OfficeSpec, Fees!Spec

FeeStatuses == {"control_required", "approved", "corrected"}

FeeRow == [status : FeeStatuses, report : Reports, key : Keys]

AnswerRow == [command : Fees!Commands, answer : {Fees!Made(n) : n \in Nat \ {0}}]

Waiting == [step : {"waiting"}, key : Keys, command : Fees!Commands]

FeesTyped ==
  /\ case \in [Cases -> [closed : BOOLEAN, version : Nat]]
  /\ verified \in SUBSET Reports
  /\ fee \in [Cases -> Seq(FeeRow)]
  /\ stored \in [Keys -> {Fees!NoAnswer} \cup AnswerRow]
  /\ request \in [Requests -> {Fees!Idle} \cup Waiting]

\* The status of version n of a fee.
FeesStatusOf(n) ==
  Fees!StatusAfter(IF n = 1 THEN "create" ELSE IF n = 2 THEN "approve" ELSE "correct")

\* Version n of the fee of case c is named by the answer of its key.
Named(c, n) ==
  LET k == fee[c][n].key IN
  stored[k].answer = Fees!Made(n) /\ stored[k].command.of = c

FeesInv ==
  /\ FeesTyped
  /\ \A c \in Cases : \A n \in DOMAIN fee[c] :
       fee[c][n].status = FeesStatusOf(n) /\ Named(c, n)

LEMMA FeesBegins == Fees!Init => FeesInv
<1> SUFFICES ASSUME Fees!Init PROVE FeesInv
  OBVIOUS
<1>1. FeesTyped
  BY DEF Fees!Init, FeesTyped
<1>2. \A c \in Cases : fee[c] = <<>>
  BY DEF Fees!Init
<1> QED
  BY <1>1, <1>2 DEF FeesInv

\* A command that was answered is told from one that was not.
LEMMA AnswerTells ==
  ASSUME NEW entered \in AnswerRow
  PROVE  entered # Fees!NoAnswer /\ entered.answer # <<>>
BY DEF AnswerRow, Fees!NoAnswer, Fees!Made

LEMMA FeeRows ==
  ASSUME FeesInv, NEW c \in Cases
  PROVE  /\ Len(fee[c]) \in Nat /\ DOMAIN fee[c] = 1 .. Len(fee[c])
         /\ \A n \in DOMAIN fee[c] : fee[c][n] \in FeeRow
         /\ fee[c] # <<>> => Len(fee[c]) \in DOMAIN fee[c] /\ Fees!Latest(c) \in FeeRow
<1>1. fee[c] \in Seq(FeeRow)
  BY DEF FeesInv, FeesTyped
<1> QED
  BY <1>1 DEF Fees!Latest

\* Where a request goes.
LEMMA RequestMoves ==
  ASSUME FeesInv, NEW q \in Requests, NEW where \in {Fees!Idle} \cup Waiting,
         request' = [request EXCEPT ![q] = where], UNCHANGED <<case, verified, fee, stored>>
  PROVE  FeesInv'
BY DEF FeesInv, FeesTyped, Named

LEMMA ReceiveKeeps ==
  ASSUME FeesInv, NEW q \in Requests, NEW k \in Keys, NEW m \in Fees!Commands,
    Fees!Receive(q, k, m)
  PROVE  FeesInv'
<1> DEFINE where == [step |-> "waiting", key |-> k, command |-> m]
<1>1. where \in Waiting
  BY DEF Waiting
<1>2. request' = [request EXCEPT ![q] = Fees!Idle] \/ request' = [request EXCEPT ![q] = where]
  BY DEF Fees!Receive, Fees!Reply
<1> HIDE DEF where
<1> QED
  BY <1>1, <1>2, RequestMoves DEF Fees!Receive

\* The version that a command makes comes where its status belongs.
LEMMA MadeInTurn ==
  ASSUME FeesInv, NEW m \in Fees!Commands, NEW k \in Keys, Fees!Asks(m),
    Fees!Eligible(m.of, Fees!ReportOf(m))
  PROVE  /\ m.of \in Cases
         /\ Fees!Version(m, k) \in FeeRow
         /\ Fees!Version(m, k).status = FeesStatusOf(Len(fee[m.of]) + 1)
         /\ Fees!Version(m, k).key = k
<1>1. m.of \in Cases /\ m.op \in {"create", "approve", "correct"}
  BY DEF Fees!Commands
<1>2. Fees!ReportOf(m) \in Reports
  BY DEF Fees!Eligible, FeesInv, FeesTyped
<1>3. Fees!Version(m, k) \in FeeRow /\ Fees!Version(m, k).status = Fees!StatusAfter(m.op)
        /\ Fees!Version(m, k).key = k
  BY <1>1, <1>2 DEF Fees!Version, FeeRow, FeeStatuses, Fees!StatusAfter
<1>4. fee[m.of] # <<>> =>
        Len(fee[m.of]) \in Nat \ {0} /\ Fees!Latest(m.of).status = FeesStatusOf(Len(fee[m.of]))
  BY <1>1, FeeRows DEF FeesInv, Fees!Latest
<1>5. CASE m.op = "create"
  <2>1. Len(fee[m.of]) = 0
    BY <1>5 DEF Fees!Asks
  <2> QED
    BY <1>1, <1>3, <1>5, <2>1 DEF FeesStatusOf
<1>6. CASE m.op = "approve"
  <2>1. fee[m.of] # <<>> /\ Fees!Latest(m.of).status = "control_required"
    BY <1>6 DEF Fees!Asks
  <2>2. Len(fee[m.of]) = 1
    BY <1>4, <2>1 DEF FeesStatusOf, Fees!StatusAfter
  <2> QED
    BY <1>1, <1>3, <1>6, <2>2 DEF FeesStatusOf
<1>7. CASE m.op = "correct"
  <2>1. fee[m.of] # <<>> /\ Fees!Latest(m.of).status \in {"approved", "corrected"}
    BY <1>7 DEF Fees!Asks
  <2>2. Len(fee[m.of]) \in Nat \ {0} /\ Fees!Latest(m.of).status = FeesStatusOf(Len(fee[m.of]))
    BY <1>4, <2>1
  <2>3. FeesStatusOf(1) = "control_required"
    BY DEF FeesStatusOf, Fees!StatusAfter
  <2>4. Len(fee[m.of]) # 1
    BY <2>1, <2>2, <2>3
  <2>5. \A l \in Nat \ {0} : l # 1 => l + 1 # 1 /\ l + 1 # 2
    OBVIOUS
  <2>6. Len(fee[m.of]) + 1 # 1 /\ Len(fee[m.of]) + 1 # 2
    BY <2>2, <2>4, <2>5
  <2> QED
    BY <1>1, <1>3, <1>7, <2>6 DEF FeesStatusOf
<1> QED
  BY <1>1, <1>5, <1>6, <1>7

\* A command that is carried out: one version more, its key answered for good.
LEMMA MakeKeeps ==
  ASSUME FeesInv, NEW q \in Requests, NEW m \in Fees!Commands, NEW k \in Keys,
         stored[k] = Fees!NoAnswer, Fees!Asks(m), Fees!Eligible(m.of, Fees!ReportOf(m)),
         fee' = [fee EXCEPT ![m.of] = Append(@, Fees!Version(m, k))],
         stored' = Fees!Kept(k, m, Fees!Made(Fees!FeeVersion(m.of) + 1)),
         request' = [request EXCEPT ![q] = Fees!Idle], UNCHANGED <<case, verified>>
  PROVE  FeesInv'
<1> DEFINE entered == Fees!Version(m, k)
           answer == [command |-> m, answer |-> Fees!Made(Len(fee[m.of]) + 1)]
<1>1. m.of \in Cases /\ entered \in FeeRow
        /\ entered.status = FeesStatusOf(Len(fee[m.of]) + 1) /\ entered.key = k
  BY MadeInTurn
<1>2. Len(fee[m.of]) \in Nat /\ fee[m.of] \in Seq(FeeRow)
  BY <1>1, FeeRows DEF FeesInv, FeesTyped
<1>3. answer \in AnswerRow
  BY <1>2 DEF AnswerRow
<1>4. stored' = [stored EXCEPT ![k] = answer]
  BY DEF Fees!Kept, Fees!FeeVersion
<1>5. fee' = [fee EXCEPT ![m.of] = Append(fee[m.of], entered)]
  OBVIOUS
<1>6. answer.answer = Fees!Made(Len(fee[m.of]) + 1) /\ answer.command.of = m.of
  OBVIOUS
<1> HIDE DEF entered, answer
<1>7. /\ Append(fee[m.of], entered) \in Seq(FeeRow)
      /\ DOMAIN Append(fee[m.of], entered) = DOMAIN fee[m.of] \cup {Len(fee[m.of]) + 1}
      /\ Append(fee[m.of], entered)[Len(fee[m.of]) + 1] = entered
      /\ \A n \in DOMAIN fee[m.of] : Append(fee[m.of], entered)[n] = fee[m.of][n]
  BY <1>1, <1>2
<1>8. FeesTyped'
  <2>1. fee' \in [Cases -> Seq(FeeRow)]
    BY <1>5, <1>7 DEF FeesInv, FeesTyped
  <2>2. stored' \in [Keys -> {Fees!NoAnswer} \cup AnswerRow]
    BY <1>3, <1>4 DEF FeesInv, FeesTyped
  <2> QED
    BY <2>1, <2>2 DEF FeesInv, FeesTyped
\* The versions that were there have other keys.
<1>9. ASSUME NEW c \in Cases, NEW n \in DOMAIN fee[c]
      PROVE  fee[c][n].key \in Keys /\ fee[c][n].key # k
  <2>1. fee[c][n].key \in Keys
    BY <1>9, FeeRows DEF FeeRow
  <2>2. stored[fee[c][n].key].answer = Fees!Made(n) /\ Fees!NoAnswer.answer = <<>>
          /\ Fees!Made(n) # <<>>
    BY DEF FeesInv, Named, Fees!NoAnswer, Fees!Made
  <2> QED
    BY <2>1, <2>2
<1>10. ASSUME NEW c \in Cases, NEW n \in DOMAIN fee'[c]
       PROVE  fee'[c][n].status = FeesStatusOf(n) /\ Named(c, n)'
  <2>1. CASE c # m.of
    <3>1. fee'[c] = fee[c]
      BY <1>5, <2>1 DEF FeesInv, FeesTyped
    <3>2. n \in DOMAIN fee[c] /\ fee'[c][n] = fee[c][n]
      BY <3>1
    <3>3. stored'[fee[c][n].key] = stored[fee[c][n].key]
      BY <1>4, <1>9, <3>2 DEF FeesInv, FeesTyped
    <3>4. fee[c][n].status = FeesStatusOf(n) /\ Named(c, n)
      BY <3>2 DEF FeesInv
    <3> QED
      BY <3>2, <3>3, <3>4 DEF Named
  <2>2. CASE c = m.of /\ n \in DOMAIN fee[c]
    <3>1. fee'[c][n] = fee[c][n]
      BY <1>1, <1>5, <1>7, <2>2 DEF FeesInv, FeesTyped
    <3>2. stored'[fee[c][n].key] = stored[fee[c][n].key]
      BY <1>4, <1>9, <2>2 DEF FeesInv, FeesTyped
    <3> QED
      BY <2>2, <3>1, <3>2 DEF FeesInv, Named
  <2>3. CASE c = m.of /\ n = Len(fee[c]) + 1
    <3>1. fee'[c][n] = entered
      BY <1>1, <1>5, <1>7, <2>3 DEF FeesInv, FeesTyped
    <3>2. stored'[k] = answer
      BY <1>4 DEF FeesInv, FeesTyped
    <3> QED
      BY <1>1, <1>6, <2>3, <3>1, <3>2 DEF Named
  <2> QED
    BY <1>1, <1>5, <1>7, <2>1, <2>2, <2>3 DEF FeesInv, FeesTyped
<1> QED
  BY <1>8, <1>10 DEF FeesInv

LEMMA ExecuteKeeps ==
  ASSUME FeesInv, NEW q \in Requests, Fees!Execute(q)
  PROVE  FeesInv'
<1>1. request[q] \in Waiting
  BY DEF Fees!Execute, FeesInv, FeesTyped, Fees!Idle
<1>2. PICK m \in Fees!Commands, k \in Keys : m = request[q].command /\ k = request[q].key
  BY <1>1 DEF Waiting
<1>3. CASE UNCHANGED <<fee, stored>>
  <2>1. request' = [request EXCEPT ![q] = Fees!Idle]
    BY <1>2 DEF Fees!Execute, Fees!Reply
  <2> QED
    BY <1>3, <2>1, RequestMoves DEF Fees!Execute
<1>4. CASE /\ ~Fees!GuardedAgain(k) /\ Fees!Asks(m) /\ Fees!Eligible(m.of, Fees!ReportOf(m))
           /\ fee' = [fee EXCEPT ![m.of] = Append(@, Fees!Version(m, k))]
           /\ stored' = Fees!Kept(k, m, Fees!Made(Fees!FeeVersion(m.of) + 1))
           /\ request' = [request EXCEPT ![q] = Fees!Idle]
  BY <1>4, MakeKeeps DEF Fees!Execute, Fees!GuardedAgain
<1> QED
  BY <1>2, <1>3, <1>4 DEF Fees!Execute, Fees!Reply

LEMMA FeesKeeps ==
  ASSUME FeesInv, [Fees!Next]_(Fees!vars)
  PROVE  FeesInv'
<1>1. ASSUME NEW q \in Requests, Fees!Dies(q) PROVE FeesInv'
  BY <1>1, RequestMoves DEF Fees!Dies
<1>2. ASSUME NEW c \in Cases, Fees!CaseMoves(c) PROVE FeesInv'
  <2>1. case' \in [Cases -> [closed : BOOLEAN, version : Nat]]
    BY <1>2 DEF Fees!CaseMoves, FeesInv, FeesTyped
  <2> QED
    BY <1>2, <2>1 DEF Fees!CaseMoves, FeesInv, FeesTyped, Named
<1>3. ASSUME NEW r \in Reports, Fees!ReportVerified(r) PROVE FeesInv'
  BY <1>3 DEF Fees!ReportVerified, FeesInv, FeesTyped, Named
<1>4. CASE UNCHANGED Fees!vars
  BY <1>4 DEF Fees!vars, FeesInv, FeesTyped, Named
<1> QED
  BY <1>1, <1>2, <1>3, <1>4, ReceiveKeeps, ExecuteKeeps DEF Fees!Next

LEMMA FeesHolds == Fees!Spec => []FeesInv
BY FeesBegins, FeesKeeps, PTL DEF Fees!Spec

LEMMA FeesInvTypes == FeesInv => Fees!TypeOK
BY DEF FeesInv, FeesTyped, FeesStatusOf, Fees!TypeOK

EveryVersionNamed ==
  \A c \in Cases : \A n \in DOMAIN fee[c] :
    LET k == fee[c][n].key IN
    stored[k].answer = Fees!Made(n) /\ stored[k].command.of = c

AnswersAgain ==
  (reply' # Fees!NoReply /\ stored[reply'.key] # Fees!NoAnswer) =>
     reply'.answer = Fees!Answered(reply'.key, reply'.command)

LEMMA InvNames == FeesInv => EveryVersionNamed
BY DEF FeesInv, Named, EveryVersionNamed

\* A reply to a key that has an answer is that answer.
LEMMA StepAnswersAgain ==
  ASSUME FeesInv, Fees!Next
  PROVE  AnswersAgain
<1>1. ASSUME NEW q \in Requests, NEW k \in Keys, NEW m \in Fees!Commands, Fees!Receive(q, k, m)
      PROVE  AnswersAgain
  BY <1>1 DEF Fees!Receive, Fees!Reply, AnswersAgain
<1>2. ASSUME NEW q \in Requests, Fees!Execute(q)
      PROVE  AnswersAgain
  BY <1>2 DEF Fees!Execute, Fees!Reply, Fees!GuardedAgain, AnswersAgain
<1>3. ASSUME reply' = Fees!NoReply
      PROVE  AnswersAgain
  BY <1>3 DEF AnswersAgain
<1> QED
  BY <1>1, <1>2, <1>3 DEF Fees!Next, Fees!Dies, Fees!CaseMoves, Fees!ReportVerified

-----------------------------------------------------------------------------
(***************************************************************************)
(* The value loss: at most one version is approved, it alone is active,    *)
(* and only an approval ends it.                                           *)
(***************************************************************************)

\* What the office does, its part does, or nothing.
LEMMA LossRuns == OfficeSpec => Loss!Spec
<1>1. OfficeInit => Loss!Init
  BY DEF OfficeInit
<1>2. [OfficeNext]_officeVars => [Loss!Next]_(Loss!vars)
  BY DEF OfficeNext, officeVars, Only, lossRows, Loss!vars, TextStep, AnalysisStep, AiStep,
     AccountsStep, FeesStep, MailStep, LossStep, RegistryStep, PhotosStep, TramerStep,
     TrackingStep
<1> QED
  BY <1>1, <1>2, PTL DEF OfficeSpec, Loss!Spec

LEMMA LossCounts == \A S : Loss!Cardinality(S) = Cardinality(S)
BY DEF Loss!Cardinality, Cardinality

Statuses ==
  {"draft", "control_required", "awaiting_approval", "approved", "rejected", "superseded"}

LossVersionRow ==
  [status : Statuses, submittable : BOOLEAN, human : {"pending", "approved", "rejected"},
   active : BOOLEAN]

ReportRow == [status : {"none"} \cup Statuses, facts : Nat]

OnScreen ==
  {Loss!NoPage}
  \cup [kind : {"assessment"}, version : Nat]
  \cup [kind : {"report"}, version : Nat, of : Nat, shows : ReportRow]

LossTyped ==
  /\ assessment \in [version : Nat, current : Nat]
  /\ lossVer \in Seq(LossVersionRow)
  /\ report \in Seq(ReportRow)
  /\ facts \in Nat
  /\ desk \in [Users -> OnScreen]
  /\ assessment.current = Len(lossVer) /\ Len(report) = Len(lossVer)

\* An approved version was approved by a person and is active, and a version has
\* a report only if a person has approved it.
RowFits(n) ==
  /\ lossVer[n].active <=> lossVer[n].status = "approved"
  /\ lossVer[n].status = "approved" => lossVer[n].human = "approved"
  /\ report[n] # Loss!NoReport => Loss!Reportable(n)

OneApproved ==
  \A n, m \in DOMAIN lossVer : lossVer[n].status = "approved"
    /\ lossVer[m].status = "approved" => n = m

ReportOnScreen(u) == desk[u].kind = "report" => desk[u].of \in DOMAIN lossVer

LossInv ==
  /\ LossTyped
  /\ \A n \in DOMAIN lossVer : RowFits(n)
  /\ OneApproved
  /\ \A u \in Users : ReportOnScreen(u)

LEMMA LossBegins == Loss!Init => LossInv
<1> SUFFICES ASSUME Loss!Init PROVE LossInv
  OBVIOUS
<1>1. lossVer = <<>> /\ report = <<>> /\ \A u \in Users : desk[u].kind = "none"
  BY DEF Loss!Init, Loss!NoPage
<1>2. LossTyped
  BY <1>1 DEF Loss!Init, LossTyped, OnScreen
<1> QED
  BY <1>1, <1>2 DEF LossInv, RowFits, OneApproved, ReportOnScreen

\* The versions and the reports beside them.
LEMMA VersionRows ==
  ASSUME LossInv
  PROVE  /\ Len(lossVer) \in Nat /\ DOMAIN lossVer = 1 .. Len(lossVer)
            /\ DOMAIN report = DOMAIN lossVer
         /\ \A n \in DOMAIN lossVer : lossVer[n] \in LossVersionRow /\ report[n] \in ReportRow
BY DEF LossInv, LossTyped

\* A step that leaves the versions and the reports, and gives a user a page.
LEMMA ScreenKeeps ==
  ASSUME LossInv, NEW u \in Users, NEW p \in OnScreen, p.kind = "report"
    => p.of \in DOMAIN lossVer,
         desk' = [desk EXCEPT ![u] = p], UNCHANGED <<assessment, lossVer, facts, report>>
  PROVE  LossInv'
<1>1. LossTyped'
  BY DEF LossInv, LossTyped
<1>2. \A v \in Users : ReportOnScreen(v)'
  BY DEF LossInv, LossTyped, ReportOnScreen
<1> QED
  BY <1>1, <1>2 DEF LossInv, RowFits, OneApproved, Loss!Reportable

LEMMA LossLookKeeps ==
  ASSUME LossInv, NEW u \in Users, Loss!Look(u) \/ Loss!Leave(u)
  PROVE  LossInv'
<1>1. CASE Loss!Leave(u)
  <2>1. Loss!NoPage \in OnScreen /\ Loss!NoPage.kind # "report"
    BY DEF OnScreen, Loss!NoPage
  <2> QED
    BY <1>1, <2>1, ScreenKeeps DEF Loss!Leave
<1>2. CASE desk' = [desk EXCEPT ![u] = [kind |-> "assessment", version |-> assessment.version]]
           /\ UNCHANGED <<assessment, lossVer, facts, report>>
  <2> DEFINE p == [kind |-> "assessment", version |-> assessment.version]
  <2>1. p \in OnScreen /\ p.kind # "report" /\ desk' = [desk EXCEPT ![u] = p]
    BY <1>2 DEF OnScreen, LossInv, LossTyped
  <2> HIDE DEF p
  <2> QED
    BY <1>2, <2>1, ScreenKeeps
<1>3. ASSUME NEW n \in DOMAIN lossVer, UNCHANGED <<assessment, lossVer, facts, report>>,
             desk' = [desk EXCEPT ![u] = [kind |-> "report", version |-> assessment.version,
                                          of |-> n, shows |-> Loss!Content(n)]]
      PROVE  LossInv'
  <2> DEFINE p == [kind |-> "report", version |-> assessment.version, of |-> n,
                   shows |-> Loss!Content(n)]
  <2>1. n \in Nat /\ Loss!Content(n) \in ReportRow
    BY VersionRows DEF Loss!Content, ReportRow, LossVersionRow, LossInv, LossTyped
  <2>2. p \in OnScreen /\ p.of = n /\ desk' = [desk EXCEPT ![u] = p]
    BY <1>3, <2>1 DEF OnScreen, LossInv, LossTyped
  <2> HIDE DEF p
  <2> QED
    BY <1>3, <2>2, ScreenKeeps
<1> QED
  BY <1>1, <1>2, <1>3 DEF Loss!Look

\* The rows of the versions once one is added.
LEMMA Added ==
  ASSUME LossInv, NEW u \in Users, Loss!CreateVersion(u)
  PROVE  /\ lossVer' \in Seq(LossVersionRow) /\ report' \in Seq(ReportRow)
         /\ Len(lossVer') = Len(lossVer) + 1 /\ Len(report') = Len(lossVer) + 1
         /\ DOMAIN lossVer' = DOMAIN lossVer \cup {Len(lossVer) + 1}
         /\ \A n \in DOMAIN lossVer : lossVer'[n] = lossVer[n] /\ report'[n] = report[n]
         /\ ~lossVer'[Len(lossVer) + 1].active /\ report'[Len(lossVer) + 1] = Loss!NoReport
         /\ lossVer'[Len(lossVer) + 1].status \in {"draft", "control_required"}
<1>1. PICK submittable \in BOOLEAN : lossVer' = Append(lossVer, Loss!NewVersion(submittable))
  BY DEF Loss!CreateVersion, Loss!VersionsWith
<1> DEFINE entered == Loss!NewVersion(submittable)
<1>2. /\ entered \in LossVersionRow /\ ~entered.active
        /\ entered.status \in {"draft", "control_required"}
      /\ Loss!NoReport \in ReportRow
  BY DEF Loss!NewVersion, LossVersionRow, Statuses, Loss!NoReport, ReportRow
<1>3. lossVer' = Append(lossVer, entered) /\ report' = Append(report, Loss!NoReport)
  BY <1>1 DEF Loss!CreateVersion
<1>4. lossVer \in Seq(LossVersionRow) /\ report \in Seq(ReportRow) /\ Len(report) = Len(lossVer)
  BY DEF LossInv, LossTyped
<1> HIDE DEF entered
<1>5. /\ lossVer' \in Seq(LossVersionRow) /\ Len(lossVer') = Len(lossVer) + 1
        /\ lossVer'[Len(lossVer) + 1] = entered
      /\ DOMAIN lossVer' = 1 .. Len(lossVer) + 1 /\ DOMAIN lossVer = 1 .. Len(lossVer)
         /\ Len(lossVer) \in Nat
      /\ \A n \in DOMAIN lossVer : lossVer'[n] = lossVer[n]
  BY <1>2, <1>3, <1>4
<1>6. /\ report' \in Seq(ReportRow) /\ Len(report') = Len(lossVer) + 1
      /\ report'[Len(lossVer) + 1] = Loss!NoReport /\ DOMAIN report = 1 .. Len(lossVer)
      /\ \A n \in DOMAIN report : report'[n] = report[n]
  BY <1>2, <1>3, <1>4
<1> QED
  BY <1>2, <1>5, <1>6

LEMMA LossCreateKeeps ==
  ASSUME LossInv, NEW u \in Users, Loss!CreateVersion(u)
  PROVE  LossInv'
<1>1. LossTyped'
  <2>1. desk' \in [Users -> OnScreen]
    BY DEF Loss!CreateVersion, OnScreen, LossInv, LossTyped
  <2>2. assessment' = [version |-> assessment.version + 1, current |-> Len(lossVer) + 1]
    BY DEF Loss!CreateVersion
  <2>3. assessment'.current = Len(lossVer) + 1 /\ assessment' \in [version : Nat, current : Nat]
    BY <2>2, VersionRows DEF LossInv, LossTyped
  <2> QED
    BY <2>1, <2>3, Added DEF Loss!CreateVersion, LossInv, LossTyped
<1>2. ASSUME NEW n \in DOMAIN lossVer' PROVE RowFits(n)'
  BY Added DEF LossInv, RowFits, Loss!Reportable
<1>3. OneApproved'
  BY Added DEF LossInv, OneApproved
<1>4. ASSUME NEW v \in Users PROVE ReportOnScreen(v)'
  BY Added DEF Loss!CreateVersion, LossInv, LossTyped, ReportOnScreen, Loss!NoPage
<1> QED
  BY <1>1, <1>2, <1>3, <1>4 DEF LossInv

\* A decision that gives the current version a status that is not "approved", and
\* leaves the others.
LEMMA OneRowKeeps ==
  ASSUME LossInv, NEW u \in Users, NEW entered \in LossVersionRow, assessment.current # 0,
         lossVer[assessment.current].status \in {"draft", "control_required", "awaiting_approval"},
         entered.status \in {"awaiting_approval", "rejected"}, ~entered.active,
         lossVer' = [lossVer EXCEPT ![assessment.current] = entered],
         assessment' = [assessment EXCEPT !.version = @ + 1],
         desk' = [desk EXCEPT ![u] = Loss!NoPage], UNCHANGED <<facts, report>>
  PROVE  LossInv'
<1> DEFINE c == assessment.current
<1>1. c \in DOMAIN lossVer
  BY VersionRows DEF LossInv, LossTyped
<1>2. /\ DOMAIN lossVer' = DOMAIN lossVer /\ lossVer'[c] = entered /\ Len(lossVer') = Len(lossVer)
      /\ lossVer' \in Seq(LossVersionRow)
      /\ \A n \in DOMAIN lossVer : n # c => lossVer'[n] = lossVer[n]
  BY <1>1 DEF LossInv, LossTyped
<1>3. report[c] = Loss!NoReport
  BY <1>1 DEF LossInv, RowFits, Loss!Reportable
<1> HIDE DEF c
<1>4. LossTyped'
  BY <1>2 DEF LossInv, LossTyped, OnScreen
<1>5. ASSUME NEW n \in DOMAIN lossVer PROVE RowFits(n)'
  BY <1>2, <1>3 DEF LossInv, RowFits, Loss!Reportable
<1>6. OneApproved'
  BY <1>2 DEF LossInv, OneApproved
<1>7. ASSUME NEW v \in Users PROVE ReportOnScreen(v)'
  BY <1>2 DEF LossInv, LossTyped, ReportOnScreen, Loss!NoPage
<1> QED
  BY <1>2, <1>4, <1>5, <1>6, <1>7 DEF LossInv

LEMMA SubmitKeeps ==
  ASSUME LossInv, NEW u \in Users, Loss!Submit(u) \/ Loss!Reject(u)
  PROVE  LossInv'
<1> DEFINE c == assessment.current
<1>1. c # 0 /\ lossVer[c].status \in {"draft", "control_required", "awaiting_approval"}
  BY DEF Loss!Submit, Loss!Reject, Loss!Decide
<1>2. c \in DOMAIN lossVer /\ lossVer[c] \in LossVersionRow
  BY <1>1, VersionRows DEF LossInv, LossTyped
<1>3. ~lossVer[c].active
  BY <1>1, <1>2 DEF LossInv, RowFits
<1>4. CASE Loss!Submit(u)
  <2> DEFINE entered == [lossVer[c] EXCEPT !.status = "awaiting_approval"]
  <2>1. entered \in LossVersionRow /\ entered.status = "awaiting_approval" /\ ~entered.active
    BY <1>2, <1>3 DEF LossVersionRow, Statuses
  <2>2. lossVer' = [lossVer EXCEPT ![c] = entered]
    BY <1>2, <1>4 DEF Loss!Submit, Loss!Decide, LossInv, LossTyped
  <2> HIDE DEF entered
  <2> QED
    BY <1>1, <1>4, <2>1, <2>2, OneRowKeeps DEF Loss!Submit, Loss!Decide
<1>5. CASE Loss!Reject(u)
  <2> DEFINE entered == [lossVer[c] EXCEPT !.status = "rejected", !.human = "rejected", !.active = FALSE]
  <2>1. entered \in LossVersionRow /\ entered.status = "rejected" /\ ~entered.active
    BY <1>2 DEF LossVersionRow, Statuses
  <2>2. lossVer' = [lossVer EXCEPT ![c] = entered]
    BY <1>2, <1>5 DEF Loss!Reject, Loss!Decide, LossInv, LossTyped
  <2> HIDE DEF entered
  <2> QED
    BY <1>1, <1>5, <2>1, <2>2, OneRowKeeps DEF Loss!Reject, Loss!Decide
<1> QED
  BY <1>4, <1>5

LEMMA LossApproveKeeps ==
  ASSUME LossInv, NEW u \in Users, Loss!Approve(u)
  PROVE  LossInv' /\ Loss!ApprovedNow
<1> DEFINE c == assessment.current
<1>1. c # 0 /\ lossVer[c].status = "awaiting_approval" /\ lossVer' = Loss!Approved(c)
  BY DEF Loss!Approve, Loss!Decide
<1>2. c \in DOMAIN lossVer
  BY <1>1, VersionRows DEF LossInv, LossTyped
<1>3. /\ DOMAIN lossVer' = DOMAIN lossVer
      /\ lossVer'[c] = [lossVer[c] EXCEPT !.status = "approved", !.human = "approved", !.active = TRUE]
      /\ \A n \in DOMAIN lossVer : n # c =>
           lossVer'[n] = IF lossVer[n].status = "approved" /\ lossVer[n].active
                         THEN [lossVer[n] EXCEPT !.status = "superseded", !.active = FALSE]
                         ELSE lossVer[n]
  BY <1>1, <1>2 DEF Loss!Approved
<1>4. ASSUME NEW n \in DOMAIN lossVer
      PROVE  /\ lossVer'[n] \in LossVersionRow
             /\ n = c => /\ lossVer'[n].status = "approved" /\ lossVer'[n].human = "approved"
                         /\ lossVer'[n].active
             /\ n # c /\ lossVer[n].status = "approved" =>
                  lossVer'[n].status = "superseded" /\ ~lossVer'[n].active
                    /\ lossVer'[n].human = lossVer[n].human
             /\ n # c /\ lossVer[n].status # "approved" => lossVer'[n] = lossVer[n]
  <2>1. lossVer[n] \in LossVersionRow /\ RowFits(n)
    BY VersionRows DEF LossInv
  <2>2. CASE n = c
    BY <1>3, <2>1, <2>2 DEF LossVersionRow, Statuses
  <2>3. CASE n # c /\ lossVer[n].status = "approved"
    BY <1>3, <2>1, <2>3 DEF LossVersionRow, Statuses, RowFits
  <2>4. CASE n # c /\ lossVer[n].status # "approved"
    BY <1>3, <2>1, <2>4
  <2> QED
    BY <2>2, <2>3, <2>4
<1>5. lossVer' \in Seq(LossVersionRow) /\ Len(lossVer') = Len(lossVer)
  <2>1. lossVer' = [n \in 1 .. Len(lossVer) |-> lossVer'[n]] /\ Len(lossVer) \in Nat
    BY <1>1, VersionRows DEF Loss!Approved
  <2>2. \A n \in 1 .. Len(lossVer) : lossVer'[n] \in LossVersionRow
    BY <1>4, VersionRows
  <2> QED
    BY <2>1, <2>2
<1>6. report[c] = Loss!NoReport
  BY <1>1, <1>2 DEF LossInv, RowFits, Loss!Reportable
<1>7. /\ UNCHANGED <<facts, report>> /\ desk' = [desk EXCEPT ![u] = Loss!NoPage]
      /\ assessment' = [assessment EXCEPT !.version = @ + 1]
  BY DEF Loss!Approve, Loss!Decide
<1>8. LossTyped'
  BY <1>5, <1>7 DEF LossInv, LossTyped, OnScreen
<1>9. ASSUME NEW n \in DOMAIN lossVer PROVE RowFits(n)'
  <2>1. RowFits(n)
    BY DEF LossInv
  <2> QED
    BY <1>4, <1>6, <1>7, <2>1 DEF RowFits, Loss!Reportable
<1>10. OneApproved'
  <2>1. \A n \in DOMAIN lossVer : lossVer'[n].status = "approved" => n = c
    BY <1>4
  <2> QED
    BY <1>3, <2>1 DEF OneApproved
<1>11. ASSUME NEW v \in Users PROVE ReportOnScreen(v)'
  BY <1>3, <1>7 DEF LossInv, LossTyped, ReportOnScreen, Loss!NoPage
<1> HIDE DEF c
<1> QED
  BY <1>1, <1>2, <1>3, <1>4, <1>8, <1>9, <1>10, <1>11 DEF LossInv, Loss!ApprovedNow

LEMMA GenerateKeeps ==
  ASSUME LossInv, NEW u \in Users, Loss!Generate(u)
  PROVE  /\ LossInv' /\ UNCHANGED lossVer
         /\ \A n \in DOMAIN lossVer : report[n] # Loss!NoReport => report'[n] = report[n]
<1>1. PICK n \in DOMAIN lossVer : n = desk[u].of
  BY DEF Loss!Generate, Loss!Fresh, LossInv, ReportOnScreen
<1>2. /\ Loss!Reportable(n) /\ report[n] = Loss!NoReport
        /\ report' = [report EXCEPT ![n] = Loss!Content(n)]
      /\ UNCHANGED <<assessment, lossVer, facts>> /\ desk' = [desk EXCEPT ![u] = Loss!NoPage]
  BY <1>1 DEF Loss!Generate
<1>3. Loss!Content(n) \in ReportRow
  BY VersionRows DEF Loss!Content, ReportRow, LossVersionRow, LossInv, LossTyped
<1>4. /\ report' \in Seq(ReportRow) /\ Len(report') = Len(report)
      /\ \A m \in DOMAIN lossVer : m # n => report'[m] = report[m]
  BY <1>1, <1>2, <1>3 DEF LossInv, LossTyped
<1>5. LossTyped'
  BY <1>2, <1>4 DEF LossInv, LossTyped, OnScreen
<1>6. \A m \in DOMAIN lossVer : RowFits(m)'
  BY <1>2, <1>4 DEF LossInv, RowFits, Loss!Reportable
<1>7. \A v \in Users : ReportOnScreen(v)'
  BY <1>2 DEF LossInv, LossTyped, ReportOnScreen, Loss!NoPage
<1> QED
  BY <1>2, <1>4, <1>5, <1>6, <1>7 DEF LossInv, OneApproved

LEMMA LossKeeps ==
  ASSUME LossInv, [Loss!Next]_(Loss!vars)
  PROVE  LossInv'
<1>1. CASE Loss!CaseEdited
  BY <1>1 DEF Loss!CaseEdited, LossInv, LossTyped, RowFits, OneApproved, ReportOnScreen,
     Loss!Reportable
<1>2. CASE UNCHANGED Loss!vars
  BY <1>2 DEF Loss!vars, LossInv, LossTyped, RowFits, OneApproved, ReportOnScreen, Loss!Reportable
<1> QED
  BY <1>1, <1>2, LossLookKeeps, LossCreateKeeps, SubmitKeeps, LossApproveKeeps,
     GenerateKeeps DEF Loss!Next

LEMMA LossHolds == Loss!Spec => []LossInv
BY LossBegins, LossKeeps, PTL DEF Loss!Spec

LEMMA LossInvTypes == LossInv => Loss!TypeOK
BY VersionRows DEF LossInv, LossTyped, RowFits, Loss!TypeOK, LossVersionRow, Statuses

\* The version in force is the approved one.
LEMMA InForceIs ==
  ASSUME LossInv
  PROVE  Loss!InForce = {n \in DOMAIN lossVer : lossVer[n].status = "approved"}
BY DEF LossInv, RowFits, Loss!InForce

LEMMA OneInForce == LossInv => Cardinality(Loss!InForce) <= 1
<1> SUFFICES ASSUME LossInv PROVE Cardinality(Loss!InForce) <= 1
  OBVIOUS
<1>1. CASE Loss!InForce = {}
  BY <1>1, FS_EmptySet
<1>2. CASE Loss!InForce # {}
  <2>1. PICK n : n \in Loss!InForce
    BY <1>2
  <2>2. Loss!InForce = {n}
    BY <2>1, InForceIs DEF LossInv, OneApproved
  <2> QED
    BY <2>2, FS_Singleton, 1 <= 1
<1> QED
  BY <1>1, <1>2

ValueKept ==
  Loss!InForce # {} /\ ~Loss!ApprovedNow =>
    /\ Loss!InForce' = Loss!InForce
    /\ Loss!Present => Loss!Present' /\ \A n \in Loss!InForce : report'[n] = report[n]

\* A step that approves nothing takes no approval away, nor a report.
LEMMA StepKeepsValue ==
  ASSUME LossInv, [Loss!Next]_(Loss!vars)
  PROVE  ValueKept
<1>1. LossInv'
  BY LossKeeps
<1>2. ASSUME DOMAIN lossVer \subseteq DOMAIN lossVer',
             \A n \in DOMAIN lossVer : lossVer[n].status = "approved" <=> lossVer'[n].status = "approved",
             \A n \in DOMAIN lossVer' \ DOMAIN lossVer : lossVer'[n].status # "approved",
             \A n \in DOMAIN lossVer : report[n] # Loss!NoReport => report'[n] = report[n]
      PROVE  ValueKept
  <2>1. Loss!InForce = {n \in DOMAIN lossVer : lossVer[n].status = "approved"}
    BY InForceIs
  <2>2. Loss!InForce' = {n \in DOMAIN lossVer' : lossVer'[n].status = "approved"}
    BY <1>1 DEF LossInv, RowFits, Loss!InForce
  <2>3. Loss!InForce' = Loss!InForce
    BY <1>2, <2>1, <2>2
  <2>4. ASSUME Loss!Present PROVE Loss!Present' /\ \A n \in Loss!InForce : report'[n] = report[n]
    <3>1. PICK n \in Loss!InForce : report[n] # Loss!NoReport
      BY <2>4 DEF Loss!Present
    <3>2. \A m \in Loss!InForce : m = n
      BY <2>1, <3>1 DEF LossInv, OneApproved
    <3>3. n \in DOMAIN lossVer /\ report'[n] = report[n]
      BY <1>2, <2>1, <3>1
    <3> QED
      BY <2>3, <3>1, <3>2, <3>3 DEF Loss!Present
  <2> QED
    BY <2>3, <2>4 DEF ValueKept
<1>3. ASSUME NEW u \in Users, Loss!CreateVersion(u) PROVE ValueKept
  BY <1>2, <1>3, Added
<1>4. ASSUME NEW u \in Users, Loss!Submit(u) \/ Loss!Reject(u) PROVE ValueKept
  <2> DEFINE c == assessment.current
  <2>1. /\ c # 0 /\ lossVer[c].status \in {"draft", "control_required", "awaiting_approval"}
        /\ UNCHANGED report
    BY <1>4 DEF Loss!Submit, Loss!Reject, Loss!Decide
  <2>2. c \in DOMAIN lossVer /\ lossVer[c] \in LossVersionRow
    BY <2>1, VersionRows DEF LossInv, LossTyped
  <2>3. \/ lossVer' = [lossVer EXCEPT ![c] = [lossVer[c] EXCEPT !.status = "awaiting_approval"]]
        \/ lossVer' = [lossVer EXCEPT ![c] = [lossVer[c] EXCEPT !.status = "rejected", !.human = "rejected",
                                                                !.active = FALSE]]
    BY <1>4, <2>2 DEF Loss!Submit, Loss!Reject, Loss!Decide, LossInv, LossTyped
  <2>4. /\ DOMAIN lossVer' = DOMAIN lossVer
        /\ lossVer'[c].status \in {"awaiting_approval", "rejected"}
        /\ \A n \in DOMAIN lossVer : n # c => lossVer'[n] = lossVer[n]
    BY <2>2, <2>3 DEF LossInv, LossTyped, LossVersionRow
  <2> QED
    BY <1>2, <2>1, <2>4
<1>5. ASSUME NEW u \in Users, Loss!Approve(u) PROVE ValueKept
  BY <1>5, LossApproveKeeps DEF ValueKept
<1>6. ASSUME NEW u \in Users, Loss!Generate(u) PROVE ValueKept
  BY <1>2, <1>6, GenerateKeeps
<1>7. ASSUME UNCHANGED <<lossVer, report>> PROVE ValueKept
  BY <1>2, <1>7
<1> QED
  BY <1>3, <1>4, <1>5, <1>6, <1>7 DEF Loss!Next, Loss!Look, Loss!Leave, Loss!CaseEdited, Loss!vars

-----------------------------------------------------------------------------
(* Theorems                                                                *)

\* No crash and no retry pays for a run twice, run, receipt and ledger agree, and what
\* is known to be spent or is reserved for the calls of a month stays within its budget,
\* though what the calls of others will cost is known only when they end; a call that
\* is settled without a known cost counts nothing (lockMonthlyBudget, currentMonthCost,
\* recordProviderResult of policy-ai/store.ts).
THEOREM CallsPaidOnce == OfficeSpec => []CallsArePaidOnce
<1>1. AiInv /\ CostsFit /\ Ai!MonthsStayWithinBudget => CallsArePaidOnce
  BY InvTellsCalls DEF CallsArePaidOnce
<1> QED
  BY <1>1, AiRuns, AiHolds, PTL

\* Every version of a fee is the one effect of the command whose key it bears, and
\* that key is answered as it was the first time, whoever else uses it meanwhile
\* (guard, approveFee, correctFee of fees/store.ts).
THEOREM RepeatsAnswered == OfficeSpec => AnsweredAsBefore
<1>1. FeesInv => EveryVersionNamed
  BY InvNames
<1>2. FeesInv /\ [Fees!Next]_(Fees!vars) => [AnswersAgain]_(Fees!vars)
  BY StepAnswersAgain
<1> QED
  BY <1>1, <1>2, FeesRuns, FeesHolds, PTL
     DEF AnsweredAsBefore, Fees!AnsweredAsBefore, Fees!Spec, EveryVersionNamed, AnswersAgain

\* At most one value is in force, and only an approval puts another in its place:
\* drafts made beside it, also those of stale screens, leave it and its report
\* (traffic-value-loss/store.ts, closure-store.ts).
THEOREM ValueStays == OfficeSpec => ValueStaysInForce
<1>1. LossInv => Loss!Cardinality(Loss!InForce) <= 1
  BY OneInForce, LossCounts
<1>2. LossInv /\ [Loss!Next]_(Loss!vars) => [ValueKept]_(Loss!vars)
  BY StepKeepsValue
<1> QED
  BY <1>1, <1>2, LossRuns, LossHolds, PTL
     DEF ValueStaysInForce, Loss!ValueStaysInForce, Loss!Spec, ValueKept
=============================================================================
