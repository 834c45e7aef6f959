---------------------------- MODULE PolicyReading ----------------------------
(***************************************************************************)
(* What the reading of a policy PDF promises, without jobs, leases, chunks *)
(* or retries: somebody orders a reading, attempts read the document, and  *)
(* the reading settles in one step, either with all the pages that one of  *)
(* these attempts saw, or with a failure, or with a cancellation; it never *)
(* changes again.  PolicyText implements this for the text layer           *)
(* (text-extractions/store.ts) and for OCR (policy-ocr/store.ts).          *)
(***************************************************************************)
CONSTANTS
  Readings,   \* the things that can be ordered of one document version
  Results,    \* what an attempt may see: the outcomes of the pages, in order
  StatusOf(_, _),  \* what these pages amount to, for a reading
  None        \* a reading that has not settled has no result

VARIABLES
  state,      \* [Readings -> {"absent", "open", "read", "failed", "cancelled"}]
  result,     \* [Readings -> [pages, status] or None]
  seen        \* [Readings -> SUBSET Results]: what the attempts have seen, as
              \* long as the reading is open

vars == <<state, result, seen>>

Init ==
  /\ state = [r \in Readings |-> "absent"]
  /\ result = [r \in Readings |-> None]
  /\ seen = [r \in Readings |-> {}]

Order(r) ==
  /\ state[r] = "absent"
  /\ state' = [state EXCEPT ![r] = "open"]
  /\ UNCHANGED <<result, seen>>

Attempt(r) ==
  /\ state[r] = "open"
  /\ \E p \in Results : seen' = [seen EXCEPT ![r] = @ \cup {p}]
  /\ UNCHANGED <<state, result>>

Read(r) ==
  /\ state[r] = "open"
  /\ \E p \in seen[r] :
       result' = [result EXCEPT ![r] = [pages |-> p, status |-> StatusOf(r, p)]]
  /\ state' = [state EXCEPT ![r] = "read"]
  /\ seen' = [seen EXCEPT ![r] = {}]

GiveUp(r) ==
  /\ state[r] = "open"
  /\ state' = [state EXCEPT ![r] = "failed"]
  /\ seen' = [seen EXCEPT ![r] = {}]
  /\ UNCHANGED result

Cancel(r) ==
  /\ state[r] = "open"
  /\ state' = [state EXCEPT ![r] = "cancelled"]
  /\ seen' = [seen EXCEPT ![r] = {}]
  /\ UNCHANGED result

Next ==
  \E r \in Readings :
    Order(r) \/ Attempt(r) \/ Read(r) \/ GiveUp(r) \/ Cancel(r)

\* What has been ordered settles.
Spec ==
  /\ Init
  /\ [][Next]_vars
  /\ \A r \in Readings : WF_vars(Read(r) \/ GiveUp(r) \/ Cancel(r))
=============================================================================
