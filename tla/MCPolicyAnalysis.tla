--------------------------- MODULE MCPolicyAnalysis ---------------------------
(***************************************************************************)
(* One analysis whose versions have two conflicts.                         *)
(***************************************************************************)
EXTENDS PolicyAnalysis, TLC

CONSTANTS r1, c1, c2, a1, u1

Bundles == r1 :> "d1"
Pairs == r1 :> {{c1, c2}}
Disputed == {[conflicts |-> 2, complete |-> TRUE, initial |-> "draft"]}
=============================================================================
