------------------------ MODULE MCWorkspaceProvisioning ------------------------
(***************************************************************************)
(* Model-checking instance of WorkspaceProvisioning.  Agents are            *)
(* interchangeable, and so are cases with one plate: the safety run takes   *)
(* their permutations as symmetry, the liveness run does not.               *)
(***************************************************************************)
EXTENDS WorkspaceProvisioning, TLC

Symmetry == Permutations(Agents) \cup Permutations(Cases)
=============================================================================
