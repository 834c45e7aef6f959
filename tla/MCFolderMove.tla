------------------------------ MODULE MCFolderMove ------------------------------
(***************************************************************************)
(* Model-checking instance of FolderMove: agents are interchangeable.       *)
(***************************************************************************)
EXTENDS FolderMove, TLC

AgentSymmetry == Permutations(Agents)
=============================================================================
