----------------------------- MODULE MCJobQueue -----------------------------
(***************************************************************************)
(* Model-checking instance of JobQueue.  No symmetry is declared: the run  *)
(* also checks that every job ends.                                        *)
(***************************************************************************)
EXTENDS JobQueue
=============================================================================
