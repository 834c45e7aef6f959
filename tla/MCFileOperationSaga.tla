------------------------ MODULE MCFileOperationSaga ------------------------
(***************************************************************************)
(* Model-checking instance of FileOperationSaga.  Storage roots are        *)
(* interchangeable: nothing prefers one, so the safety runs take their     *)
(* permutations as symmetry.                                               *)
(***************************************************************************)
EXTENDS FileOperationSaga, TLC

RootSymmetry == Permutations(Roots)
=============================================================================
