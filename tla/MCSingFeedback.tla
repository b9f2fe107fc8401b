---------------------------- MODULE MCSingFeedback ----------------------------
(***************************************************************************)
(* An instance of SingFeedback for TLC.  Nothing orders the paths.         *)
(***************************************************************************)
EXTENDS SingFeedback

Symmetry == Permutations(Paths)
==============================================================================
