---------------------------- MODULE MCSingFlow ----------------------------
(***************************************************************************)
(* Instances of SingFlow for TLC; the bounds are in the .cfg files.        *)
(***************************************************************************)
EXTENDS SingFlow
==========================================================================
