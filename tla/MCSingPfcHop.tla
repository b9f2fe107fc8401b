--------------------------- MODULE MCSingPfcHop ---------------------------
(***************************************************************************)
(* Instances of SingPfcHop for TLC.                                        *)
(***************************************************************************)
EXTENDS SingPfcHop

MCHeadroom == DefaultHeadroom
==========================================================================
