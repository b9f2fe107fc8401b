--------------------------- MODULE MCSingSwitch ---------------------------
(***************************************************************************)
(* Instances of SingSwitch for TLC.                                        *)
(***************************************************************************)
EXTENDS SingSwitch

MCHeadroom == [p \in Ports |-> 1]
==========================================================================
