----------------------------- MODULE MCSingNic -----------------------------
(***************************************************************************)
(* An instance of SingNic for TLC: a source with two subflows and one      *)
(* packet, and a source with a single subflow and two, behind the same     *)
(* port.                                                                   *)
(***************************************************************************)
EXTENDS SingNic

MCSubflowsOf == [s \in Sources |-> IF s = 1 THEN <<1, 2>> ELSE <<3>>]
MCNumPkts == [s \in Sources |-> s]
==========================================================================
