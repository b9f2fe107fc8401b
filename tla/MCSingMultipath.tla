-------------------------- MODULE MCSingMultipath --------------------------
(***************************************************************************)
(* An instance of SingMultipath for TLC: every policy, each with a         *)
(* granularity under which it decides differently.                         *)
(***************************************************************************)
EXTENDS SingMultipath, Bitwise

\* A definition of its own is evaluated once.
XorTable == [x \in Paths |-> [i \in Paths |-> i ^^ x]]
MCXorOf == XorTable

Setup(p, u, b) == [policy |-> p, unit |-> u, behavior |-> b]
MCSetups ==
  {Setup("oblivious", 3, "random"), Setup("bitmap", 0, "keep"),
   Setup("bitmap", 3, "keep"), Setup("reps", 1, "keep"),
   Setup("reps_legacy", 0, "keep"), Setup("reps_legacy", 3, "keep"),
   Setup("mixed", 0, "keep")}
==========================================================================
