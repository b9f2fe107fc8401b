------------------------- MODULE ReliableDelivery -------------------------
(***************************************************************************)
(* What a SING flow promises, without sequence spaces, timers or messages: *)
(* packets are released in order, arrive in any order and at most once,    *)
(* the source confirms only what has arrived, and it finishes exactly when *)
(* everything is confirmed.                                                *)
(***************************************************************************)
EXTENDS Integers

CONSTANT NumPkts

VARIABLES
  released,   \* packets the source has sent at least once
  arrived,    \* packets the sink holds
  confirmed,  \* packets the source knows to be there
  finished    \* the source has reported completion

vars == <<released, arrived, confirmed, finished>>

Init == released = 0 /\ arrived = {} /\ confirmed = {} /\ finished = FALSE

Release == /\ released < NumPkts
           /\ ~finished
           /\ released' = released + 1
           /\ UNCHANGED <<arrived, confirmed, finished>>

Arrive == /\ \E d \in (0..released - 1) \ arrived : arrived' = arrived \cup {d}
          /\ UNCHANGED <<released, confirmed, finished>>

Confirm == /\ \E S \in SUBSET arrived : confirmed' = confirmed \cup S
           /\ finished' \in {finished, TRUE}
           /\ finished' => confirmed' = 0..NumPkts - 1
           /\ UNCHANGED <<released, arrived>>

Next == Release \/ Arrive \/ Confirm

Spec == Init /\ [][Next]_vars
==========================================================================
