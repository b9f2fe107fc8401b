--------------------------- MODULE RecycledPaths ---------------------------
(***************************************************************************)
(* What REPS promises of the paths it hands out.  It remembers the last    *)
(* Size paths that were reported good.  While the flow is healthy, each of *)
(* them is handed out once, in the order of the reports; a path is picked  *)
(* at random only when none is left.  In a frozen flow, any remembered     *)
(* path may be handed out again.  When that ends, everything remembered is *)
(* forgotten and the next Explore paths are picked at random.              *)
(***************************************************************************)
EXTENDS Integers, Sequences

CONSTANTS Paths, Size, Explore

VARIABLES
  recent,   \* the remembered reports, the oldest first
  unused,   \* the last so many of them have not been handed out yet
  frozen,
  explore,  \* random picks still to be made
  chosen    \* the path handed out last

vars == <<recent, unused, frozen, explore, chosen>>

Init == recent = <<>> /\ unused = 0 /\ frozen = FALSE /\ explore = 0 /\ chosen = 0

Remember(p) ==
  /\ recent' = IF Len(recent) < Size THEN Append(recent, p) ELSE Append(Tail(recent), p)
  /\ unused' = IF frozen THEN 0 ELSE IF unused < Size THEN unused + 1 ELSE unused

Report(p) == Remember(p) /\ UNCHANGED <<frozen, explore, chosen>>

Pick ==
  /\ explore > 0
  /\ explore' = explore - 1
  /\ chosen' \in Paths
  /\ UNCHANGED <<recent, unused, frozen>>

Recycle ==
  /\ explore = 0 /\ ~frozen /\ unused > 0
  /\ chosen' = recent[Len(recent) + 1 - unused]
  /\ unused' = unused - 1
  /\ UNCHANGED <<recent, frozen, explore>>

Guess ==
  /\ explore = 0
  /\ IF frozen THEN recent = <<>> ELSE unused = 0
  /\ chosen' \in Paths
  /\ UNCHANGED <<recent, unused, frozen, explore>>

Replay ==
  /\ explore = 0 /\ frozen
  /\ \E i \in 1 .. Len(recent) : chosen' = recent[i]
  /\ UNCHANGED <<recent, unused, frozen, explore>>

Freeze ==
  /\ ~frozen /\ explore = 0
  /\ frozen' = TRUE /\ unused' = 0
  /\ UNCHANGED <<recent, explore, chosen>>

\* The report that ends the freeze is the first thing to be remembered, if it
\* is a good one.
Thaw ==
  /\ frozen
  /\ frozen' = FALSE /\ explore' = Explore
  /\ \/ recent' = <<>> /\ unused' = 0
     \/ \E p \in Paths : recent' = <<p>> /\ unused' = 1
  /\ UNCHANGED chosen

Next ==
  \/ \E p \in Paths : Report(p)
  \/ Pick \/ Recycle \/ Guess \/ Replay
  \/ Freeze \/ Thaw

Spec == Init /\ [][Next]_vars
==========================================================================
