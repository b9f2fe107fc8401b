---------------------------- MODULE RepsBuffer ----------------------------
(***************************************************************************)
(* The ring in which REPS keeps the paths that brought packets through     *)
(* (CircularBufferREPS), and the two calls SingMpReps makes of it: a path  *)
(* is reported (processEv), a path is asked for (nextEntropy).             *)
(*                                                                         *)
(* A ring is a record: value and valid are the elements, head the next     *)
(* slot to be written, count the slots that have been, fresh the counter   *)
(* number_fresh_entropies.  In frozen mode, from a timeout until FreezeTime*)
(* has passed, the slots are replayed from headFrozen on.  explore counts  *)
(* the random choices left after a freeze.  exitIn is can_exit_frozen_mode *)
(* minus now, and -1 once that is negative.                                *)
(***************************************************************************)
EXTENDS Integers

CONSTANTS
  NumPaths,       \* _no_of_paths
  BufferSize,     \* repsBufferSize
  ExploreRounds,  \* random choices after a freeze: 16
  FreezeTime      \* exit_freeze_after

ASSUME RepsAssumption ==
  /\ NumPaths \in Nat \ {0}
  /\ BufferSize \in Nat \ {0}
  /\ ExploreRounds \in Nat
  /\ FreezeTime \in Nat

Paths == 0 .. NumPaths - 1
Slots == 0 .. BufferSize - 1
UnknownEv == 0
Feedback == {"good", "ecn", "nack", "timeout"}

EmptyRing ==
  [value |-> [s \in Slots |-> 0], valid |-> {}, head |-> 0, headFrozen |-> 0,
   count |-> 0, fresh |-> 0, frozen |-> FALSE, explore |-> 0, exitIn |-> -1]

AtMost(x, most) == IF x > most THEN most ELSE x

\* add: the oldest element is written over when the ring is full.
Add(b, p) ==
  [b EXCEPT !.value[b.head] = p,
            !.valid = @ \cup {b.head},
            !.fresh = AtMost(IF b.head \in b.valid THEN @ ELSE @ + 1, BufferSize),
            !.head = (@ + 1) % BufferSize,
            !.count = AtMost(@ + 1, BufferSize)]

\* The slot k places before the head.
Back(h, k) == IF h - k < 0 THEN h + BufferSize - k ELSE h - k

\* A slip: the last report is taken, not the first.
NewestFresh(b) == Back(b.head, 1)
\* remove_earliest_fresh: the slot as many places back as there are fresh ones.
EarliestFresh(b) == Back(b.head, b.fresh)
RemoveEarliestFresh(b) ==
  [b EXCEPT !.valid = @ \ {EarliestFresh(b)}, !.fresh = @ - 1]

\* remove_frozen: the next slot that was ever written, fresh or not.
RemoveFrozen(b) ==
  [b EXCEPT !.valid = @ \ {b.headFrozen},
            !.fresh = IF b.headFrozen \in b.valid THEN @ - 1 ELSE @,
            !.headFrozen = (@ + 1) % b.count]

\* resetBuffer
Reset(b) ==
  [b EXCEPT !.value = [s \in Slots |-> 0], !.valid = {}, !.head = 0,
            !.headFrozen = 0, !.count = 0, !.fresh = 0]

--------------------------------------------------------------------------
(* SingMpReps                                                              *)

\* processEv, its three steps in their order, with trimming enabled: without it
\* the code exits at the timeout that would freeze.
\* A slip: a timeout in frozen mode starts the time again.
FreezeAgain(b, feedback) ==
  IF feedback = "timeout" /\ b.explore = 0
  THEN [b EXCEPT !.frozen = TRUE, !.exitIn = FreezeTime] ELSE b
Freeze(b, feedback) ==
  IF feedback = "timeout" /\ ~b.frozen /\ b.explore = 0
  THEN [b EXCEPT !.frozen = TRUE, !.exitIn = FreezeTime] ELSE b

\* A slip: the ring of before the freeze is kept.
ThawKeepsRing(b) ==
  IF b.frozen /\ b.exitIn < 0
  THEN [b EXCEPT !.frozen = FALSE, !.explore = ExploreRounds] ELSE b
Thaw(b) ==
  IF b.frozen /\ b.exitIn < 0
  THEN [Reset(b) EXCEPT !.frozen = FALSE, !.explore = ExploreRounds] ELSE b

Credit(b, p, feedback) == IF feedback = "good" THEN Add(b, p) ELSE b

RepsProcessEv(b, p, feedback) == Credit(Thaw(Freeze(b, feedback)), p, feedback)

\* rand() % _no_of_paths
AnyPath(b) == {[path |-> p, ring |-> b] : p \in Paths}

\* nextEntropy: what it may return, with the ring it leaves behind.
RepsNextEntropy(b) ==
  IF b.explore > 0 THEN AnyPath([b EXCEPT !.explore = @ - 1])
  ELSE IF b.count = 0 \/ (~b.frozen /\ b.fresh = 0) THEN AnyPath(b)
  ELSE IF b.frozen THEN {[path |-> b.value[b.headFrozen], ring |-> RemoveFrozen(b)]}
  ELSE {[path |-> b.value[EarliestFresh(b)], ring |-> RemoveEarliestFresh(b)]}

\* Time passes.
Older(b) == [b EXCEPT !.exitIn = IF @ < 0 THEN @ ELSE @ - 1]
==========================================================================
