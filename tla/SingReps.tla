----------------------------- MODULE SingReps -----------------------------
(***************************************************************************)
(* A REPS path selector (SingMpReps) under any feedback: every call of its *)
(* two operations, in any order, while time passes.                        *)
(***************************************************************************)
EXTENDS RepsBuffer, Sequences, FiniteSets

VARIABLES
  reps,    \* circular_buffer_reps
  chosen   \* the path nextEntropy returned last

vars == <<reps, chosen>>

Init == reps = EmptyRing /\ chosen = 0

ProcessEv ==
  /\ \E p \in Paths, feedback \in Feedback : reps' = RepsProcessEv(reps, p, feedback)
  /\ UNCHANGED chosen

NextEntropy ==
  \E r \in RepsNextEntropy(reps) : reps' = r.ring /\ chosen' = r.path

Tick == reps' = Older(reps) /\ UNCHANGED chosen

Next == ProcessEv \/ NextEntropy \/ Tick

Spec == Init /\ [][Next]_vars

--------------------------------------------------------------------------
(* Properties                                                              *)

Ring ==
  [value : [Slots -> Paths], valid : SUBSET Slots, head : Slots,
   headFrozen : Slots, count : 0 .. BufferSize, fresh : 0 .. BufferSize,
   frozen : BOOLEAN, explore : 0 .. ExploreRounds, exitIn : -1 .. FreezeTime]

TypeOK == reps \in Ring /\ chosen \in Paths

\* The n slots right before slot h.
Behind(h, n) == {Back(h, k) : k \in 1 .. n}

IsWindow(b) ==
  /\ ~b.frozen => b.valid = Behind(b.head, b.fresh)
  /\ b.fresh <= b.count
  /\ b.count < BufferSize => b.head = b.count
  /\ IF b.count = 0 THEN b.headFrozen = 0 ELSE b.headFrozen < b.count
  /\ b.frozen => b.explore = 0

FreshIsCounted == reps.fresh = Cardinality(reps.valid)

\* The counter of fresh entries (buffer_reps.cpp:51) stands for a place in the
\* ring: the valid slots are the ones right before the head, as many as it
\* says.  Frozen mode takes slots out of order, so the ring must be emptied
\* when it ends; and it must only replay slots that have been written.  In
\* frozen mode, too, the counter tells how many slots are valid, whichever
\* order reports, timeouts and choices come in.
RingIsWindow == IsWindow(reps) /\ FreshIsCounted

\* The reports in the ring, the oldest first.
Reports(b) == [i \in 1 .. b.count |-> b.value[Back(b.head, b.count + 1 - i)]]

Promise == INSTANCE RecycledPaths
  WITH Size <- BufferSize, Explore <- ExploreRounds, recent <- Reports(reps),
       unused <- IF reps.frozen THEN 0 ELSE reps.fresh,
       frozen <- reps.frozen, explore <- reps.explore, chosen <- chosen

\* Every good path is recycled once, the oldest first, and no path that was
\* not reported passes for one that was.
ImplementsRecycledPaths == Promise!Spec

\* A freeze ends although nothing but feedback looks at the clock
\* (sing_mp.cpp:224).
FreezeEnds == reps.frozen ~> ~reps.frozen
==========================================================================
