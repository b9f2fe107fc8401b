------------------------ MODULE SingMultipathProofs ------------------------
(***************************************************************************)
(* Proofs about path selection, for every number of paths, ring size,      *)
(* penalty, number of exploring rounds and freezing time: first the ring   *)
(* of REPS (SingReps) and the abstract recycling of paths it implements,   *)
(* then the policies that take turns (SingMultipath).                      *)
(***************************************************************************)
EXTENDS SingMultipath, FiniteSetTheorems, SequenceTheorems, TLAPS

\* A ring as SingReps keeps it.
Sound(b) == b \in Ring /\ IsWindow(b) /\ b.fresh = Cardinality(b.valid)

--------------------------------------------------------------------------
(* The ring                                                                *)

\* The head moves by one and wraps around.
LEMMA Wraps ==
  ASSUME NEW n \in Nat \ {0}, NEW h \in 0 .. n - 1
  PROVE  (h + 1) % n = IF h + 1 = n THEN 0 ELSE h + 1
<1>1. CASE h + 1 = n
  BY <1>1
<1>2. CASE h + 1 # n
  BY <1>2
<1> QED BY <1>1, <1>2

\* Going back from the head stays in the ring, and different distances lead to
\* different slots.
LEMMA BackInSlots ==
  ASSUME NEW h \in Slots, NEW k \in 1 .. BufferSize
  PROVE  /\ Back(h, k) \in Slots
         /\ \A j \in 1 .. BufferSize : Back(h, j) = Back(h, k) => j = k
         /\ Back(h, BufferSize) = h
BY RepsAssumption DEF Back, Slots

\* Seen from the next head, every slot is one place further back.
LEMMA BackFromNext ==
  ASSUME NEW h \in Slots, NEW g, g = (h + 1) % BufferSize
  PROVE  /\ g \in Slots
         /\ Back(g, 1) = h
         /\ \A k \in 1 .. BufferSize - 1 : Back(g, k + 1) = Back(h, k)
<1>1. g = IF h + 1 = BufferSize THEN 0 ELSE h + 1
  BY Wraps, RepsAssumption DEF Slots
<1> QED BY <1>1, RepsAssumption DEF Back, Slots

\* A ring has finitely many valid slots, at most as many as there are slots.
LEMMA ValidIsFinite ==
  ASSUME NEW S \in SUBSET Slots
  PROVE  IsFiniteSet(S) /\ Cardinality(S) \in Nat
<1>1. IsFiniteSet(Slots)
  BY FS_Interval, RepsAssumption DEF Slots
<1>2. IsFiniteSet(S)
  BY <1>1, FS_Subset
<1> QED BY <1>2, FS_CardinalityType

\* A slot that is not valid leaves room for one more.
LEMMA RoomForOne ==
  ASSUME NEW S \in SUBSET Slots, NEW h \in Slots, h \notin S
  PROVE  Cardinality(S \cup {h}) = Cardinality(S) + 1 /\ Cardinality(S) + 1 <= BufferSize
<1>1. Cardinality(S \cup {h}) = Cardinality(S) + 1
  BY ValidIsFinite, FS_AddElement
<1>2. IsFiniteSet(Slots) /\ Cardinality(Slots) = BufferSize
  BY FS_Interval, RepsAssumption DEF Slots
<1>3. Cardinality(S \cup {h}) <= Cardinality(Slots)
  BY <1>2, FS_Subset
<1> QED BY <1>1, <1>2, <1>3

\* What add changes.
LEMMA AddFields ==
  ASSUME NEW b \in Ring, IsWindow(b), b.fresh = Cardinality(b.valid), NEW p \in Paths
  PROVE  /\ Add(b, p) \in Ring
         /\ Add(b, p).value = [b.value EXCEPT ![b.head] = p]
         /\ Add(b, p).valid = b.valid \cup {b.head}
         /\ Add(b, p).fresh = IF b.head \in b.valid THEN b.fresh ELSE b.fresh + 1
         /\ Add(b, p).head = (b.head + 1) % BufferSize
         /\ Add(b, p).count = IF b.count < BufferSize THEN b.count + 1 ELSE BufferSize
         /\ Add(b, p).headFrozen = b.headFrozen
         /\ Add(b, p).frozen = b.frozen
         /\ Add(b, p).explore = b.explore
         /\ Add(b, p).exitIn = b.exitIn
         /\ Add(b, p).fresh = Cardinality(Add(b, p).valid)
<1>1. b.head \in Slots /\ b.valid \subseteq Slots /\ b.fresh \in 0 .. BufferSize
      /\ b.count \in 0 .. BufferSize
  BY DEF Ring
<1>2. b.head \notin b.valid => b.fresh + 1 <= BufferSize
  BY <1>1, RoomForOne
<1>3. (b.head + 1) % BufferSize \in Slots
  BY <1>1, BackFromNext
<1>4. /\ Add(b, p).value = [b.value EXCEPT ![b.head] = p]
      /\ Add(b, p).valid = b.valid \cup {b.head}
      /\ Add(b, p).fresh = AtMost(IF b.head \in b.valid THEN b.fresh ELSE b.fresh + 1, BufferSize)
      /\ Add(b, p).head = (b.head + 1) % BufferSize
      /\ Add(b, p).count = AtMost(b.count + 1, BufferSize)
      /\ Add(b, p).headFrozen = b.headFrozen
      /\ Add(b, p).frozen = b.frozen
      /\ Add(b, p).explore = b.explore
      /\ Add(b, p).exitIn = b.exitIn
  BY DEF Add, Ring
<1>5. Add(b, p).fresh = IF b.head \in b.valid THEN b.fresh ELSE b.fresh + 1
  BY <1>1, <1>2, <1>4, RepsAssumption DEF AtMost
<1>6. Add(b, p).count = IF b.count < BufferSize THEN b.count + 1 ELSE BufferSize
  BY <1>1, <1>4, RepsAssumption DEF AtMost
<1>7. Add(b, p).fresh = Cardinality(Add(b, p).valid)
  <2>1. CASE b.head \in b.valid
    <3>1. b.valid \cup {b.head} = b.valid
      BY <2>1
    <3> QED BY <2>1, <3>1, <1>4, <1>5
  <2>2. CASE b.head \notin b.valid
    BY <2>2, <1>1, <1>4, <1>5, RoomForOne
  <2> QED BY <2>1, <2>2
<1>8. Add(b, p) \in Ring
  <2> DEFINE v == [b.value EXCEPT ![b.head] = p]
             V == b.valid \cup {b.head}
             f == AtMost(IF b.head \in b.valid THEN b.fresh ELSE b.fresh + 1, BufferSize)
             h == (b.head + 1) % BufferSize
             c == AtMost(b.count + 1, BufferSize)
  <2>1. f \in 0 .. BufferSize /\ c \in 0 .. BufferSize
    BY <1>1, <1>2, RepsAssumption DEF AtMost
  <2>2. v \in [Slots -> Paths] /\ V \in SUBSET Slots /\ h \in Slots
    BY <1>1, <1>3 DEF Ring
  <2>3. Add(b, p) = [b EXCEPT !.value = v, !.valid = V, !.fresh = f, !.head = h, !.count = c]
    BY DEF Add
  <2> HIDE DEF v, V, f, h, c
  <2> QED BY <2>1, <2>2, <2>3 DEF Ring
<1> QED BY <1>4, <1>5, <1>6, <1>7, <1>8

\* A window that moves with the head takes in the slot that was the head,
\* unless it is the whole ring already.
LEMMA WindowGrows ==
  ASSUME NEW h \in Slots, NEW n \in 0 .. BufferSize, NEW g, g = (h + 1) % BufferSize
  PROVE  /\ h \in Behind(h, n) <=> n = BufferSize
         /\ Behind(h, n) \cup {h}
              = Behind(g, IF n < BufferSize THEN n + 1 ELSE n)
<1> DEFINE m == IF n < BufferSize THEN n + 1 ELSE n
<1>1. /\ g \in Slots /\ Back(g, 1) = h
      /\ \A k \in 1 .. BufferSize - 1 : Back(g, k + 1) = Back(h, k)
  BY BackFromNext
<1>2. \A k \in 1 .. BufferSize : Back(h, k) = h <=> k = BufferSize
  BY BackInSlots, RepsAssumption
<1>3. ASSUME n = BufferSize PROVE h \in Behind(h, n)
  <2>1. BufferSize \in 1 .. n /\ Back(h, BufferSize) = h
    BY <1>2, <1>3, RepsAssumption
  <2> QED BY <2>1 DEF Behind
<1>4. ASSUME NEW k \in 1 .. n, h = Back(h, k)
      PROVE n = BufferSize
  <2>1. k \in 1 .. BufferSize
    BY RepsAssumption
  <2>2. k = BufferSize
    BY <1>2, <1>4, <2>1
  <2> QED BY <2>2
<1>5. \A s : s \in Behind(h, n) \cup {h} <=> s \in Behind(g, m)
  <2> TAKE s
  <2>1. ASSUME s = h PROVE s \in Behind(g, m)
    <3>1. 1 \in 1 .. m
      BY RepsAssumption
    <3>2. s = Back(g, 1)
      BY <2>1, <1>1
    <3> QED BY <3>1, <3>2 DEF Behind
  <2>2. ASSUME NEW k \in 1 .. n, s = Back(h, k), s # h
        PROVE  s \in Behind(g, m)
    <3>1. k # BufferSize /\ k \in 1 .. BufferSize - 1
      BY <1>2, <2>2, RepsAssumption
    <3>2. s = Back(g, k + 1)
      BY <1>1, <2>2, <3>1
    <3>3. k + 1 \in 1 .. m
      BY <3>1, RepsAssumption
    <3> HIDE DEF m
    <3> QED BY <3>2, <3>3 DEF Behind
  <2>3. ASSUME NEW k \in 1 .. m, s = Back(g, k)
        PROVE  s = h \/ s \in Behind(h, n)
    <3>1. CASE k = 1
      BY <3>1, <2>3, <1>1
    <3>2. CASE k # 1
      <4>1. k - 1 \in 1 .. n /\ k - 1 \in 1 .. BufferSize - 1 /\ (k - 1) + 1 = k
        BY <3>2, RepsAssumption
      <4>2. s = Back(h, k - 1)
        BY <4>1, <1>1, <2>3
      <4> QED BY <4>1, <4>2 DEF Behind
    <3> QED BY <3>1, <3>2
  <2> HIDE DEF m
  <2> QED BY <2>1, <2>2, <2>3 DEF Behind
<1> QED BY <1>3, <1>4, <1>5 DEF Behind

\* The window of a ring that is not frozen grows by the slot that is written.
LEMMA AddWindow ==
  ASSUME NEW b \in Ring, IsWindow(b), b.valid = Behind(b.head, b.fresh),
         b.fresh = Cardinality(b.valid), NEW p \in Paths
  PROVE  /\ Add(b, p).valid = Behind(Add(b, p).head, Add(b, p).fresh)
         /\ Add(b, p).fresh = IF b.fresh < BufferSize THEN b.fresh + 1 ELSE b.fresh
<1> DEFINE h == b.head
           n == b.fresh
           a == Add(b, p)
<1>1. h \in Slots /\ n \in 0 .. BufferSize /\ b.valid = Behind(h, n)
  BY DEF Ring
<1>2. /\ a.valid = b.valid \cup {h}
      /\ a.fresh = IF h \in b.valid THEN n ELSE n + 1
      /\ a.head = (h + 1) % BufferSize
  BY AddFields
<1> HIDE DEF h, n, a
<1>3. /\ h \in b.valid <=> n = BufferSize
      /\ b.valid \cup {h} = Behind(a.head, IF n < BufferSize THEN n + 1 ELSE n)
  BY <1>1, <1>2, WindowGrows
<1>4. a.fresh = IF n < BufferSize THEN n + 1 ELSE n
  BY <1>1, <1>2, <1>3, RepsAssumption
<1> QED BY <1>2, <1>3, <1>4 DEF a, n

\* A report keeps the ring sound.
LEMMA AddIsSound ==
  ASSUME NEW b, Sound(b), NEW p \in Paths
  PROVE  Sound(Add(b, p))
<1> DEFINE a == Add(b, p)
<1>1. b \in Ring /\ IsWindow(b) /\ b.fresh = Cardinality(b.valid)
  BY DEF Sound
<1>2. /\ b.head \in 0 .. BufferSize - 1 /\ b.count \in 0 .. BufferSize
      /\ b.fresh \in 0 .. BufferSize /\ b.headFrozen \in 0 .. BufferSize - 1
  BY <1>1 DEF Ring, Slots
<1>3. /\ a \in Ring
      /\ a.fresh = IF b.head \in b.valid THEN b.fresh ELSE b.fresh + 1
      /\ a.head = (b.head + 1) % BufferSize
      /\ a.count = IF b.count < BufferSize THEN b.count + 1 ELSE BufferSize
      /\ a.headFrozen = b.headFrozen
      /\ a.frozen = b.frozen
      /\ a.explore = b.explore
      /\ a.fresh = Cardinality(a.valid)
  BY <1>1, AddFields
<1>4. ~b.frozen => a.valid = Behind(a.head, a.fresh)
  BY <1>1, AddWindow DEF IsWindow
<1>5. /\ b.fresh <= b.count
      /\ b.count < BufferSize => b.head = b.count
      /\ IF b.count = 0 THEN b.headFrozen = 0 ELSE b.headFrozen < b.count
      /\ b.frozen => b.explore = 0
  BY <1>1 DEF IsWindow
<1> HIDE DEF a
<1>6. a.fresh <= BufferSize
  BY <1>3 DEF Ring
<1>7. a.fresh <= a.count
  BY <1>2, <1>3, <1>5, <1>6
<1>8. a.count < BufferSize => a.head = a.count
  <2>1. a.head = IF b.head + 1 = BufferSize THEN 0 ELSE b.head + 1
    BY <1>2, <1>3, Wraps, RepsAssumption
  <2> QED BY <1>2, <1>3, <1>5, <2>1, RepsAssumption
<1>9. IF a.count = 0 THEN a.headFrozen = 0 ELSE a.headFrozen < a.count
  BY <1>2, <1>3, <1>5, RepsAssumption
<1>10. IsWindow(a)
  BY <1>3, <1>4, <1>5, <1>7, <1>8, <1>9 DEF IsWindow
<1> QED BY <1>3, <1>10 DEF Sound, a

\* Taking the earliest fresh entry shortens the window at its far end.
LEMMA RemoveEarliestIsSound ==
  ASSUME NEW b, Sound(b), ~b.frozen, b.fresh > 0
  PROVE  Sound(RemoveEarliestFresh(b))
<1> DEFINE a == RemoveEarliestFresh(b)
           h == b.head
           n == b.fresh
<1>1. /\ b \in Ring /\ n = Cardinality(b.valid) /\ b.valid = Behind(h, n)
      /\ n \in 1 .. BufferSize /\ h \in Slots /\ b.valid \in SUBSET Slots
  BY DEF Sound, IsWindow, Ring
<1>2. /\ a.valid = b.valid \ {Back(h, n)} /\ a.fresh = n - 1 /\ a.head = h
      /\ a.count = b.count /\ a.headFrozen = b.headFrozen
      /\ a.frozen = b.frozen /\ a.explore = b.explore
  BY <1>1 DEF RemoveEarliestFresh, EarliestFresh, Ring
<1>3. a \in Ring
  <2> DEFINE V == b.valid \ {Back(h, n)}
             f == n - 1
  <2>1. V \in SUBSET Slots /\ f \in 0 .. BufferSize
    BY <1>1, RepsAssumption
  <2>2. a = [b EXCEPT !.valid = V, !.fresh = f]
    BY DEF RemoveEarliestFresh, EarliestFresh
  <2> HIDE DEF V, f, a
  <2> QED BY <1>1, <2>1, <2>2 DEF Ring
<1> HIDE DEF a, h, n
<1>4. Back(h, n) \in b.valid
  <2>1. n \in 1 .. n
    BY <1>1, RepsAssumption
  <2> QED BY <1>1, <2>1 DEF Behind
<1>5. Cardinality(a.valid) = n - 1
  <2>1. IsFiniteSet(b.valid)
    BY <1>1, ValidIsFinite
  <2>2. Cardinality(b.valid \ {Back(h, n)}) = Cardinality(b.valid) - 1
    BY <1>4, <2>1, FS_RemoveElement
  <2> QED BY <1>1, <1>2, <2>2
<1>6. a.valid = Behind(h, n - 1)
  <2>1. \A j \in 1 .. n : j \in 1 .. n - 1 <=> Back(h, j) # Back(h, n)
    BY <1>1, BackInSlots, RepsAssumption
  <2>2. 1 .. n - 1 \subseteq 1 .. n
    BY <1>1, RepsAssumption
  <2> QED BY <1>1, <1>2, <2>1, <2>2 DEF Behind
<1>7. n <= b.count /\ b.count \in 0 .. BufferSize
  BY DEF Sound, IsWindow, Ring, n
<1>8. IsWindow(a)
  <2>1. /\ b.count < BufferSize => h = b.count
        /\ IF b.count = 0 THEN b.headFrozen = 0 ELSE b.headFrozen < b.count
    BY DEF Sound, IsWindow, h
  <2>2. a.fresh <= a.count
    <3>1. n - 1 <= b.count
      BY <1>1, <1>7, RepsAssumption
    <3> QED BY <1>2, <3>1
  <2>3. ~a.frozen
    BY <1>2
  <2> QED BY <1>2, <1>6, <2>1, <2>2, <2>3 DEF IsWindow
<1> QED BY <1>2, <1>3, <1>5, <1>8 DEF Sound, a

\* Replaying a slot costs a fresh entry if the slot was valid.
LEMMA RemoveFrozenIsSound ==
  ASSUME NEW b, Sound(b), b.frozen, b.count > 0
  PROVE  Sound(RemoveFrozen(b))
<1> DEFINE a == RemoveFrozen(b)
           x == b.headFrozen
<1>1. /\ b \in Ring /\ b.fresh = Cardinality(b.valid) /\ b.fresh \in 0 .. BufferSize
      /\ b.count \in 1 .. BufferSize /\ x \in 0 .. b.count - 1
      /\ b.valid \in SUBSET Slots /\ b.fresh <= b.count
  BY RepsAssumption DEF Sound, IsWindow, Ring, Slots
<1>2. /\ a.valid = b.valid \ {x}
      /\ a.fresh = IF x \in b.valid THEN b.fresh - 1 ELSE b.fresh
      /\ a.head = b.head /\ a.count = b.count /\ a.headFrozen = (x + 1) % b.count
      /\ a.frozen = b.frozen /\ a.explore = b.explore
  BY <1>1 DEF RemoveFrozen, Ring
<1>3. a.fresh = Cardinality(a.valid) /\ a.fresh \in 0 .. BufferSize /\ a.fresh <= a.count
  <2>1. CASE x \in b.valid
    <3>1. Cardinality(b.valid \ {x}) = Cardinality(b.valid) - 1
      BY <1>1, <2>1, ValidIsFinite, FS_RemoveElement
    <3>2. Cardinality(b.valid \ {x}) \in Nat
      BY <1>1, ValidIsFinite
    <3> HIDE DEF a, x
    <3> QED BY <1>1, <1>2, <2>1, <3>1, <3>2, RepsAssumption
  <2>2. CASE x \notin b.valid
    <3>1. b.valid \ {x} = b.valid
      BY <2>2
    <3> HIDE DEF a, x
    <3> QED BY <1>1, <1>2, <2>2, <3>1
  <2> QED BY <2>1, <2>2
<1>4. (x + 1) % b.count = IF x + 1 = b.count THEN 0 ELSE x + 1
  <2>1. b.count \in Nat \ {0}
    BY <1>1, RepsAssumption
  <2> QED BY <1>1, <2>1, Wraps
<1>5. a.headFrozen \in Slots /\ a.headFrozen < a.count
  BY <1>1, <1>2, <1>4, RepsAssumption DEF Slots
<1>6. a \in Ring
  <2> DEFINE V == b.valid \ {x}
             f == IF x \in b.valid THEN b.fresh - 1 ELSE b.fresh
             y == (x + 1) % b.count
  <2>1. V \in SUBSET Slots /\ f \in 0 .. BufferSize /\ y \in Slots
    BY <1>1, <1>2, <1>3, <1>5
  <2>2. a = [b EXCEPT !.valid = V, !.fresh = f, !.headFrozen = y]
    BY DEF RemoveFrozen
  <2> HIDE DEF V, f, y, a
  <2> QED BY <1>1, <2>1, <2>2 DEF Ring
<1>7. IsWindow(b)
  BY DEF Sound
<1> HIDE DEF a
<1>8. IsWindow(a)
  BY <1>1, <1>2, <1>3, <1>5, <1>7 DEF IsWindow
<1> QED BY <1>3, <1>6, <1>8 DEF Sound, a

\* The end of a freeze leaves an empty ring.
LEMMA ThawIsSound ==
  ASSUME NEW b, Sound(b)
  PROVE  Sound(Thaw(b))
<1>1. CASE b.frozen /\ b.exitIn < 0
  <2> DEFINE a == Thaw(b)
             v == [s \in Slots |-> 0]
             V == {}
             t == FALSE
             x == [b EXCEPT !.value = v, !.valid = V, !.head = 0, !.headFrozen = 0,
                            !.count = 0, !.fresh = 0]
  <2>1. b \in Ring
    BY DEF Sound
  <2>2. a = [x EXCEPT !.frozen = t, !.explore = ExploreRounds]
    BY <1>1 DEF Thaw, Reset
  <2>3. /\ v \in [Slots -> Paths] /\ 0 \in Slots /\ ExploreRounds \in 0 .. ExploreRounds
        /\ V \in SUBSET Slots /\ t \in BOOLEAN
    BY RepsAssumption DEF Slots, Paths
  <2>4. /\ a.valid = {} /\ a.head = 0 /\ a.headFrozen = 0 /\ a.count = 0 /\ a.fresh = 0
        /\ a.frozen = FALSE
    BY <2>1, <2>2 DEF Ring
  <2>5. a \in Ring
    <3> HIDE DEF v, V, t, a
    <3>1. x \in Ring
      <4>1. 0 \in 0 .. BufferSize
        BY RepsAssumption
      <4> DEFINE z == 0
      <4>2. z \in 0 .. BufferSize /\ z \in Slots
        BY <2>3, <4>1
      <4>3. x = [b EXCEPT !.value = v, !.valid = V, !.head = z, !.headFrozen = z,
                          !.count = z, !.fresh = z]
        OBVIOUS
      <4> HIDE DEF x, z
      <4> QED BY <2>1, <2>3, <4>2, <4>3 DEF Ring
    <3> HIDE DEF x
    <3> QED BY <2>2, <2>3, <3>1 DEF Ring
  <2> HIDE DEF a
  <2>6. Cardinality(a.valid) = a.fresh
    BY <2>4, FS_EmptySet
  <2>7. a.valid = Behind(a.head, a.fresh)
    <3>1. 1 .. 0 = {}
      OBVIOUS
    <3> QED BY <2>4, <3>1 DEF Behind
  <2>8. IsWindow(a)
    BY <2>4, <2>7 DEF IsWindow
  <2> QED BY <2>5, <2>6, <2>8 DEF Sound, a
<1>2. CASE ~(b.frozen /\ b.exitIn < 0)
  BY <1>2 DEF Thaw
<1> QED BY <1>1, <1>2

\* A freeze and the passing of time leave the slots alone.
LEMMA FreezeIsSound ==
  ASSUME NEW b, Sound(b), NEW feedback
  PROVE  Sound(Freeze(b, feedback)) /\ Sound(Older(b))
<1>1. b \in Ring /\ IsWindow(b) /\ b.fresh = Cardinality(b.valid)
  BY DEF Sound
<1>2. Sound(Older(b))
  <2> DEFINE t == IF b.exitIn < 0 THEN b.exitIn ELSE b.exitIn - 1
             a == [b EXCEPT !.exitIn = t]
  <2>1. t \in -1 .. FreezeTime
    BY <1>1, RepsAssumption DEF Ring
  <2> HIDE DEF t
  <2>2. a \in Ring
    BY <1>1, <2>1 DEF Ring
  <2>3. IsWindow(a) /\ a.fresh = Cardinality(a.valid)
    BY <1>1 DEF IsWindow, Ring
  <2> QED BY <2>2, <2>3 DEF Sound, Older, t
<1>3. CASE feedback = "timeout" /\ ~b.frozen /\ b.explore = 0
  <2> DEFINE t == TRUE
             a == [b EXCEPT !.frozen = t, !.exitIn = FreezeTime]
  <2>1. a \in Ring
    <3>1. t \in BOOLEAN /\ FreezeTime \in -1 .. FreezeTime
      BY RepsAssumption
    <3> HIDE DEF t
    <3> QED BY <1>1, <3>1 DEF Ring
  <2>2. IsWindow(a) /\ a.fresh = Cardinality(a.valid)
    BY <1>1, <1>3 DEF IsWindow, Ring
  <2> QED BY <1>2, <1>3, <2>1, <2>2 DEF Sound, Freeze
<1>4. CASE ~(feedback = "timeout" /\ ~b.frozen /\ b.explore = 0)
  BY <1>2, <1>4 DEF Freeze
<1> QED BY <1>3, <1>4

--------------------------------------------------------------------------
(* The invariant                                                           *)

\* A credit, and the freezing or thawing it brings, keeps the ring sound.
LEMMA ProcessEvIsSound ==
  ASSUME NEW b, Sound(b), NEW p \in Paths, NEW feedback
  PROVE  Sound(RepsProcessEv(b, p, feedback))
<1>1. Sound(Thaw(Freeze(b, feedback)))
  BY FreezeIsSound, ThawIsSound
<1> QED BY <1>1, AddIsSound DEF RepsProcessEv, Credit

\* An exploring ring is not touched by a random choice, but for the count.
LEMMA ExploreIsSound ==
  ASSUME NEW b, Sound(b), b.explore > 0
  PROVE  Sound([b EXCEPT !.explore = @ - 1])
<1> DEFINE e == b.explore - 1
           a == [b EXCEPT !.explore = e]
<1>1. b \in Ring /\ IsWindow(b) /\ b.fresh = Cardinality(b.valid)
  BY DEF Sound
<1>2. e \in 0 .. ExploreRounds
  BY <1>1, RepsAssumption DEF Ring
<1> HIDE DEF e
<1>3. a \in Ring
  BY <1>1, <1>2 DEF Ring
<1>4. ~b.frozen
  BY <1>1, RepsAssumption DEF IsWindow
<1>5. IsWindow(a) /\ a.fresh = Cardinality(a.valid)
  BY <1>1, <1>4 DEF IsWindow, Ring
<1> QED BY <1>3, <1>5 DEF Sound, e

\* So does a selection, which returns a path.
LEMMA NextEntropyIsSound ==
  ASSUME NEW b, Sound(b), NEW r \in RepsNextEntropy(b)
  PROVE  Sound(r.ring) /\ r.path \in Paths
<1>1. b \in Ring /\ b.count \in 0 .. BufferSize /\ b.fresh \in 0 .. BufferSize
      /\ b.value \in [Slots -> Paths] /\ b.headFrozen \in Slots /\ b.head \in Slots
  BY DEF Sound, Ring
<1>2. CASE b.explore > 0
  <2>1. r \in AnyPath([b EXCEPT !.explore = @ - 1])
    BY <1>2 DEF RepsNextEntropy
  <2> QED BY <1>2, <2>1, ExploreIsSound DEF AnyPath
<1>3. CASE ~(b.explore > 0) /\ (b.count = 0 \/ (~b.frozen /\ b.fresh = 0))
  BY <1>3 DEF RepsNextEntropy, AnyPath
<1>4. CASE ~(b.explore > 0) /\ ~(b.count = 0 \/ (~b.frozen /\ b.fresh = 0)) /\ b.frozen
  <2>1. r = [path |-> b.value[b.headFrozen], ring |-> RemoveFrozen(b)]
    BY <1>4 DEF RepsNextEntropy
  <2>2. b.count > 0
    BY <1>1, <1>4, RepsAssumption
  <2> QED BY <1>1, <1>4, <2>1, <2>2, RemoveFrozenIsSound
<1>5. CASE ~(b.explore > 0) /\ ~(b.count = 0 \/ (~b.frozen /\ b.fresh = 0)) /\ ~b.frozen
  <2>1. r = [path |-> b.value[EarliestFresh(b)], ring |-> RemoveEarliestFresh(b)]
    BY <1>5 DEF RepsNextEntropy
  <2>2. b.fresh > 0 /\ b.fresh \in 1 .. BufferSize
    BY <1>1, <1>5, RepsAssumption
  <2>3. EarliestFresh(b) \in Slots
    BY <1>1, <2>2, BackInSlots DEF EarliestFresh
  <2> QED BY <1>1, <1>5, <2>1, <2>2, <2>3, RemoveEarliestIsSound
<1> QED BY <1>2, <1>3, <1>4, <1>5

RepsInv == Sound(reps) /\ chosen \in Paths

\* In every behaviour the ring stays sound: its fresh entries are the slots
\* right before the head and their counter is exact.
THEOREM RingStaysSound == Spec => []RepsInv
<1>1. Init => RepsInv
  <2> SUFFICES ASSUME Init PROVE RepsInv
    OBVIOUS
  <2> DEFINE v == [s \in Slots |-> 0]
             V == {}
             t == FALSE
  <2>1. v \in [Slots -> Paths] /\ 0 \in Slots /\ 0 \in Paths /\ V \in SUBSET Slots
        /\ t \in BOOLEAN /\ 0 \in 0 .. BufferSize /\ 0 \in 0 .. ExploreRounds
        /\ -1 \in -1 .. FreezeTime
    BY RepsAssumption DEF Slots, Paths
  <2>2. reps = [value |-> v, valid |-> V, head |-> 0, headFrozen |-> 0,
                count |-> 0, fresh |-> 0, frozen |-> t, explore |-> 0, exitIn |-> -1]
    BY DEF Init, EmptyRing
  <2>3. reps.valid = {} /\ reps.fresh = 0 /\ reps.count = 0 /\ reps.head = 0
        /\ reps.headFrozen = 0 /\ reps.frozen = FALSE
    BY <2>2
  <2>4. reps \in Ring
    <3> HIDE DEF v, V, t
    <3> QED BY <2>1, <2>2 DEF Ring
  <2>5. Behind(0, 0) = {} /\ Cardinality({}) = 0
    <3>1. 1 .. 0 = {}
      OBVIOUS
    <3> QED BY <3>1, FS_EmptySet DEF Behind
  <2>6. IsWindow(reps)
    BY <2>3, <2>5 DEF IsWindow
  <2> QED BY <2>1, <2>3, <2>4, <2>5, <2>6 DEF Init, RepsInv, Sound
<1>2. RepsInv /\ [Next]_vars => RepsInv'
  <2> SUFFICES ASSUME RepsInv, [Next]_vars PROVE RepsInv'
    OBVIOUS
  <2>1. CASE ProcessEv
    BY <2>1, ProcessEvIsSound DEF ProcessEv, RepsInv
  <2>2. CASE NextEntropy
    BY <2>2, NextEntropyIsSound DEF NextEntropy, RepsInv
  <2>3. CASE Tick
    BY <2>3, FreezeIsSound DEF Tick, RepsInv
  <2>4. CASE UNCHANGED vars
    BY <2>4 DEF vars, RepsInv
  <2> QED BY <2>1, <2>2, <2>3, <2>4 DEF Next
<1> QED BY <1>1, <1>2, PTL DEF Spec

\* The counter of fresh entries always stands for the slots before the head.
THEOREM RingAlwaysWindow == Spec => [](RingIsWindow /\ TypeOK)
<1>1. RepsInv => RingIsWindow /\ TypeOK
  BY DEF RepsInv, Sound, RingIsWindow, FreshIsCounted, TypeOK
<1> QED BY <1>1, RingStaysSound, PTL

--------------------------------------------------------------------------
(* The refinement                                                          *)

\* A sequence that goes on with e is the one e was appended to.
LEMMA Appended ==
  ASSUME NEW S, NEW s \in Seq(S), NEW r \in Seq(S), NEW e \in S,
         Len(r) = Len(s) + 1, r[Len(r)] = e, \A i \in 1 .. Len(s) : r[i] = s[i]
  PROVE  r = Append(s, e)
<1>1. /\ Append(s, e) \in Seq(S) /\ Len(Append(s, e)) = Len(s) + 1
      /\ \A i \in 1 .. Len(s) : Append(s, e)[i] = s[i]
      /\ Append(s, e)[Len(s) + 1] = e
  BY AppendProperties
<1>2. Len(s) \in Nat
  BY LenProperties
<1>3. \A i \in 1 .. Len(r) : r[i] = Append(s, e)[i]
  <2> TAKE i \in 1 .. Len(r)
  <2>1. i = Len(s) + 1 \/ i \in 1 .. Len(s)
    BY <1>2
  <2> QED BY <1>1, <2>1
<1> QED BY <1>1, <1>3, SeqEqual

\* The reports a ring stands for are as many as it counts.
LEMMA ReportsIsSeq ==
  ASSUME NEW b \in Ring
  PROVE  /\ Reports(b) \in Seq(Paths) /\ Len(Reports(b)) = b.count
         /\ b.count \in 0 .. BufferSize
         /\ \A i \in 1 .. b.count : Reports(b)[i] = b.value[Back(b.head, b.count + 1 - i)]
<1>1. /\ b.head \in Slots /\ b.count \in 0 .. BufferSize /\ b.value \in [Slots -> Paths]
  BY DEF Ring
<1>2. \A i \in 1 .. b.count : b.count + 1 - i \in 1 .. BufferSize
  BY <1>1, RepsAssumption
<1>3. \A i \in 1 .. b.count : b.value[Back(b.head, b.count + 1 - i)] \in Paths
  BY <1>1, <1>2, BackInSlots
<1> QED BY <1>1, <1>3, RepsAssumption DEF Reports

\* A report goes to the end of the remembered ones; a full ring loses its
\* oldest.
LEMMA AddReports ==
  ASSUME NEW b, Sound(b), NEW p \in Paths
  PROVE  Reports(Add(b, p)) = IF b.count < BufferSize THEN Append(Reports(b), p)
                              ELSE Append(Tail(Reports(b)), p)
<1> DEFINE a == Add(b, p)
           h == b.head
           g == a.head
           c == b.count
           d == a.count
           s == Reports(b)
           r == Reports(a)
<1>1. /\ b \in Ring /\ IsWindow(b) /\ b.fresh = Cardinality(b.valid)
      /\ h \in Slots /\ c \in 0 .. BufferSize /\ b.value \in [Slots -> Paths]
  BY DEF Sound, Ring
<1>2. /\ a.value = [b.value EXCEPT ![h] = p] /\ g = (h + 1) % BufferSize
      /\ d = IF c < BufferSize THEN c + 1 ELSE BufferSize
      /\ a \in Ring
  BY <1>1, AddFields
<1>3. s \in Seq(Paths) /\ Len(s) = c /\ \A i \in 1 .. c : s[i] = b.value[Back(h, c + 1 - i)]
  BY <1>1, ReportsIsSeq
<1>4. r \in Seq(Paths) /\ Len(r) = d /\ \A i \in 1 .. d : r[i] = a.value[Back(g, d + 1 - i)]
  BY <1>2, ReportsIsSeq
<1> HIDE DEF a, h, g, c, d, s, r
<1>5. g \in Slots /\ Back(g, 1) = h
      /\ \A k \in 1 .. BufferSize - 1 : Back(g, k + 1) = Back(h, k)
  BY <1>1, <1>2, BackFromNext
<1>6. \A k \in 1 .. BufferSize - 1 : Back(h, k) \in Slots /\ Back(h, k) # h
  <2> TAKE k \in 1 .. BufferSize - 1
  <2>1. k \in 1 .. BufferSize /\ k # BufferSize /\ BufferSize \in 1 .. BufferSize
    BY RepsAssumption
  <2> QED BY <1>1, <2>1, BackInSlots
<1>7. a.value[h] = p /\ \A k \in 1 .. BufferSize - 1 : a.value[Back(h, k)] = b.value[Back(h, k)]
  BY <1>1, <1>2, <1>6
<1>8. d \in 1 .. BufferSize /\ r[d] = p
  <2>1. d \in 1 .. BufferSize
    BY <1>1, <1>2, RepsAssumption
  <2>2. d \in 1 .. d /\ d + 1 - d = 1
    BY <2>1, RepsAssumption
  <2> QED BY <1>4, <1>5, <1>7, <2>1, <2>2
<1>9. \A i \in 1 .. d - 1 : r[i] = b.value[Back(h, d - i)]
  <2> TAKE i \in 1 .. d - 1
  <2>1. i \in 1 .. d /\ d - i \in 1 .. BufferSize - 1 /\ (d - i) + 1 = d + 1 - i
    BY <1>8, RepsAssumption
  <2>2. Back(g, d + 1 - i) = Back(h, d - i)
    BY <1>5, <2>1
  <2> QED BY <1>4, <1>7, <2>1, <2>2
<1>10. CASE c < BufferSize
  <2>1. d = c + 1
    BY <1>2, <1>10
  <2>2. \A i \in 1 .. c : r[i] = s[i]
    <3> TAKE i \in 1 .. c
    <3>1. i \in 1 .. d - 1 /\ c + 1 - i = d - i
      BY <1>1, <2>1, RepsAssumption
    <3> QED BY <1>3, <1>9, <3>1
  <2>3. r = Append(s, p)
    BY <1>3, <1>4, <1>8, <2>1, <2>2, Appended
  <2> QED BY <1>10, <2>3 DEF a, c, r, s
<1>11. CASE ~(c < BufferSize)
  <2>1. c = BufferSize /\ d = BufferSize /\ c \in Nat \ {0}
    BY <1>1, <1>2, <1>11, RepsAssumption
  <2>2. s # <<>>
    BY <1>3, <2>1, EmptySeq
  <2> DEFINE t == Tail(s)
  <2>3. t \in Seq(Paths) /\ Len(t) = c - 1 /\ \A i \in 1 .. Len(t) : t[i] = s[i + 1]
    BY <1>3, <2>2, HeadTailProperties
  <2> HIDE DEF t
  <2>4. \A i \in 1 .. Len(t) : r[i] = t[i]
    <3> TAKE i \in 1 .. Len(t)
    <3>1. i \in 1 .. d - 1 /\ i + 1 \in 1 .. c /\ c + 1 - (i + 1) = d - i
      BY <2>1, <2>3
    <3> QED BY <1>3, <1>9, <2>3, <3>1
  <2>5. Len(r) = Len(t) + 1
    BY <1>4, <2>1, <2>3
  <2>6. r = Append(t, p)
    BY <1>4, <1>8, <2>3, <2>4, <2>5, Appended
  <2> QED BY <1>11, <2>6 DEF a, c, r, s, t
<1> QED BY <1>10, <1>11

\* What stays the same when the slots and the head do.
LEMMA ReportsSame ==
  ASSUME NEW a, NEW b, a.value = b.value, a.head = b.head, a.count = b.count
  PROVE  Reports(a) = Reports(b)
BY DEF Reports

\* Every written slot holds one of the remembered reports.
LEMMA ReplayIsKnown ==
  ASSUME NEW b, Sound(b), b.count > 0
  PROVE  \E i \in 1 .. Len(Reports(b)) : b.value[b.headFrozen] = Reports(b)[i]
<1> DEFINE h == b.head
           c == b.count
           x == b.headFrozen
           k == IF x < h THEN h - x ELSE h + BufferSize - x
<1>1. /\ b \in Ring /\ h \in 0 .. BufferSize - 1 /\ c \in 1 .. BufferSize
      /\ x \in 0 .. BufferSize - 1 /\ x < c /\ (c < BufferSize => h = c)
  BY RepsAssumption DEF Sound, IsWindow, Ring, Slots
<1>2. Len(Reports(b)) = c /\ \A i \in 1 .. c : Reports(b)[i] = b.value[Back(h, c + 1 - i)]
  BY <1>1, ReportsIsSeq
<1> HIDE DEF h, c, x
<1>3. k \in 1 .. c /\ Back(h, k) = x
  BY <1>1, RepsAssumption DEF Back
<1> HIDE DEF k
<1>4. c + 1 - k \in 1 .. c /\ c + 1 - (c + 1 - k) = k
  BY <1>1, <1>3, RepsAssumption
<1>5. Reports(b)[c + 1 - k] = b.value[x]
  BY <1>2, <1>3, <1>4
<1> QED BY <1>2, <1>4, <1>5 DEF x

\* A choice is one the promise allows.
LEMMA NextEntropyIsPromised ==
  ASSUME Sound(reps), NextEntropy, chosen \in Paths
  PROVE  [Promise!Next]_(Promise!vars)
<1> PICK r \in RepsNextEntropy(reps) : reps' = r.ring /\ chosen' = r.path
  BY DEF NextEntropy
<1>1. /\ reps \in Ring /\ reps.count \in 0 .. BufferSize /\ reps.fresh \in 0 .. BufferSize
      /\ reps.explore \in 0 .. ExploreRounds /\ reps.fresh <= reps.count
      /\ reps.head \in Slots /\ reps.frozen \in BOOLEAN
      /\ reps.frozen => reps.explore = 0
  BY DEF Sound, IsWindow, Ring
<1>2. r.path \in Paths
  BY NextEntropyIsSound
<1>3. CASE reps.explore > 0
  <2>1. reps' = [reps EXCEPT !.explore = @ - 1]
    BY <1>3 DEF RepsNextEntropy, AnyPath
  <2>2. /\ reps'.explore = reps.explore - 1 /\ reps'.fresh = reps.fresh
        /\ reps'.frozen = reps.frozen /\ Reports(reps') = Reports(reps)
    BY <1>1, <2>1, ReportsSame DEF Ring
  <2>3. Promise!Pick
    BY <1>2, <1>3, <2>2 DEF Promise!Pick, Promise!vars
  <2> QED BY <2>3 DEF Promise!Next
<1>4. CASE ~(reps.explore > 0) /\ (reps.count = 0 \/ (~reps.frozen /\ reps.fresh = 0))
  <2>1. reps' = reps
    BY <1>4 DEF RepsNextEntropy, AnyPath
  <2>2. reps.explore = 0 /\ (~reps.frozen => reps.fresh = 0)
    BY <1>1, <1>4, RepsAssumption
  <2>3. reps.frozen => Reports(reps) = <<>>
    BY <1>1, <1>4, ReportsIsSeq, EmptySeq
  <2>4. Promise!Guess
    BY <1>2, <2>1, <2>2, <2>3 DEF Promise!Guess
  <2> QED BY <2>4 DEF Promise!Next
<1>5. CASE /\ ~(reps.explore > 0) /\ ~(reps.count = 0 \/ (~reps.frozen /\ reps.fresh = 0))
           /\ reps.frozen
  <2>1. r = [path |-> reps.value[reps.headFrozen], ring |-> RemoveFrozen(reps)]
    BY <1>5 DEF RepsNextEntropy
  <2>2. chosen' = reps.value[reps.headFrozen] /\ reps' = RemoveFrozen(reps)
    BY <2>1
  <2>3. /\ reps'.explore = reps.explore /\ reps'.frozen = reps.frozen
        /\ Reports(reps') = Reports(reps)
    BY <1>1, <2>2, ReportsSame DEF RemoveFrozen, Ring
  <2>4. \E i \in 1 .. Len(Reports(reps)) : chosen' = Reports(reps)[i]
    BY <1>1, <1>5, <2>2, ReplayIsKnown, RepsAssumption
  <2>5. Promise!Replay
    BY <1>1, <1>5, <2>3, <2>4 DEF Promise!Replay
  <2> QED BY <2>5 DEF Promise!Next
<1>6. CASE /\ ~(reps.explore > 0) /\ ~(reps.count = 0 \/ (~reps.frozen /\ reps.fresh = 0))
           /\ ~reps.frozen
  <2>1. r = [path |-> reps.value[EarliestFresh(reps)], ring |-> RemoveEarliestFresh(reps)]
    BY <1>6 DEF RepsNextEntropy
  <2>2. chosen' = reps.value[Back(reps.head, reps.fresh)] /\ reps' = RemoveEarliestFresh(reps)
    BY <2>1 DEF EarliestFresh
  <2>3. /\ reps'.explore = reps.explore /\ reps'.frozen = reps.frozen
        /\ reps'.fresh = reps.fresh - 1
        /\ Reports(reps') = Reports(reps)
    BY <1>1, <2>2, ReportsSame DEF RemoveEarliestFresh, Ring
  <2>4. reps.explore = 0 /\ reps.fresh > 0
    BY <1>1, <1>6, RepsAssumption
  <2>5. chosen' = Reports(reps)[Len(Reports(reps)) + 1 - reps.fresh]
    <3>1. /\ reps.count + 1 - reps.fresh \in 1 .. reps.count
          /\ reps.count + 1 - (reps.count + 1 - reps.fresh) = reps.fresh
      BY <1>1, <2>4, RepsAssumption
    <3> QED BY <1>1, <2>2, <3>1, ReportsIsSeq
  <2>6. Promise!Recycle
    BY <1>6, <2>3, <2>4, <2>5 DEF Promise!Recycle
  <2> QED BY <2>6 DEF Promise!Next
<1> QED BY <1>3, <1>4, <1>5, <1>6

\* A report, with the freeze or the thaw it may bring, is one the promise allows.
LEMMA ProcessEvIsPromised ==
  ASSUME Sound(reps), ProcessEv
  PROVE  [Promise!Next]_(Promise!vars)
<1> PICK p \in Paths, feedback \in Feedback : reps' = RepsProcessEv(reps, p, feedback)
  BY DEF ProcessEv
<1> DEFINE freezes == feedback = "timeout" /\ ~reps.frozen /\ reps.explore = 0
           thaws == reps.frozen /\ reps.exitIn < 0
           t == Thaw(reps)
<1>1. /\ reps \in Ring /\ reps.count \in 0 .. BufferSize /\ reps.fresh \in 0 .. BufferSize
      /\ reps.head \in Slots /\ reps.frozen \in BOOLEAN /\ chosen' = chosen
  BY DEF Sound, Ring, ProcessEv
<1>2. CASE freezes
  <2> DEFINE a == [reps EXCEPT !.frozen = TRUE, !.exitIn = FreezeTime]
  <2>1. Freeze(reps, feedback) = a
    BY <1>2 DEF Freeze
  <2>2. a.exitIn = FreezeTime /\ ~(FreezeTime < 0)
    BY <1>1, RepsAssumption DEF Ring
  <2>3. Thaw(a) = a
    BY <2>2 DEF Thaw
  <2>4. reps' = a
    BY <1>2, <2>1, <2>3 DEF RepsProcessEv, Credit
  <2>5. /\ reps'.frozen = TRUE /\ reps'.explore = reps.explore
        /\ Reports(reps') = Reports(reps)
    BY <1>1, <2>4, ReportsSame DEF Ring
  <2>6. Promise!Freeze
    BY <1>1, <1>2, <2>5 DEF Promise!Freeze
  <2> QED BY <2>6 DEF Promise!Next
<1>3. CASE ~freezes /\ thaws
  <2>1. Freeze(reps, feedback) = reps
    BY <1>3 DEF Freeze
  <2>2. reps' = Credit(t, p, feedback)
    BY <2>1 DEF RepsProcessEv
  <2>3. Sound(t)
    BY ThawIsSound
  <2>4. /\ t.count = 0 /\ t.fresh = 0 /\ t.valid = {}
        /\ t.frozen = FALSE /\ t.explore = ExploreRounds
    BY <1>1, <1>3 DEF Thaw, Reset, Ring
  <2>5. Reports(t) = <<>>
    BY <2>3, <2>4, ReportsIsSeq, EmptySeq DEF Sound
  <2> HIDE DEF t
  <2>6. CASE feedback = "good"
    <3>1. reps' = Add(t, p)
      BY <2>2, <2>6 DEF Credit
    <3>2. Reports(reps') = <<p>>
      <4>1. Reports(reps') = Append(<<>>, p)
        <5>1. Reports(Add(t, p)) = IF t.count < BufferSize THEN Append(Reports(t), p)
                                   ELSE Append(Tail(Reports(t)), p)
          BY <2>3, AddReports
        <5>2. t.count < BufferSize
          BY <2>4, RepsAssumption
        <5> QED BY <2>5, <3>1, <5>1, <5>2
      <4> QED BY <4>1
    <3>3. reps'.fresh = 1 /\ reps'.frozen = FALSE /\ reps'.explore = ExploreRounds
      <4>1. t \in Ring /\ IsWindow(t) /\ t.fresh = Cardinality(t.valid)
        BY <2>3 DEF Sound
      <4>2. /\ Add(t, p).fresh = IF t.head \in t.valid THEN t.fresh ELSE t.fresh + 1
            /\ Add(t, p).frozen = t.frozen /\ Add(t, p).explore = t.explore
        BY <4>1, AddFields
      <4> QED BY <2>4, <3>1, <4>2
    <3>4. Promise!Thaw
      BY <1>1, <1>3, <3>2, <3>3 DEF Promise!Thaw
    <3> QED BY <3>4 DEF Promise!Next
  <2>7. CASE feedback # "good"
    <3>1. reps' = t
      BY <2>2, <2>7 DEF Credit
    <3>2. Promise!Thaw
      BY <1>1, <1>3, <2>4, <2>5, <3>1 DEF Promise!Thaw
    <3> QED BY <3>2 DEF Promise!Next
  <2> QED BY <2>6, <2>7
<1>4. CASE ~freezes /\ ~thaws
  <2>1. reps' = Credit(reps, p, feedback)
    BY <1>4 DEF RepsProcessEv, Freeze, Thaw
  <2>2. CASE feedback = "good"
    <3>1. reps' = Add(reps, p)
      BY <2>1, <2>2 DEF Credit
    <3>2. Reports(reps') = IF Len(Reports(reps)) < BufferSize THEN Append(Reports(reps), p)
                           ELSE Append(Tail(Reports(reps)), p)
      BY <1>1, <3>1, AddReports, ReportsIsSeq
    <3>3. reps'.frozen = reps.frozen /\ reps'.explore = reps.explore
      BY <3>1, AddFields DEF Sound
    <3>4. ~reps.frozen => reps'.fresh = IF reps.fresh < BufferSize THEN reps.fresh + 1
                                                                   ELSE reps.fresh
      BY <3>1, AddWindow DEF Sound, IsWindow
    <3>5. Promise!Report(p)
      BY <1>1, <3>2, <3>3, <3>4 DEF Promise!Report, Promise!Remember
    <3> QED BY <3>5 DEF Promise!Next
  <2>3. CASE feedback # "good"
    <3>1. reps' = reps
      BY <2>1, <2>3 DEF Credit
    <3> QED BY <1>1, <3>1 DEF Promise!vars
  <2> QED BY <2>2, <2>3
<1> QED BY <1>2, <1>3, <1>4

\* Whatever the feedback, REPS hands out what RecycledPaths promises: each
\* report once and in order, or a known path while frozen, or a random one.
THEOREM RepsKeepsItsPromise == Spec => ImplementsRecycledPaths
<1>1. Init => Promise!Init
  <2> SUFFICES ASSUME Init PROVE Promise!Init
    OBVIOUS
  <2>1. reps.count = 0 /\ reps.fresh = 0 /\ reps.frozen = FALSE /\ reps.explore = 0
    BY DEF Init, EmptyRing
  <2>2. Reports(reps) = <<>>
    BY <2>1 DEF Reports
  <2> QED BY <2>1, <2>2 DEF Init, Promise!Init
<1>2. RepsInv /\ [Next]_vars => [Promise!Next]_(Promise!vars)
  <2> SUFFICES ASSUME RepsInv, [Next]_vars PROVE [Promise!Next]_(Promise!vars)
    OBVIOUS
  <2>1. CASE ProcessEv
    BY <2>1, ProcessEvIsPromised DEF RepsInv
  <2>2. CASE NextEntropy
    BY <2>2, NextEntropyIsPromised DEF RepsInv
  <2>3. CASE Tick
    <3>1. reps \in Ring
      BY DEF RepsInv, Sound
    <3>2. /\ Reports(reps') = Reports(reps) /\ reps'.frozen = reps.frozen
          /\ reps'.fresh = reps.fresh /\ reps'.explore = reps.explore /\ chosen' = chosen
      BY <2>3, <3>1, ReportsSame DEF Tick, Older, Ring
    <3> QED BY <3>2 DEF Promise!vars
  <2>4. CASE UNCHANGED vars
    <3>1. reps' = reps /\ chosen' = chosen
      BY <2>4 DEF vars
    <3> QED BY <3>1 DEF Promise!vars
  <2> QED BY <2>1, <2>2, <2>3, <2>4 DEF Next
<1> QED BY <1>1, <1>2, RingStaysSound, PTL DEF Spec, ImplementsRecycledPaths, Promise!Spec

--------------------------------------------------------------------------
(* Taking turns                                                            *)

Turns ==
  [index : Paths, xor : Paths, penalty : [Paths -> 0 .. MaxPenalty],
   skips : Nat, round : Seq(Paths)]

\* The paths with a penalty.
Heavy(t) == {p \in Paths : t.penalty[p] > 0}

\* The paths of the round were chosen at different indices before n.
ChosenBefore(t, n) ==
  /\ \A k, l \in 1 .. Len(t.round) : t.round[k] = t.round[l] => k = l
  /\ \A k \in 1 .. Len(t.round) : \E i \in 0 .. n - 1 : t.round[k] = XorOf[t.xor][i]

\* The turns as every call finds them.
GoodTurns(t) ==
  /\ t \in Turns
  /\ t.skips = Cardinality(Heavy(t))
  /\ ChosenBefore(t, t.index)

\* What a search that starts with t may return.
Fair(t, r) ==
  /\ GoodTurns(r.turns)
  /\ r.path \in Paths
  /\ Heavy(r.turns) \subseteq Heavy(t)
  /\ r.path \in Heavy(r.turns) => 2 * Cardinality(Heavy(t)) > NumPaths

\* Penalties are counted by numbers.
LEMMA HeavyIsFinite ==
  ASSUME NEW t
  PROVE  IsFiniteSet(Heavy(t)) /\ Cardinality(Heavy(t)) \in Nat
<1>1. IsFiniteSet(Paths)
  BY RepsAssumption, FS_Interval DEF Paths
<1>2. Heavy(t) \in SUBSET Paths
  BY DEF Heavy
<1>3. IsFiniteSet(Heavy(t))
  BY <1>1, <1>2, FS_Subset
<1> QED
  BY <1>3, FS_CardinalityType

\* Different turns of the same penalties are heavy in the same paths.
LEMMA SameHeavy ==
  ASSUME NEW t, NEW u, u.penalty = t.penalty
  PROVE  Heavy(u) = Heavy(t)
BY DEF Heavy

\* The index goes on after a choice.
LEMMA StepIsGood ==
  ASSUME NEW t \in Turns, t.skips = Cardinality(Heavy(t)), ChosenBefore(t, t.index + 1),
         NEW n \in Step(t)
  PROVE  GoodTurns(n) /\ n.penalty = t.penalty
<1>1. t.index \in 0 .. NumPaths - 1 /\ NumPaths \in Nat \ {0} /\ t.xor \in Paths
  BY RepsAssumption DEF Turns, Paths
<1>2. CASE t.index + 1 < NumPaths
  <2>1. n = [t EXCEPT !.index = @ + 1]
    BY <1>2 DEF Step
  <2>2. /\ n.index = t.index + 1 /\ n.xor = t.xor /\ n.penalty = t.penalty /\ n.skips = t.skips
        /\ n.round = t.round
    BY <2>1 DEF Turns
  <2>3. t.index + 1 \in Paths
    BY <1>1, <1>2 DEF Paths
  <2>4. n \in Turns
    BY <2>1, <2>3 DEF Turns
  <2>5. ChosenBefore(n, n.index)
    BY <2>2 DEF ChosenBefore
  <2> QED
    BY <2>2, <2>4, <2>5, SameHeavy DEF GoodTurns
<1>3. CASE ~(t.index + 1 < NumPaths)
  <2>1. PICK x \in Paths : n = [t EXCEPT !.index = 0, !.xor = x, !.round = <<>>]
    BY <1>3 DEF Step
  <2>2. /\ n.index = 0 /\ n.xor = x /\ n.penalty = t.penalty /\ n.skips = t.skips
        /\ n.round = <<>>
    BY <2>1 DEF Turns
  <2>3. 0 \in Paths /\ <<>> \in Seq(Paths)
    BY <1>1 DEF Paths
  <2>4. n \in Turns
    BY <2>1, <2>3 DEF Turns
  <2>5. ChosenBefore(n, n.index)
    BY <2>2 DEF ChosenBefore
  <2> QED
    BY <2>2, <2>4, <2>5, SameHeavy DEF GoodTurns
<1> QED
  BY <1>2, <1>3

\* The path looked at has not been chosen in this round.
LEMMA TakeIsGood ==
  ASSUME NEW t, GoodTurns(t), NEW r \in Take(t)
  PROVE  r.path = LookedAt(t) /\ r.path \in Paths /\ GoodTurns(r.turns) /\ r.turns.penalty = t.penalty
<1> DEFINE p == LookedAt(t)
           u == [t EXCEPT !.round = Append(@, p)]
<1>1. PICK n \in Step(u) : r = [path |-> p, turns |-> n]
  BY DEF Take
<1>2. /\ t \in Turns /\ t.index \in Paths /\ t.xor \in Paths /\ t.round \in Seq(Paths)
      /\ t.skips = Cardinality(Heavy(t)) /\ ChosenBefore(t, t.index)
  BY DEF GoodTurns, Turns
<1>3. p \in Paths
  BY <1>2, MultipathAssumption DEF LookedAt
<1>4. p = XorOf[t.xor][t.index]
  BY DEF LookedAt
<1> HIDE DEF p
<1>5. /\ u.index = t.index /\ u.xor = t.xor /\ u.penalty = t.penalty /\ u.skips = t.skips
      /\ u.round = Append(t.round, p)
  BY <1>2 DEF Turns
<1>6. u \in Turns
  <2>1. Append(t.round, p) \in Seq(Paths)
    BY <1>2, <1>3
  <2> QED
    BY <1>2, <2>1 DEF Turns
<1> HIDE DEF u
<1>7. ChosenBefore(u, u.index + 1)
  <2> DEFINE s == t.round
             m == Len(s)
             w == Append(s, p)
  <2>1. m \in Nat /\ Len(w) = m + 1 /\ w[m + 1] = p /\ \A k \in 1 .. m : w[k] = s[k]
    BY <1>2
  <2>2. t.index \in Nat /\ NumPaths \in Nat /\ \A i \in 0 .. t.index : i \in Paths
    BY <1>2, RepsAssumption DEF Paths
  <2>3. \A k \in 1 .. m : \E i \in 0 .. t.index - 1 : s[k] = XorOf[t.xor][i]
    BY <1>2 DEF ChosenBefore
  <2>4. \A k, l \in 1 .. m : s[k] = s[l] => k = l
    BY <1>2 DEF ChosenBefore
  <2> HIDE DEF s, w, m
  <2>5. \A k \in 1 .. m : s[k] # p
    <3> SUFFICES ASSUME NEW k \in 1 .. m, s[k] = p PROVE FALSE
      OBVIOUS
    <3>1. PICK i \in 0 .. t.index - 1 : s[k] = XorOf[t.xor][i]
      BY <2>3
    <3>2. i \in Paths /\ i # t.index
      BY <2>2
    <3> QED
      BY <1>2, <1>4, <3>1, <3>2, MultipathAssumption
  <2>6. \A k \in 1 .. m + 1 : k \in 1 .. m \/ k = m + 1
    BY <2>1
  <2>7. \A k, l \in 1 .. m + 1 : w[k] = w[l] => k = l
    BY <2>1, <2>4, <2>5, <2>6
  <2>8. \A k \in 1 .. m + 1 : \E i \in 0 .. t.index : w[k] = XorOf[t.xor][i]
    <3> SUFFICES ASSUME NEW k \in 1 .. m + 1 PROVE \E i \in 0 .. t.index : w[k] = XorOf[t.xor][i]
      OBVIOUS
    <3>1. CASE k \in 1 .. m
      BY <2>1, <2>2, <2>3, <3>1
    <3>2. CASE k = m + 1
      BY <1>4, <2>1, <2>2, <3>2
    <3> QED
      BY <2>6, <3>1, <3>2
  <2>9. (u.index + 1) - 1 = t.index /\ u.round = w /\ Len(u.round) = m + 1
    BY <1>5, <2>1, <2>2 DEF w, s
  <2>10. \A k \in 1 .. Len(u.round) : \E i \in 0 .. (u.index + 1) - 1 : u.round[k] = XorOf[u.xor][i]
    <3>1. u.xor = t.xor
      BY <1>5
    <3> QED
      BY <2>8, <2>9, <3>1
  <2>11. \A k, l \in 1 .. Len(u.round) : u.round[k] = u.round[l] => k = l
    BY <2>7, <2>9, Zenon
  <2> QED
    BY <2>10, <2>11, Zenon DEF ChosenBefore
<1>8. u.skips = Cardinality(Heavy(u))
  BY <1>2, <1>5, SameHeavy
<1>9. GoodTurns(n) /\ n.penalty = u.penalty
  BY <1>6, <1>7, <1>8, StepIsGood
<1> QED
  BY <1>1, <1>3, <1>5, <1>9 DEF p

\* A look further on leaves the turns as good.
LEMMA FurtherIsGood ==
  ASSUME NEW t, GoodTurns(t), NEW k \in 1 .. NumPaths, NEW x \in Paths
  PROVE  /\ GoodTurns(Further(t, k, x)) /\ Further(t, k, x).penalty = t.penalty
         /\ LookedAt(Further(t, k, x)) = Later(t, k, x)
<1> DEFINE n == Further(t, k, x)
<1>1. /\ t \in Turns /\ t.index \in 0 .. NumPaths - 1 /\ NumPaths \in Nat \ {0} /\ t.xor \in Paths
      /\ t.skips = Cardinality(Heavy(t)) /\ ChosenBefore(t, t.index) /\ t.round \in Seq(Paths)
  BY RepsAssumption DEF GoodTurns, Turns, Paths
<1>2. CASE t.index + k < NumPaths
  <2>1. n = [t EXCEPT !.index = @ + k]
    BY <1>2 DEF Further
  <2>2. /\ n.index = t.index + k /\ n.xor = t.xor /\ n.penalty = t.penalty /\ n.skips = t.skips
        /\ n.round = t.round
    BY <1>1, <2>1 DEF Turns
  <2>3. t.index + k \in Paths
    BY <1>1, <1>2 DEF Paths
  <2>4. n \in Turns
    BY <1>1, <2>1, <2>3 DEF Turns
  <2> HIDE DEF n
  <2>5. ChosenBefore(n, n.index)
    <3>1. \A i \in 0 .. t.index - 1 : i \in 0 .. (t.index + k) - 1
      BY <1>1
    <3>2. \A j \in 1 .. Len(t.round) : \E i \in 0 .. (t.index + k) - 1 : t.round[j] = XorOf[t.xor][i]
      BY <1>1, <3>1, Zenon DEF ChosenBefore
    <3>3. \A j, l \in 1 .. Len(t.round) : t.round[j] = t.round[l] => j = l
      BY <1>1, Zenon DEF ChosenBefore
    <3>4. ChosenBefore(t, t.index + k)
      BY <3>2, <3>3, Zenon DEF ChosenBefore
    <3>5. ChosenBefore(n, t.index + k)
      BY <2>2, <3>4, Zenon DEF ChosenBefore
    <3> QED
      BY <2>2, <3>5, Zenon
  <2>6. LookedAt(n) = Later(t, k, x)
    BY <1>2, <2>2 DEF LookedAt, Later
  <2> QED
    BY <1>1, <2>2, <2>4, <2>5, <2>6, SameHeavy DEF GoodTurns, n
<1>3. CASE ~(t.index + k < NumPaths)
  <2>1. n = [t EXCEPT !.index = @ + k - NumPaths, !.xor = x, !.round = <<>>]
    BY <1>3 DEF Further
  <2>2. /\ n.index = t.index + k - NumPaths /\ n.xor = x /\ n.penalty = t.penalty
        /\ n.skips = t.skips /\ n.round = <<>>
    BY <1>1, <2>1 DEF Turns
  <2>3. t.index + k - NumPaths \in Paths /\ <<>> \in Seq(Paths)
    BY <1>1, <1>3 DEF Paths
  <2>4. n \in Turns
    BY <1>1, <2>1, <2>3 DEF Turns
  <2> HIDE DEF n
  <2>5. ChosenBefore(n, n.index)
    BY <2>2 DEF ChosenBefore
  <2>6. LookedAt(n) = Later(t, k, x)
    BY <1>3, <2>2 DEF LookedAt, Later
  <2> QED
    BY <1>1, <2>2, <2>4, <2>5, <2>6, SameHeavy DEF GoodTurns, n
<1> QED
  BY <1>2, <1>3

\* A penalty that is taken down to zero is counted down: the counter is not
\* zero then, as the code asserts.
LEMMA LightenIsGood ==
  ASSUME NEW t, GoodTurns(t), NEW p \in Paths, t.penalty[p] > 0
  PROVE  /\ t.skips > 0
         /\ GoodTurns(Lighten(t, p))
         /\ Lighten(t, p).index = t.index /\ Lighten(t, p).xor = t.xor
         /\ \A q \in Paths : Lighten(t, p).penalty[q] > 0 => t.penalty[q] > 0
<1> DEFINE n == Lighten(t, p)
           less == [t.penalty EXCEPT ![p] = @ - 1]
           k == IF t.penalty[p] = 1 THEN t.skips - 1 ELSE t.skips
<1>1. /\ t \in Turns /\ t.penalty \in [Paths -> 0 .. MaxPenalty] /\ t.skips \in Nat
      /\ t.skips = Cardinality(Heavy(t)) /\ ChosenBefore(t, t.index)
  BY DEF GoodTurns, Turns
<1>2. n = [t EXCEPT !.penalty = less, !.skips = k]
  BY DEF Lighten
<1>3. /\ less \in [Paths -> 0 .. MaxPenalty]
      /\ \A q \in Paths : less[q] = IF q = p THEN t.penalty[p] - 1 ELSE t.penalty[q]
  <2> DEFINE c == t.penalty[p] - 1
  <2>1. MaxPenalty \in Nat /\ t.penalty[p] \in 0 .. MaxPenalty
    BY <1>1, MultipathAssumption
  <2>2. c \in 0 .. MaxPenalty
    BY <2>1
  <2>3. less = [t.penalty EXCEPT ![p] = c]
    OBVIOUS
  <2> HIDE DEF less, c
  <2>4. less \in [Paths -> 0 .. MaxPenalty]
    BY <1>1, <2>2, <2>3
  <2>5. \A q \in Paths : less[q] = IF q = p THEN c ELSE t.penalty[q]
    BY <1>1, <2>3
  <2> QED
    BY <2>4, <2>5 DEF c
<1>4. IsFiniteSet(Heavy(t)) /\ Cardinality(Heavy(t)) \in Nat /\ p \in Heavy(t)
  BY HeavyIsFinite DEF Heavy
<1>5. t.skips > 0
  <2>1. Cardinality(Heavy(t)) # 0
    BY <1>4, FS_EmptySet
  <2> QED
    BY <1>1, <1>4, <2>1
<1>6. k \in Nat
  BY <1>1, <1>5
<1> HIDE DEF less
<1>7. /\ n.index = t.index /\ n.xor = t.xor /\ n.penalty = less /\ n.skips = k
      /\ n.round = t.round
  BY <1>1, <1>2 DEF Turns
<1>8. n \in Turns
  <2> HIDE DEF k, n
  <2> QED
    BY <1>1, <1>2, <1>3, <1>6 DEF Turns
<1> HIDE DEF n
<1>9. k = Cardinality(Heavy(n))
  <2>1. CASE t.penalty[p] = 1
    <3>1. Heavy(n) = Heavy(t) \ {p}
      BY <1>1, <1>3, <1>7, <2>1 DEF Heavy
    <3>2. Cardinality(Heavy(t) \ {p}) = Cardinality(Heavy(t)) - 1
      BY <1>4, FS_RemoveElement
    <3> QED
      BY <1>1, <2>1, <3>1, <3>2
  <2>2. CASE t.penalty[p] # 1
    <3>1. t.penalty[p] \in Nat /\ t.penalty[p] - 1 > 0
      BY <1>1, <2>2, MultipathAssumption
    <3>2. \A q \in Paths : n.penalty[q] > 0 <=> t.penalty[q] > 0
      BY <1>3, <1>7, <3>1
    <3>3. Heavy(n) = Heavy(t)
      BY <3>2 DEF Heavy
    <3> QED
      BY <1>1, <2>2, <3>3
  <2> QED
    BY <2>1, <2>2
<1>10. ChosenBefore(n, n.index)
  BY <1>1, <1>7 DEF ChosenBefore
<1>11. \A q \in Paths : n.penalty[q] > 0 => t.penalty[q] > 0
  BY <1>1, <1>3, <1>7, MultipathAssumption
<1> QED
  BY <1>5, <1>7, <1>8, <1>9, <1>10, <1>11 DEF GoodTurns, n

\* A report leaves the counter at the number of penalised paths.
LEMMA ReportIsGood ==
  ASSUME NEW t, GoodTurns(t), NEW p \in Paths, NEW feedback \in Feedback
  PROVE  /\ GoodTurns(BitmapProcessEv(t, p, feedback))
         /\ feedback = "good" => BitmapProcessEv(t, p, feedback) = t
<1> DEFINE n == BitmapProcessEv(t, p, feedback)
           more == [t.penalty EXCEPT ![p] = AtMost(@ + Penalty(feedback), MaxPenalty)]
           k == CountSkip(t, p, feedback)
<1>1. /\ t \in Turns /\ t.penalty \in [Paths -> 0 .. MaxPenalty] /\ t.skips \in Nat
      /\ t.skips = Cardinality(Heavy(t)) /\ ChosenBefore(t, t.index)
      /\ t.penalty[p] \in 0 .. MaxPenalty
  BY DEF GoodTurns, Turns
<1>2. n = [t EXCEPT !.skips = k, !.penalty = more]
  BY DEF BitmapProcessEv
<1>3. /\ Penalty(feedback) \in 0 .. MaxPenalty /\ MaxPenalty \in Nat
      /\ feedback = "good" => Penalty(feedback) = 0
      /\ feedback # "good" => Penalty(feedback) > 0
  BY MultipathAssumption DEF Penalty, Feedback
<1> DEFINE v == AtMost(t.penalty[p] + Penalty(feedback), MaxPenalty)
<1>4. /\ v \in 0 .. MaxPenalty
      /\ v > 0 <=> t.penalty[p] > 0 \/ feedback # "good"
      /\ feedback = "good" => v = t.penalty[p]
  BY <1>1, <1>3 DEF AtMost
<1>5. more = [t.penalty EXCEPT ![p] = v]
  OBVIOUS
<1> HIDE DEF more, v
<1>6. /\ more \in [Paths -> 0 .. MaxPenalty]
      /\ \A q \in Paths : more[q] = IF q = p THEN v ELSE t.penalty[q]
  BY <1>1, <1>4, <1>5
<1>7. k = IF feedback # "good" /\ t.penalty[p] = 0 THEN t.skips + 1 ELSE t.skips
  BY DEF CountSkip
<1> HIDE DEF k
<1>8. k \in Nat
  BY <1>1, <1>7
<1>9. /\ n.index = t.index /\ n.xor = t.xor /\ n.penalty = more /\ n.skips = k
      /\ n.round = t.round
  BY <1>1, <1>2 DEF Turns
<1>10. n \in Turns
  <2> HIDE DEF n
  <2> QED
    BY <1>1, <1>2, <1>6, <1>8 DEF Turns
<1>11. ASSUME feedback = "good" PROVE n = t
  <2>1. more = t.penalty
    BY <1>1, <1>4, <1>6, <1>11
  <2>2. k = t.skips
    BY <1>7, <1>11
  <2> QED
    BY <1>1, <1>2, <2>1, <2>2 DEF Turns
<1> HIDE DEF n
<1>12. k = Cardinality(Heavy(n))
  <2>1. IsFiniteSet(Heavy(t))
    BY HeavyIsFinite
  <2>2. CASE feedback # "good" /\ t.penalty[p] = 0
    <3>1. Heavy(n) = Heavy(t) \cup {p} /\ p \notin Heavy(t)
      BY <1>1, <1>4, <1>6, <1>9, <2>2 DEF Heavy
    <3>2. Cardinality(Heavy(t) \cup {p}) = Cardinality(Heavy(t)) + 1
      BY <2>1, <3>1, FS_AddElement
    <3> QED
      BY <1>1, <1>7, <2>2, <3>1, <3>2
  <2>3. CASE ~(feedback # "good" /\ t.penalty[p] = 0)
    <3>1. \A q \in Paths : n.penalty[q] > 0 <=> t.penalty[q] > 0
      BY <1>1, <1>4, <1>6, <1>9, <2>3
    <3>2. Heavy(n) = Heavy(t)
      BY <3>1 DEF Heavy
    <3> QED
      BY <1>1, <1>7, <2>3, <3>2
  <2> QED
    BY <2>2, <2>3
<1>13. ChosenBefore(n, n.index)
  BY <1>1, <1>9 DEF ChosenBefore
<1> QED
  BY <1>9, <1>10, <1>11, <1>12, <1>13 DEF GoodTurns, n

\* Different indices are different paths: the indices from a to b under xor x
\* are as many paths.
LEMMA ManyPaths ==
  ASSUME NEW S, IsFiniteSet(S), NEW x \in Paths, NEW a \in Paths, NEW b \in Paths, a <= b,
         \A i \in a .. b : XorOf[x][i] \in S
  PROVE  Cardinality(S) \in Nat /\ b - a + 1 <= Cardinality(S)
<1> DEFINE I == a .. b
           f == [i \in I |-> XorOf[x][i]]
<1>1. a \in Int /\ b \in Int /\ \A i \in I : i \in Paths
  BY RepsAssumption DEF Paths
<1>2. IsFiniteSet(I) /\ Cardinality(I) = b - a + 1
  BY <1>1, FS_Interval
<1>3. f \in [I -> S]
  OBVIOUS
<1>4. \A i, j \in I : f[i] = f[j] => i = j
  BY <1>1, MultipathAssumption
<1> HIDE DEF I, f
<1>5. f \in Injection(I, S)
  BY <1>3, <1>4 DEF Injection, IsInjective
<1>6. Cardinality(I) <= Cardinality(S)
  BY <1>5, FS_Injection
<1> QED
  BY <1>2, <1>6, FS_CardinalityType

\* A search that finds a penalty at every look has seen more than half of the
\* paths, although the xor may have changed on its way.
LEMMA MostAreHeavy ==
  ASSUME NEW t, GoodTurns(t), NEW x \in Paths, NEW S, IsFiniteSet(S),
         LookedAt(t) \in S, \A k \in 1 .. NumPaths : Later(t, k, x) \in S
  PROVE  2 * Cardinality(S) > NumPaths
<1> DEFINE n == NumPaths
           a == t.index
<1>1. a \in 0 .. n - 1 /\ n \in Nat \ {0} /\ t.xor \in Paths
  BY RepsAssumption DEF GoodTurns, Turns, Paths
<1>2. a \in Paths /\ n - 1 \in Paths /\ 0 \in Paths
  BY <1>1 DEF Paths
<1>3. \A i \in a .. n - 1 : XorOf[t.xor][i] \in S
  <2> SUFFICES ASSUME NEW i \in a .. n - 1 PROVE XorOf[t.xor][i] \in S
    OBVIOUS
  <2>1. CASE i = a
    BY <2>1 DEF LookedAt
  <2>2. CASE i # a
    <3>1. i - a \in 1 .. n /\ a + (i - a) = i /\ i < n
      BY <1>1, <2>2
    <3>2. Later(t, i - a, x) = XorOf[t.xor][i]
      BY <3>1 DEF Later
    <3> QED
      BY <3>1, <3>2
  <2> QED
    BY <2>1, <2>2
<1>4. \A i \in 0 .. a : XorOf[x][i] \in S
  <2> SUFFICES ASSUME NEW i \in 0 .. a PROVE XorOf[x][i] \in S
    OBVIOUS
  <2>1. n - a + i \in 1 .. n /\ ~(a + (n - a + i) < n) /\ a + (n - a + i) - n = i
    BY <1>1
  <2>2. Later(t, n - a + i, x) = XorOf[x][i]
    BY <2>1 DEF Later
  <2> QED
    BY <2>1, <2>2
<1>5. Cardinality(S) \in Nat /\ (n - 1) - a + 1 <= Cardinality(S)
  BY <1>1, <1>2, <1>3, ManyPaths
<1>6. a - 0 + 1 <= Cardinality(S)
  BY <1>1, <1>2, <1>4, ManyPaths
<1> QED
  BY <1>1, <1>5, <1>6

\* nextEntropy of SingMpBitmap is fair, whatever the penalties.
LEMMA SearchIsFair ==
  ASSUME NEW t, GoodTurns(t), NEW r \in Search(t)
  PROVE  Fair(t, r)
<1>1. /\ t \in Turns /\ t.index \in Paths /\ t.xor \in Paths
      /\ t.penalty \in [Paths -> 0 .. MaxPenalty] /\ LookedAt(t) \in Paths
  BY MultipathAssumption DEF GoodTurns, Turns, LookedAt
<1>2. PICK n \in (IF t.penalty[LookedAt(t)] = 0 THEN {t} ELSE UNION {Ends(s) : s \in {Skipped(t)}}) :
        r \in Take(n)
  BY Zenon DEF Search
<1>3. CASE t.penalty[LookedAt(t)] = 0
  <2>1. n = t
    BY <1>2, <1>3
  <2>2. /\ r.path = LookedAt(t) /\ r.path \in Paths /\ GoodTurns(r.turns)
        /\ r.turns.penalty = t.penalty
    BY <1>2, <2>1, TakeIsGood
  <2>3. r.path \notin Heavy(r.turns)
    BY <1>3, <2>2 DEF Heavy
  <2>4. Heavy(r.turns) \subseteq Heavy(t)
    BY <2>2 DEF Heavy
  <2> QED
    BY <2>2, <2>3, <2>4 DEF Fair
<1>4. CASE t.penalty[LookedAt(t)] # 0
  <2> DEFINE p == LookedAt(t)
             s == Skipped(t)
  <2>1. t.penalty[p] > 0 /\ p \in Paths
    BY <1>1, <1>4, MultipathAssumption
  <2>2. s = Lighten(t, p)
    BY DEF Skipped
  <2>3. /\ GoodTurns(s) /\ s.index = t.index /\ s.xor = t.xor
        /\ \A q \in Paths : s.penalty[q] > 0 => t.penalty[q] > 0
    BY <2>1, <2>2, LightenIsGood
  <2>4. n \in Ends(s)
    BY <1>2, <1>4, Zenon
  <2> HIDE DEF s
  <2>5. PICK e \in (1 .. NumPaths) \X Paths : EndsAfter(s, e[1], e[2]) /\ n = Further(s, e[1], e[2])
    BY <2>4, Zenon DEF Ends
  <2>6. PICK k \in 1 .. NumPaths, x \in Paths : EndsAfter(s, k, x) /\ n = Further(s, k, x)
    BY <2>5
  <2>7. GoodTurns(n) /\ n.penalty = s.penalty /\ LookedAt(n) = Later(s, k, x)
    BY <2>3, <2>6, FurtherIsGood
  <2>8. /\ r.path = LookedAt(n) /\ r.path \in Paths /\ GoodTurns(r.turns)
        /\ r.turns.penalty = n.penalty
    BY <1>2, <2>7, TakeIsGood
  <2>9. Heavy(r.turns) \subseteq Heavy(t)
    BY <2>3, <2>7, <2>8 DEF Heavy
  <2>10. ASSUME r.path \in Heavy(r.turns) PROVE 2 * Cardinality(Heavy(t)) > NumPaths
    <3>1. s.penalty[Later(s, k, x)] > 0
      BY <2>7, <2>8, <2>10 DEF Heavy
    <3>2. s.penalty[Later(s, k, x)] = 0 \/ GivesUp(k)
      BY <2>6, Zenon DEF EndsAfter
    <3>3. k = NumPaths
      BY <3>1, <3>2 DEF GivesUp
    <3>4. \A j \in 1 .. NumPaths : Later(t, j, x) = Later(s, j, x)
      BY <2>3 DEF Later
    <3>5. \A j \in 1 .. NumPaths : Later(s, j, x) \in Paths
      <4> SUFFICES ASSUME NEW j \in 1 .. NumPaths PROVE Later(s, j, x) \in Paths
        OBVIOUS
      <4>1. LookedAt(Further(s, j, x)) = Later(s, j, x) /\ GoodTurns(Further(s, j, x))
        BY <2>3, FurtherIsGood
      <4> QED
        BY <4>1, MultipathAssumption DEF GoodTurns, Turns, LookedAt
    <3>6. \A j \in 1 .. NumPaths : s.penalty[Later(s, j, x)] > 0
      <4> SUFFICES ASSUME NEW j \in 1 .. NumPaths PROVE s.penalty[Later(s, j, x)] > 0
        OBVIOUS
      <4>1. CASE j = NumPaths
        BY <3>1, <3>3, <4>1
      <4>2. CASE j # NumPaths
        <5>1. j \in 1 .. k - 1
          BY <3>3, <4>2, RepsAssumption
        <5> QED
          BY <2>6, <5>1, Zenon DEF EndsAfter
      <4> QED
        BY <4>1, <4>2
    <3>7. \A j \in 1 .. NumPaths : Later(t, j, x) \in Heavy(t)
      BY <2>3, <3>4, <3>5, <3>6 DEF Heavy
    <3>8. LookedAt(t) \in Heavy(t) /\ IsFiniteSet(Heavy(t))
      BY <2>1, HeavyIsFinite DEF Heavy
    <3> QED
      BY <3>7, <3>8, MostAreHeavy
  <2> QED
    BY <2>8, <2>9, <2>10 DEF Fair
<1> QED
  BY <1>3, <1>4

--------------------------------------------------------------------------
(* A choice                                                                *)

IsSelector(s) == \E a, b, c : s = [turns |-> a, legacy |-> b, ring |-> c] /\ GoodTurns(a)

PolicyType ==
  /\ policy \in {"oblivious", "bitmap", "reps", "reps_legacy", "mixed"}
  /\ unit \in Nat /\ behavior \in {"keep", "random"}

\* Every policy leaves the turns good, and passes over penalised paths as long
\* as it can if it is the bitmap.
LEMMA ChoiceIsFair ==
  ASSUME PolicyType, NEW s, IsSelector(s), NEW window, NEW r \in MpNextEntropy(s, window)
  PROVE  /\ IsSelector(r.s)
         /\ policy = "bitmap" => Fair(s.turns, [path |-> r.path, turns |-> r.s.turns])
<1>1. PICK a, b, c : s = [turns |-> a, legacy |-> b, ring |-> c] /\ GoodTurns(a)
  BY Zenon DEF IsSelector
<1>2. s.turns = a /\ s.legacy = b /\ s.ring = c
  BY <1>1
<1>3. \A n : [s EXCEPT !.turns = n] = [turns |-> n, legacy |-> b, ring |-> c]
  BY <1>1
<1>4. \A n : [s EXCEPT !.legacy = n] = [turns |-> a, legacy |-> n, ring |-> c]
  BY <1>1
<1>5. \A n : [s EXCEPT !.ring = n] = [turns |-> a, legacy |-> b, ring |-> n]
  BY <1>1
<1>6. CASE policy = "oblivious"
  <2>1. r \in ByTurns(s, Take(s.turns))
    BY <1>6 DEF MpNextEntropy
  <2>2. PICK u \in Take(s.turns) : r = [path |-> u.path, s |-> [s EXCEPT !.turns = u.turns]]
    BY <2>1, Zenon DEF ByTurns
  <2>3. GoodTurns(u.turns)
    BY <1>1, <1>2, <2>2, TakeIsGood
  <2>4. r.s = [turns |-> u.turns, legacy |-> b, ring |-> c]
    BY <1>3, <2>2
  <2> QED
    BY <1>6, <2>3, <2>4 DEF IsSelector
<1>7. ASSUME r \in ByTurns(s, Search(s.turns))
      PROVE  /\ IsSelector(r.s)
             /\ policy = "bitmap" => Fair(s.turns, [path |-> r.path, turns |-> r.s.turns])
  <2>1. PICK u \in Search(s.turns) : r = [path |-> u.path, s |-> [s EXCEPT !.turns = u.turns]]
    BY <1>7, Zenon DEF ByTurns
  <2>2. Fair(a, u)
    BY <1>1, <1>2, <2>1, SearchIsFair
  <2>3. r.s = [turns |-> u.turns, legacy |-> b, ring |-> c] /\ r.path = u.path
    BY <1>3, <2>1
  <2>4. IsSelector(r.s)
    BY <2>2, <2>3 DEF IsSelector, Fair
  <2>5. Fair(s.turns, [path |-> r.path, turns |-> r.s.turns])
    <3>1. [path |-> r.path, turns |-> r.s.turns].path = u.path
      BY <2>3
    <3>2. [path |-> r.path, turns |-> r.s.turns].turns = u.turns
      BY <2>3
    <3> QED
      BY <1>2, <2>2, <3>1, <3>2 DEF Fair
  <2> QED
    BY <2>4, <2>5
<1>8. CASE policy = "bitmap"
  <2>1. r \in ByTurns(s, Search(s.turns))
    BY <1>8 DEF MpNextEntropy
  <2> QED
    BY <1>7, <2>1
<1>9. CASE policy = "reps"
  <2>1. r \in {[path |-> u.path, s |-> [s EXCEPT !.ring = u.ring]] : u \in RepsNextEntropy(s.ring)}
    BY <1>9 DEF MpNextEntropy
  <2>2. PICK u \in RepsNextEntropy(s.ring) : r = [path |-> u.path, s |-> [s EXCEPT !.ring = u.ring]]
    BY <2>1, Zenon
  <2>3. r.s = [turns |-> a, legacy |-> b, ring |-> u.ring]
    BY <1>5, <2>2
  <2> QED
    BY <1>1, <1>9, <2>3 DEF IsSelector
<1>10. CASE policy = "reps_legacy"
  <2>1. r \in {[path |-> l.crt, s |-> [s EXCEPT !.legacy = l]] : l \in LegacyNext(s.legacy, window)}
    BY <1>10 DEF MpNextEntropy
  <2>2. PICK l \in LegacyNext(s.legacy, window) : r = [path |-> l.crt, s |-> [s EXCEPT !.legacy = l]]
    BY <2>1, Zenon
  <2>3. r.s = [turns |-> a, legacy |-> l, ring |-> c]
    BY <1>4, <2>2
  <2> QED
    BY <1>1, <1>10, <2>3 DEF IsSelector
<1>11. CASE policy = "mixed"
  <2>1. r \in IF s.legacy.recycled # <<>>
              THEN {[path |-> Head(s.legacy.recycled), s |-> [s EXCEPT !.legacy = Recycle(@)]]}
              ELSE ByTurns(s, Search(s.turns))
    BY <1>11 DEF MpNextEntropy
  <2>2. CASE s.legacy.recycled # <<>>
    <3>1. r = [path |-> Head(s.legacy.recycled), s |-> [s EXCEPT !.legacy = Recycle(s.legacy)]]
      BY <2>1, <2>2
    <3>2. r.s = [turns |-> a, legacy |-> Recycle(s.legacy), ring |-> c]
      BY <1>4, <3>1
    <3> QED
      BY <1>1, <1>11, <3>2 DEF IsSelector
  <2>3. CASE s.legacy.recycled = <<>>
    BY <1>7, <2>1, <2>3
  <2> QED
    BY <2>2, <2>3
<1> QED
  BY <1>6, <1>8, <1>9, <1>10, <1>11 DEF PolicyType

--------------------------------------------------------------------------
(* The invariant                                                           *)

\* A packet that does not end its unit took the path of the next one.
UnitGoesOn ==
  unit > 0 /\ behavior = "keep" /\ ~packet.end => packet.path = chosen

\* Nothing is reported before the first packet.
NothingSent == seqSent = 0 => Heavy(turns) = {} /\ packet.end = TRUE

MpInv ==
  /\ PolicyType
  /\ GoodTurns(turns)
  /\ seqSent \in Nat /\ bad \in Nat
  /\ NothingSent
  /\ UnitGoesOn

\* At the start no path is penalised, skipped or taken.
LEMMA InitMp == MpInit => MpInv
<1> SUFFICES ASSUME MpInit PROVE MpInv
  OBVIOUS
<1>1. PolicyType
  BY MultipathAssumption DEF MpInit, PolicyType
<1>2. 0 \in Paths
  BY RepsAssumption DEF Paths
<1> DEFINE none == [p \in Paths |-> 0]
<1>3. PICK x \in Paths :
        turns = [index |-> 0, xor |-> x, penalty |-> none, skips |-> 0, round |-> <<>>]
  BY <1>2, Zenon DEF MpInit
<1>4. none \in [Paths -> 0 .. MaxPenalty] /\ \A p \in Paths : ~(none[p] > 0)
  BY MultipathAssumption
<1> HIDE DEF none
<1>5. turns.index = 0 /\ turns.penalty = none /\ turns.skips = 0 /\ turns.round = <<>>
  BY <1>3
<1>6. turns \in Turns
  BY <1>2, <1>3, <1>4 DEF Turns
<1>7. Heavy(turns) = {}
  BY <1>4, <1>5 DEF Heavy
<1>8. turns.skips = Cardinality(Heavy(turns))
  BY <1>5, <1>7, FS_EmptySet
<1>9. ChosenBefore(turns, turns.index)
  BY <1>5 DEF ChosenBefore
<1>10. seqSent = 0 /\ bad = 0 /\ packet.end = TRUE
  BY DEF MpInit
<1> QED
  BY <1>1, <1>6, <1>7, <1>8, <1>9, <1>10 DEF MpInv, GoodTurns, NothingSent, UnitGoesOn

\* The choice a unit goes on with: the last one, or the first of all.
LEMMA CurrentIsFair ==
  ASSUME MpInv, NEW window, NEW c \in Current(window)
  PROVE  /\ IsSelector(c.s)
         /\ seqSent # 0 => c.path = chosen /\ c.s.turns = turns
         /\ seqSent = 0 /\ policy = "bitmap" => Heavy(c.s.turns) = {}
<1>1. IsSelector(Selector) /\ Selector.turns = turns
  BY DEF IsSelector, Selector, MpInv
<1>2. CASE seqSent = 0
  <2>1. c \in MpNextEntropy(Selector, window)
    BY <1>2 DEF Current
  <2>2. /\ IsSelector(c.s)
        /\ policy = "bitmap" => Fair(Selector.turns, [path |-> c.path, turns |-> c.s.turns])
    BY <1>1, <2>1, ChoiceIsFair DEF MpInv
  <2>3. ASSUME policy = "bitmap" PROVE Heavy(c.s.turns) = {}
    <3>1. Heavy(c.s.turns) \subseteq Heavy(turns)
      BY <1>1, <2>2, <2>3 DEF Fair
    <3> QED
      BY <1>2, <3>1 DEF MpInv, NothingSent
  <2> QED
    BY <1>2, <2>2, <2>3
<1>3. CASE seqSent # 0
  <2>1. c = [path |-> chosen, s |-> Selector]
    BY <1>3 DEF Current
  <2> QED
    BY <1>1, <1>3, <2>1
<1> QED
  BY <1>2, <1>3

\* A packet gets a path.
LEMMA SelectKeeps ==
  ASSUME MpInv, Select
  PROVE  /\ MpInv'
         /\ behavior = "keep" /\ ~packet.end /\ unit > 0 => packet'.path = packet.path
         /\ policy = "bitmap" /\ turns' # turns /\ chosen' \in Heavy(turns')
              => 2 * Cardinality(Heavy(turns)) > NumPaths
<1>1. PICK size \in 1 .. 2, window \in IF policy = "reps_legacy" THEN {1, NumPaths} ELSE {1} :
        SelectForPacket(window) \/ SelectForUnit(size, window)
  BY Zenon DEF Select
<1>2. policy' = policy /\ unit' = unit /\ behavior' = behavior /\ bad' = bad
  BY DEF Select
<1>3. PolicyType' /\ bad' \in Nat
  BY <1>2 DEF MpInv, PolicyType
<1>4. seqSent' \in Nat /\ seqSent' # 0
  <2>1. Counted \in Nat /\ Counted > 0 /\ seqSent \in Nat
    BY RepsAssumption DEF Counted, MpInv
  <2>2. seqSent' = AtMost(seqSent + 1, Counted) \/ (seqSent > 0 /\ seqSent' = seqSent)
    BY DEF Select
  <2> QED
    BY <2>1, <2>2 DEF AtMost
<1>5. NothingSent'
  BY <1>4 DEF NothingSent
<1>6. IsSelector(Selector) /\ Selector.turns = turns
  BY DEF IsSelector, Selector, MpInv
<1>7. \A s : IsSelector(s) => GoodTurns(s.turns)
  BY DEF IsSelector
<1>8. CASE SelectForPacket(window)
  <2>1. PICK r \in MpNextEntropy(Selector, window) : Becomes(r) /\ packet' = [path |-> r.path, end |-> FALSE]
    BY <1>8, Zenon DEF SelectForPacket
  <2>2. unit = 0
    BY <1>8 DEF SelectForPacket
  <2>3. /\ IsSelector(r.s)
        /\ policy = "bitmap" => Fair(turns, [path |-> r.path, turns |-> r.s.turns])
    BY <1>6, <2>1, ChoiceIsFair DEF MpInv
  <2>4. turns' = r.s.turns /\ chosen' = r.path
    BY <2>1 DEF Becomes
  <2>5. GoodTurns(turns')
    BY <1>7, <2>3, <2>4
  <2>6. UnitGoesOn'
    BY <1>2, <2>2 DEF UnitGoesOn
  <2>7. ASSUME policy = "bitmap", chosen' \in Heavy(turns')
        PROVE  2 * Cardinality(Heavy(turns)) > NumPaths
    BY <2>3, <2>4, <2>7 DEF Fair
  <2>8. MpInv'
    BY <1>3, <1>4, <1>5, <2>5, <2>6 DEF MpInv
  <2> QED
    BY <2>2, <2>7, <2>8
<1>9. CASE SelectForUnit(size, window)
  <2>1. PICK c \in Current(window) :
          /\ \E p \in IF behavior = "random" THEN Paths ELSE {c.path} :
               packet' = [path |-> p, end |-> EndsUnit(size)]
          /\ IF EndsUnit(size)
             THEN used' = 0 /\ \E r \in MpNextEntropy(c.s, window) : Becomes(r)
             ELSE used' = used + size /\ Becomes(c)
    BY <1>9, Zenon DEF SelectForUnit
  <2>2. /\ IsSelector(c.s)
        /\ seqSent # 0 => c.path = chosen /\ c.s.turns = turns
        /\ seqSent = 0 /\ policy = "bitmap" => Heavy(c.s.turns) = {}
    BY CurrentIsFair
  <2>3. PICK p \in IF behavior = "random" THEN Paths ELSE {c.path} :
          packet' = [path |-> p, end |-> EndsUnit(size)]
    BY <2>1, Zenon
  <2>4. packet'.path = p /\ packet'.end = EndsUnit(size)
    BY <2>3, Zenon
  <2>5. behavior = "keep" => p = c.path
    BY <2>3
  <2>6. behavior = "keep" /\ ~packet.end /\ unit > 0 => packet'.path = packet.path
    <3> SUFFICES ASSUME behavior = "keep", ~packet.end, unit > 0 PROVE packet'.path = packet.path
      BY Zenon
    <3>1. seqSent # 0
      BY Zenon DEF MpInv, NothingSent
    <3>2. packet.path = chosen
      BY Zenon DEF MpInv, UnitGoesOn
    <3> QED
      BY <2>2, <2>4, <2>5, <3>1, <3>2, Zenon
  <2>7. CASE EndsUnit(size)
    <3>1. PICK r \in MpNextEntropy(c.s, window) : Becomes(r)
      BY <2>1, <2>7, Zenon
    <3>2. /\ IsSelector(r.s)
          /\ policy = "bitmap" => Fair(c.s.turns, [path |-> r.path, turns |-> r.s.turns])
      BY <2>2, <3>1, ChoiceIsFair DEF MpInv
    <3>3. turns' = r.s.turns /\ chosen' = r.path
      BY <3>1 DEF Becomes
    <3>4. GoodTurns(turns')
      BY <1>7, <3>2, <3>3
    <3>5. packet'.end
      BY <2>4, <2>7, Zenon
    <3>6. UnitGoesOn'
      BY <3>5, Zenon DEF UnitGoesOn
    <3>7. ASSUME policy = "bitmap", chosen' \in Heavy(turns')
          PROVE  2 * Cardinality(Heavy(turns)) > NumPaths
      <4>1. /\ Heavy(turns') \subseteq Heavy(c.s.turns)
            /\ 2 * Cardinality(Heavy(c.s.turns)) > NumPaths
        BY <3>2, <3>3, <3>7 DEF Fair
      <4>2. seqSent # 0
        BY <2>2, <3>7, <4>1
      <4> QED
        BY <2>2, <4>1, <4>2
    <3>8. MpInv'
      BY <1>3, <1>4, <1>5, <3>4, <3>6, Zenon DEF MpInv
    <3> QED
      BY <2>6, <3>7, <3>8, Zenon
  <2>8. CASE ~EndsUnit(size)
    <3>1. Becomes(c)
      BY <2>1, <2>8, Zenon
    <3>2. turns' = c.s.turns /\ chosen' = c.path
      BY <3>1 DEF Becomes
    <3>3. GoodTurns(turns')
      BY <1>7, <2>2, <3>2
    <3>4. UnitGoesOn'
      BY <1>2, <2>4, <2>5, <3>2, Zenon DEF UnitGoesOn
    <3>5. ASSUME policy = "bitmap", turns' # turns, chosen' \in Heavy(turns')
          PROVE  2 * Cardinality(Heavy(turns)) > NumPaths
      BY <2>2, <3>2, <3>5
    <3>6. MpInv'
      BY <1>3, <1>4, <1>5, <3>3, <3>4, Zenon DEF MpInv
    <3> QED
      BY <2>6, <3>5, <3>6, Zenon
  <2> QED
    BY <2>7, <2>8, Zenon
<1> QED
  BY <1>1, <1>8, <1>9, Zenon

\* A report: only a penalty changes the turns.
LEMMA ReportKeeps ==
  ASSUME MpInv, NEW p \in Paths, NEW feedback \in Feedback, MpProcessEv(p, feedback),
         bad' \in Nat, seqSent > 0
  PROVE  /\ MpInv' /\ packet' = packet
         /\ feedback = "good" => turns' = turns
         /\ ~Penalises => turns' = turns
<1>1. /\ policy' = policy /\ unit' = unit /\ behavior' = behavior /\ seqSent' = seqSent
      /\ chosen' = chosen /\ packet' = packet
      /\ turns' = IF Penalises THEN BitmapProcessEv(turns, p, feedback) ELSE turns
  BY DEF MpProcessEv
<1>2. /\ GoodTurns(BitmapProcessEv(turns, p, feedback))
      /\ feedback = "good" => BitmapProcessEv(turns, p, feedback) = turns
  BY ReportIsGood DEF MpInv
<1>3. GoodTurns(turns') /\ (feedback = "good" => turns' = turns) /\ (~Penalises => turns' = turns)
  BY <1>1, <1>2 DEF MpInv
<1>4. PolicyType' /\ seqSent' \in Nat /\ seqSent' # 0
  BY <1>1 DEF MpInv, PolicyType
<1>5. NothingSent'
  BY <1>4 DEF NothingSent
<1>6. UnitGoesOn'
  BY <1>1, Zenon DEF MpInv, UnitGoesOn
<1>7. MpInv'
  BY <1>3, <1>4, <1>5, <1>6, Zenon DEF MpInv
<1> QED
  BY <1>1, <1>3, <1>7, Zenon

\* What a step does to the paths of a unit and to the penalised ones.
KeepsUnit ==
  behavior = "keep" /\ ~packet.end /\ unit > 0 => packet'.path = packet.path
AvoidsHeavy ==
  policy = "bitmap" /\ turns' # turns /\ bad' = bad /\ chosen' \in Heavy(turns')
    => 2 * Cardinality(Heavy(turns)) > NumPaths

\* Every step keeps the invariant, keeps a unit on its path, and passes over
\* the most penalised paths.
LEMMA StepMp == MpInv /\ [MpNext]_mpVars => MpInv' /\ KeepsUnit /\ AvoidsHeavy
<1> SUFFICES ASSUME MpInv, [MpNext]_mpVars PROVE MpInv' /\ KeepsUnit /\ AvoidsHeavy
  OBVIOUS
<1>1. CASE Select
  BY <1>1, SelectKeeps, Zenon DEF KeepsUnit, AvoidsHeavy
<1>2. CASE GoodReport
  <2>1. PICK p \in Paths : MpProcessEv(p, "good")
    BY <1>2, Zenon DEF GoodReport
  <2>2. "good" \in Feedback /\ bad' \in Nat /\ seqSent > 0
    BY <1>2 DEF GoodReport, Feedback, MpInv
  <2>3. MpInv' /\ packet' = packet /\ turns' = turns
    BY <2>1, <2>2, ReportKeeps, Zenon
  <2> QED
    BY <2>3, Zenon DEF KeepsUnit, AvoidsHeavy
<1>3. ASSUME NEW p \in Paths, NEW feedback \in Feedback, MpProcessEv(p, feedback), seqSent > 0,
             bad' = IF Penalises THEN bad + 1 ELSE bad
      PROVE  MpInv' /\ KeepsUnit /\ AvoidsHeavy
  <2>1. bad \in Nat /\ bad' \in Nat
    BY <1>3 DEF MpInv
  <2>2. MpInv' /\ packet' = packet /\ (~Penalises => turns' = turns)
    BY <1>3, <2>1, ReportKeeps, Zenon
  <2>3. Penalises => bad' # bad
    BY <1>3, <2>1
  <2> QED
    BY <2>2, <2>3, Zenon DEF KeepsUnit, AvoidsHeavy
<1>4. CASE BadReport
  <2>1. PICK p \in Paths, feedback \in {"ecn", "nack"} : MpProcessEv(p, feedback)
    BY <1>4, Zenon DEF BadReport
  <2>2. feedback \in Feedback /\ seqSent > 0 /\ bad' = IF Penalises THEN bad + 1 ELSE bad
    BY <1>4 DEF BadReport, Feedback
  <2> QED
    BY <1>3, <2>1, <2>2, Zenon
<1>5. CASE Timeout
  <2>1. UnknownEv \in Paths /\ "timeout" \in Feedback
    BY RepsAssumption DEF UnknownEv, Paths, Feedback
  <2>2. MpProcessEv(UnknownEv, "timeout") /\ seqSent > 0 /\ bad' = IF Penalises THEN bad + 1 ELSE bad
    BY <1>5, Zenon DEF Timeout
  <2> QED
    BY <1>3, <2>1, <2>2, Zenon
<1>6. CASE MpTick \/ UNCHANGED mpVars
  <2>1. /\ policy' = policy /\ unit' = unit /\ behavior' = behavior /\ seqSent' = seqSent
        /\ packet' = packet /\ turns' = turns /\ bad' = bad /\ chosen' = chosen
    BY <1>6 DEF MpTick, Tick, mpVars
  <2>2. MpInv'
    BY <2>1, Zenon DEF MpInv, PolicyType, NothingSent, UnitGoesOn
  <2> QED
    BY <2>1, <2>2, Zenon DEF KeepsUnit, AvoidsHeavy
<1> QED
  BY <1>1, <1>2, <1>4, <1>5, <1>6, Zenon DEF MpNext

--------------------------------------------------------------------------
(* The theorems                                                            *)

\* The turns are in order whatever is reported when.
THEOREM MultipathInvariant == MpSpec => []MpInv
<1> QED
  BY InitMp, StepMp, PTL DEF MpSpec

\* The counter of paths to skip is the number of paths with a penalty.
THEOREM SkipsAreCounted == MpSpec => []SkipCountExact
<1>1. MpInv => SkipCountExact
  BY DEF MpInv, GoodTurns, Heavy, SkipCountExact
<1> QED
  BY <1>1, MultipathInvariant, PTL

\* No path has two turns in a round.
THEOREM TurnsAreFair == MpSpec => []NoPathTwiceARound
<1>1. MpInv => NoPathTwiceARound
  <2> SUFFICES ASSUME MpInv PROVE NoPathTwiceARound
    OBVIOUS
  <2>1. turns.round \in Seq(Paths) /\ ChosenBefore(turns, turns.index)
    BY DEF MpInv, GoodTurns, Turns
  <2>2. DOMAIN turns.round = 1 .. Len(turns.round)
    BY <2>1
  <2>3. \A k, l \in DOMAIN turns.round : turns.round[k] = turns.round[l] => k = l
    BY <2>1, <2>2, Zenon DEF ChosenBefore
  <2> QED
    BY <2>3, Zenon DEF NoPathTwiceARound, IsInjective
<1> QED
  BY <1>1, MultipathInvariant, PTL

\* The packets of a unit take one path.
THEOREM UnitsKeepTheirPath == MpSpec => UnitKeepsPath
<1>1. MpInv /\ [MpNext]_mpVars =>
        [behavior = "keep" /\ ~packet.end /\ unit > 0 => packet'.path = packet.path]_mpVars
  BY StepMp, Zenon DEF KeepsUnit
<1> QED
  BY <1>1, MultipathInvariant, PTL DEF MpSpec, UnitKeepsPath

\* A path with a penalty is chosen only when most paths have one.
THEOREM PenalisedPathsArePassedOver == MpSpec => PenalisedPathOnlyWhenMost
<1>1. MpInv /\ [MpNext]_mpVars =>
        [policy = "bitmap" /\ turns' # turns /\ bad' = bad /\ chosen' \in Penalised'
           => 2 * Cardinality(Penalised) > NumPaths]_mpVars
  <2>1. Penalised = Heavy(turns) /\ Penalised' = Heavy(turns')
    BY DEF Penalised, Heavy
  <2> QED
    BY <2>1, StepMp, Zenon DEF AvoidsHeavy
<1> QED
  BY <1>1, MultipathInvariant, PTL DEF MpSpec, PenalisedPathOnlyWhenMost

--------------------------------------------------------------------------
(* Every selector is a SingReps: the policies that have no ring leave it   *)
(* empty, and an empty ring answers with any path.                         *)

Legacies == [crt : Paths, recycled : Seq(Paths)]

\* A choice that a ring may answer with.
Handed(r, ring) == \E u \in RepsNextEntropy(ring) : r.path = u.path /\ r.s.ring = u.ring

\* The empty ring answers with any path and stays empty.
LEMMA EmptyRingGuesses ==
  /\ \A p \in Paths : [path |-> p, ring |-> EmptyRing] \in RepsNextEntropy(EmptyRing)
  /\ \A u \in RepsNextEntropy(EmptyRing) : u.path \in Paths /\ u.ring = EmptyRing
<1>1. EmptyRing.explore = 0 /\ EmptyRing.count = 0
  BY DEF EmptyRing
<1>2. RepsNextEntropy(EmptyRing) = AnyPath(EmptyRing)
  BY <1>1 DEF RepsNextEntropy
<1> QED
  BY <1>2 DEF AnyPath

\* The recycled paths of the old REPS stay paths.
LEMMA LegacyIsKept ==
  ASSUME NEW l \in Legacies
  PROVE  /\ l.recycled # <<>> => Recycle(l) \in Legacies /\ Head(l.recycled) \in Paths
         /\ \A window : \A n \in LegacyNext(l, window) : n \in Legacies
         /\ \A p \in Paths : \A feedback : LegacyProcessEv(l, p, feedback) \in Legacies
<1>1. l.crt \in Paths /\ l.recycled \in Seq(Paths)
  BY DEF Legacies
<1>2. ASSUME l.recycled # <<>> PROVE Recycle(l) \in Legacies /\ Head(l.recycled) \in Paths
  <2>1. Head(l.recycled) \in Paths /\ Tail(l.recycled) \in Seq(Paths)
    BY <1>1, <1>2
  <2> QED
    BY <1>1, <2>1 DEF Recycle, Legacies
<1>3. (l.crt + 1) % NumPaths \in Paths
  BY <1>1, RepsAssumption DEF Paths
<1>4. ASSUME NEW p \in Paths PROVE [l EXCEPT !.crt = p] \in Legacies
  BY <1>1 DEF Legacies
<1>5. ASSUME NEW window, NEW n \in LegacyNext(l, window) PROVE n \in Legacies
  BY <1>2, <1>3, <1>4 DEF LegacyNext
<1>6. ASSUME NEW p \in Paths, NEW feedback PROVE LegacyProcessEv(l, p, feedback) \in Legacies
  <2>1. Append(l.recycled, p) \in Seq(Paths)
    BY <1>1
  <2> QED
    BY <1>1, <2>1 DEF LegacyProcessEv, Legacies
<1> QED
  BY <1>2, <1>5, <1>6

\* Whatever the policy, its choice is one the ring may answer with.
LEMMA ChoiceIsHanded ==
  ASSUME PolicyType, NEW s, IsSelector(s), s.legacy \in Legacies,
         policy = "reps" \/ s.ring = EmptyRing,
         NEW window, NEW r \in MpNextEntropy(s, window)
  PROVE  Handed(r, s.ring) /\ r.s.legacy \in Legacies
<1>1. PICK a, b, c : s = [turns |-> a, legacy |-> b, ring |-> c] /\ GoodTurns(a)
  BY Zenon DEF IsSelector
<1>2. s.turns = a /\ s.legacy = b /\ s.ring = c /\ b \in Legacies
  BY <1>1
<1>3. \A n : [s EXCEPT !.turns = n] = [turns |-> n, legacy |-> b, ring |-> c]
  BY <1>1
<1>4. \A n : [s EXCEPT !.legacy = n] = [turns |-> a, legacy |-> n, ring |-> c]
  BY <1>1
<1>5. \A n : [s EXCEPT !.ring = n] = [turns |-> a, legacy |-> b, ring |-> n]
  BY <1>1
<1>6. ASSUME r.path \in Paths, r.s.ring = c, c = EmptyRing PROVE Handed(r, s.ring)
  <2> DEFINE u == [path |-> r.path, ring |-> EmptyRing]
  <2>1. u \in RepsNextEntropy(s.ring)
    BY <1>2, <1>6, EmptyRingGuesses, Zenon
  <2>2. r.path = u.path /\ r.s.ring = u.ring
    BY <1>6
  <2> QED
    BY <2>1, <2>2, Zenon DEF Handed
<1>7. ASSUME NEW results, \A u \in results : u.path \in Paths, r \in ByTurns(s, results),
             policy # "reps"
      PROVE  Handed(r, s.ring) /\ r.s.legacy \in Legacies
  <2>1. PICK u \in results : r = [path |-> u.path, s |-> [s EXCEPT !.turns = u.turns]]
    BY <1>7, Zenon DEF ByTurns
  <2>2. r.s = [turns |-> u.turns, legacy |-> b, ring |-> c] /\ r.path = u.path
    BY <1>3, <2>1
  <2>3. r.s.ring = c /\ r.s.legacy = b /\ r.path \in Paths
    BY <1>7, <2>2
  <2> QED
    BY <1>2, <1>6, <1>7, <2>3
<1>8. \A u \in Take(s.turns) : u.path \in Paths
  BY <1>1, <1>2, TakeIsGood
<1>9. \A u \in Search(s.turns) : u.path \in Paths
  BY <1>1, <1>2, SearchIsFair DEF Fair
<1>10. CASE policy = "oblivious"
  <2>1. r \in ByTurns(s, Take(s.turns))
    BY <1>10 DEF MpNextEntropy
  <2> QED
    BY <1>7, <1>8, <1>10, <2>1
<1>11. CASE policy = "bitmap"
  <2>1. r \in ByTurns(s, Search(s.turns))
    BY <1>11 DEF MpNextEntropy
  <2> QED
    BY <1>7, <1>9, <1>11, <2>1
<1>12. CASE policy = "reps"
  <2>1. r \in {[path |-> u.path, s |-> [s EXCEPT !.ring = u.ring]] : u \in RepsNextEntropy(s.ring)}
    BY <1>12 DEF MpNextEntropy
  <2>2. PICK u \in RepsNextEntropy(s.ring) : r = [path |-> u.path, s |-> [s EXCEPT !.ring = u.ring]]
    BY <2>1, Zenon
  <2>3. r.s = [turns |-> a, legacy |-> b, ring |-> u.ring] /\ r.path = u.path
    BY <1>5, <2>2
  <2>4. r.s.ring = u.ring /\ r.s.legacy = b
    BY <2>3
  <2> QED
    BY <1>2, <2>3, <2>4, Zenon DEF Handed
<1>13. CASE policy = "reps_legacy"
  <2>1. r \in {[path |-> l.crt, s |-> [s EXCEPT !.legacy = l]] : l \in LegacyNext(s.legacy, window)}
    BY <1>13 DEF MpNextEntropy
  <2>2. PICK l \in LegacyNext(s.legacy, window) : r = [path |-> l.crt, s |-> [s EXCEPT !.legacy = l]]
    BY <2>1, Zenon
  <2>3. l \in Legacies
    BY <1>2, <2>2, LegacyIsKept
  <2>4. r.s = [turns |-> a, legacy |-> l, ring |-> c] /\ r.path = l.crt
    BY <1>4, <2>2
  <2>5. r.path \in Paths /\ r.s.ring = c /\ r.s.legacy = l
    BY <2>3, <2>4 DEF Legacies
  <2> QED
    BY <1>2, <1>6, <1>13, <2>3, <2>5
<1>14. CASE policy = "mixed"
  <2>1. r \in IF s.legacy.recycled # <<>>
              THEN {[path |-> Head(s.legacy.recycled), s |-> [s EXCEPT !.legacy = Recycle(@)]]}
              ELSE ByTurns(s, Search(s.turns))
    BY <1>14 DEF MpNextEntropy
  <2>2. CASE s.legacy.recycled # <<>>
    <3>1. r = [path |-> Head(s.legacy.recycled), s |-> [s EXCEPT !.legacy = Recycle(s.legacy)]]
      BY <2>1, <2>2
    <3>2. r.s = [turns |-> a, legacy |-> Recycle(s.legacy), ring |-> c] /\ r.path = Head(s.legacy.recycled)
      BY <1>4, <3>1
    <3>3. Recycle(s.legacy) \in Legacies /\ Head(s.legacy.recycled) \in Paths
      BY <1>2, <2>2, LegacyIsKept
    <3>4. r.path \in Paths /\ r.s.ring = c /\ r.s.legacy = Recycle(s.legacy)
      BY <3>2, <3>3
    <3> QED
      BY <1>2, <1>6, <1>14, <3>3, <3>4
  <2>3. CASE s.legacy.recycled = <<>>
    BY <1>7, <1>9, <1>14, <2>1, <2>3
  <2> QED
    BY <2>2, <2>3
<1> QED
  BY <1>10, <1>11, <1>12, <1>13, <1>14 DEF PolicyType

\* Only REPS fills the ring, and not before the first packet.
RingInv ==
  /\ legacy \in Legacies
  /\ policy # "reps" \/ seqSent = 0 => reps = EmptyRing

\* A choice is handed out from the ring, or the unit goes on.
LEMMA SelectIsHanded ==
  ASSUME MpInv, RingInv, Select
  PROVE  /\ RingInv'
         /\ NextEntropy \/ UNCHANGED vars
<1>1. PICK size \in 1 .. 2, window \in IF policy = "reps_legacy" THEN {1, NumPaths} ELSE {1} :
        SelectForPacket(window) \/ SelectForUnit(size, window)
  BY Zenon DEF Select
<1>2. policy' = policy /\ seqSent' # 0
  <2>1. Counted \in Nat /\ Counted > 0 /\ seqSent \in Nat
    BY RepsAssumption DEF Counted, MpInv
  <2>2. seqSent' = AtMost(seqSent + 1, Counted) \/ (seqSent > 0 /\ seqSent' = seqSent)
    BY DEF Select
  <2> QED
    BY <2>1, <2>2 DEF AtMost, Select
<1>3. /\ IsSelector(Selector) /\ Selector.legacy = legacy /\ Selector.ring = reps
      /\ legacy \in Legacies /\ (policy = "reps" \/ reps = EmptyRing)
  BY DEF IsSelector, Selector, MpInv, RingInv
<1>4. ASSUME NEW r, Becomes(r), r.s.legacy \in Legacies, Handed(r, reps)
      PROVE  RingInv' /\ NextEntropy
  <2>1. chosen' = r.path /\ legacy' = r.s.legacy /\ reps' = r.s.ring
    BY <1>4 DEF Becomes
  <2>2. PICK u \in RepsNextEntropy(reps) : r.path = u.path /\ r.s.ring = u.ring
    BY <1>4, Zenon DEF Handed
  <2>3. reps' = u.ring /\ chosen' = u.path
    BY <2>1, <2>2
  <2>4. NextEntropy
    BY <2>2, <2>3, Zenon DEF NextEntropy
  <2>5. policy # "reps" => reps' = EmptyRing
    BY <1>3, <2>2, <2>3, EmptyRingGuesses
  <2> QED
    BY <1>2, <1>4, <2>1, <2>4, <2>5 DEF RingInv
<1>5. ASSUME NEW r \in MpNextEntropy(Selector, window), Becomes(r)
      PROVE  RingInv' /\ NextEntropy
  <2>1. Handed(r, reps) /\ r.s.legacy \in Legacies
    BY <1>3, <1>5, ChoiceIsHanded DEF MpInv
  <2> QED
    BY <1>4, <1>5, <2>1
<1>6. CASE SelectForPacket(window)
  BY <1>5, <1>6, Zenon DEF SelectForPacket
<1>7. CASE SelectForUnit(size, window)
  <2>1. PICK c \in Current(window) :
          IF EndsUnit(size) THEN used' = 0 /\ \E r \in MpNextEntropy(c.s, window) : Becomes(r)
                            ELSE used' = used + size /\ Becomes(c)
    BY <1>7, Zenon DEF SelectForUnit
  <2>2. CASE seqSent = 0
    <3>1. c \in MpNextEntropy(Selector, window) /\ reps = EmptyRing
      BY <2>2 DEF Current, RingInv
    <3>2. Handed(c, reps) /\ c.s.legacy \in Legacies /\ IsSelector(c.s)
      BY <1>3, <3>1, ChoiceIsHanded, ChoiceIsFair DEF MpInv
    <3>3. c.s.ring = EmptyRing
      BY <3>1, <3>2, EmptyRingGuesses DEF Handed
    <3>4. CASE EndsUnit(size)
      <4>1. PICK r \in MpNextEntropy(c.s, window) : Becomes(r)
        BY <2>1, <3>4, Zenon
      <4>2. Handed(r, EmptyRing) /\ r.s.legacy \in Legacies
        BY <3>2, <3>3, <4>1, ChoiceIsHanded DEF MpInv
      <4> QED
        BY <1>4, <3>1, <4>1, <4>2
    <3>5. CASE ~EndsUnit(size)
      BY <1>5, <2>1, <3>1, <3>5, Zenon
    <3> QED
      BY <3>4, <3>5
  <2>3. CASE seqSent # 0
    <3>1. c = [path |-> chosen, s |-> Selector]
      BY <2>3 DEF Current
    <3>2. CASE EndsUnit(size)
      BY <1>5, <2>1, <3>1, <3>2
    <3>3. CASE ~EndsUnit(size)
      <4>1. Becomes(c)
        BY <2>1, <3>3
      <4>2. chosen' = chosen /\ reps' = reps /\ legacy' = legacy
        BY <1>3, <3>1, <4>1 DEF Becomes
      <4> QED
        BY <1>2, <4>2, <2>3 DEF RingInv, vars
    <3> QED
      BY <3>2, <3>3
  <2> QED
    BY <2>2, <2>3
<1> QED
  BY <1>1, <1>6, <1>7

\* A report goes to the ring, if the policy has one.
LEMMA ReportIsHeard ==
  ASSUME RingInv, NEW p \in Paths, NEW feedback \in Feedback, MpProcessEv(p, feedback), seqSent > 0
  PROVE  RingInv' /\ (ProcessEv \/ UNCHANGED vars)
<1>1. /\ policy' = policy /\ seqSent' = seqSent /\ chosen' = chosen
      /\ reps' = IF policy = "reps" THEN RepsProcessEv(reps, p, feedback) ELSE reps
      /\ legacy' = IF policy \in {"reps_legacy", "mixed"}
                   THEN LegacyProcessEv(legacy, p, feedback) ELSE legacy
  BY DEF MpProcessEv
<1>2. legacy' \in Legacies
  BY <1>1, LegacyIsKept DEF RingInv
<1>3. seqSent' # 0
  BY <1>1
<1>4. RingInv'
  BY <1>1, <1>2, <1>3 DEF RingInv
<1>5. CASE policy = "reps"
  BY <1>1, <1>4, <1>5 DEF ProcessEv
<1>6. CASE policy # "reps"
  BY <1>1, <1>4, <1>6 DEF vars
<1> QED
  BY <1>5, <1>6

\* Every step of a selector is a step of SingReps.
LEMMA StepRing == MpInv /\ RingInv /\ [MpNext]_mpVars => RingInv' /\ [Next]_vars
<1> SUFFICES ASSUME MpInv, RingInv, [MpNext]_mpVars PROVE RingInv' /\ [Next]_vars
  OBVIOUS
<1>1. CASE Select
  BY <1>1, SelectIsHanded DEF Next
<1>2. CASE GoodReport
  <2>1. PICK p \in Paths : MpProcessEv(p, "good")
    BY <1>2, Zenon DEF GoodReport
  <2>2. "good" \in Feedback /\ seqSent > 0
    BY <1>2 DEF GoodReport, Feedback
  <2>3. RingInv' /\ (ProcessEv \/ UNCHANGED vars)
    BY <2>1, <2>2, ReportIsHeard, Zenon
  <2> QED
    BY <2>3 DEF Next
<1>3. CASE BadReport
  <2>1. PICK p \in Paths, feedback \in {"ecn", "nack"} : MpProcessEv(p, feedback)
    BY <1>3, Zenon DEF BadReport
  <2>2. feedback \in Feedback /\ seqSent > 0
    BY <1>3 DEF BadReport, Feedback
  <2>3. RingInv' /\ (ProcessEv \/ UNCHANGED vars)
    BY <2>1, <2>2, ReportIsHeard, Zenon
  <2> QED
    BY <2>3 DEF Next
<1>4. CASE Timeout
  <2>1. UnknownEv \in Paths /\ "timeout" \in Feedback
    BY RepsAssumption DEF UnknownEv, Paths, Feedback
  <2>2. MpProcessEv(UnknownEv, "timeout") /\ seqSent > 0
    BY <1>4, Zenon DEF Timeout
  <2>3. RingInv' /\ (ProcessEv \/ UNCHANGED vars)
    BY <2>1, <2>2, ReportIsHeard, Zenon
  <2> QED
    BY <2>3 DEF Next
<1>5. CASE MpTick
  <2>1. /\ policy = "reps" /\ policy' = policy /\ seqSent' = seqSent /\ legacy' = legacy
        /\ reps' = Older(reps) /\ Tick
    BY <1>5 DEF MpTick, Tick
  <2>2. Older(EmptyRing) = EmptyRing
    <3> DEFINE v == [s \in Slots |-> 0]
               V == {}
               f == FALSE
               e == -1
    <3>1. EmptyRing = [value |-> v, valid |-> V, head |-> 0, headFrozen |-> 0, count |-> 0,
                       fresh |-> 0, frozen |-> f, explore |-> 0, exitIn |-> e]
      BY DEF EmptyRing
    <3>2. e < 0
      OBVIOUS
    <3> HIDE DEF v, V, f, e
    <3>3. EmptyRing.exitIn = e
      BY <3>1
    <3>4. [EmptyRing EXCEPT !.exitIn = e] = EmptyRing
      BY <3>1
    <3> QED
      BY <3>2, <3>3, <3>4 DEF Older
  <2>3. RingInv'
    BY <2>1, <2>2 DEF RingInv
  <2> QED
    BY <2>1, <2>3 DEF Next
<1>6. CASE UNCHANGED mpVars
  BY <1>6 DEF mpVars, vars, RingInv
<1> QED
  BY <1>1, <1>2, <1>3, <1>4, <1>5, <1>6 DEF MpNext

\* Whatever the policy, its ring and the path it chose last behave as SingReps
\* lets them.
THEOREM SelectorsFollowReps == MpSpec => Spec
<1>1. MpInit => RingInv /\ Init
  <2> SUFFICES ASSUME MpInit PROVE RingInv /\ Init
    OBVIOUS
  <2>1. legacy = [crt |-> 0, recycled |-> <<>>] /\ 0 \in Paths /\ Init
    BY RepsAssumption DEF MpInit, Paths
  <2>2. legacy \in Legacies
    BY <2>1 DEF Legacies
  <2> QED
    BY <2>1, <2>2 DEF RingInv, Init
<1>2. MpSpec => [](MpInv /\ RingInv)
  BY <1>1, InitMp, StepMp, StepRing, PTL DEF MpSpec
<1> QED
  BY <1>1, <1>2, StepRing, PTL DEF MpSpec, Spec

\* The ring of every selector keeps its shape, through freezes and thaws.
THEOREM RingIsAlwaysWindow == MpSpec => []RingIsWindow
<1> QED
  BY SelectorsFollowReps, RingAlwaysWindow, PTL

\* Every selector recycles its good paths as promised.
THEOREM SelectorsKeepTheirPromise == MpSpec => ImplementsRecycledPaths
<1> QED
  BY SelectorsFollowReps, RepsKeepsItsPromise
=============================================================================
