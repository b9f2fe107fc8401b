--------------------------- MODULE SingNicProofs ---------------------------
(***************************************************************************)
(* Theorems about the NIC, for every set of sources and subflows, every    *)
(* interval they may wait, every unacked window and number of packets: it  *)
(* never goes to sleep with something to do, and loses no subflow.         *)
(***************************************************************************)
EXTENDS SingNic, FiniteSetTheorems, SequenceTheorems, TLAPS

Entry == [sf : Subflows, left : Nat]

Sorted(q) == \A j, k \in DOMAIN q : j <= k => q[j].left <= q[k].left
OnceEach(q) == \A j, k \in DOMAIN q : q[j].sf = q[k].sf => j = k

\* Finished, with the backlogs b.
Done(s, r, n, b) == b[s] = 0 /\ \A f \in ToSet(SubflowsOf[s]) : r[f] = 0 /\ n[f] = 0

\* Only sources that have started are scheduled or have packets under way.
OnlyStarted(q, r, n, st) ==
  /\ \A k \in DOMAIN q : SrcOf(q[k].sf) \in st
  /\ \A f \in Subflows : r[f] > 0 \/ n[f] > 0 => SrcOf(f) \in st

NoneMissing(q, r, n, b, st) ==
  \A f \in Subflows :
    SrcOf(f) \in st /\ ~Done(SrcOf(f), r, n, b) => \E k \in DOMAIN q : q[k].sf = f

\* A schedule q that fits the packets of the sources in st.
Ready(q, r, n, b, st) ==
  /\ q \in Seq(Entry) /\ Sorted(q) /\ OnceEach(q)
  /\ r \in [Subflows -> Nat] /\ n \in [Subflows -> Nat] /\ b \in [Sources -> Nat]
  /\ OnlyStarted(q, r, n, st)
  /\ NoneMissing(q, r, n, b, st)

Awake(q, w) == q # <<>> => \E t \in w : t <= Head(q).left

\* What the port and the events owe to a schedule q with c control packets.
Attended(q, w, c, p) ==
  /\ w \subseteq Nat /\ c \in Nat /\ p \in 0 .. Idle
  /\ p = Idle => c = 0 /\ Awake(q, w)

NicInv ==
  /\ started \subseteq Sources
  /\ Ready(schedule, rtx, inFlight, backlog, started)
  /\ Attended(schedule, wakeups, control, port)

--------------------------------------------------------------------------
(* The schedule                                                            *)

\* A function on 1 .. n is a sequence of length n.
LEMMA FunctionIsSequence ==
  ASSUME NEW S, NEW n \in Nat, NEW a \in [1 .. n -> S]
  PROVE  a \in Seq(S) /\ Len(a) = n
  OBVIOUS

\* The positions and entries of a schedule.
LEMMA EntriesOf ==
  ASSUME NEW q \in Seq(Entry)
  PROVE  /\ Len(q) \in Nat /\ DOMAIN q = 1 .. Len(q) /\ DOMAIN q \subseteq Nat
         /\ \A k \in DOMAIN q : q[k] \in Entry /\ q[k].sf \in Subflows /\ q[k].left \in Nat
<1>1. Len(q) \in Nat /\ DOMAIN q = 1 .. Len(q) /\ \A k \in DOMAIN q : q[k] \in Entry
  OBVIOUS
<1>2. \A e \in Entry : e.sf \in Subflows /\ e.left \in Nat
  BY DEF Entry
<1> QED
  BY <1>1, <1>2

\* The places of the entries that stay are 1, 2, 3 and so on.
LEMMA PlacesAreUnique ==
  ASSUME NEW q \in Seq(Entry), NEW keep \in SUBSET DOMAIN q
  PROVE  /\ IsFiniteSet(keep) /\ Cardinality(keep) \in Nat
         /\ \A k \in keep : Place(q, keep, k) \in 1 .. Cardinality(keep)
         /\ \A j, k \in keep : j # k /\ Before(q, j, k) => Place(q, keep, j) < Place(q, keep, k)
<1> DEFINE upTo(k) == {j \in keep : Before(q, j, k)}
<1>1. IsFiniteSet(keep) /\ Cardinality(keep) \in Nat /\ keep \subseteq Nat
  <2>1. Len(q) \in Nat /\ DOMAIN q = 1 .. Len(q)
    OBVIOUS
  <2>2. IsFiniteSet(1 .. Len(q))
    BY <2>1, FS_Interval
  <2>3. keep \subseteq 1 .. Len(q) /\ keep \subseteq Nat
    BY <2>1
  <2>4. IsFiniteSet(keep)
    BY <2>2, <2>3, FS_Subset
  <2> QED
    BY <2>3, <2>4, FS_CardinalityType
<1>2. \A k \in keep : q[k].left \in Nat
  BY EntriesOf
<1>3. \A k \in keep : /\ upTo(k) \subseteq keep /\ k \in upTo(k)
                     /\ IsFiniteSet(upTo(k)) /\ Cardinality(upTo(k)) \in 1 .. Cardinality(keep)
  <2> SUFFICES ASSUME NEW k \in keep
               PROVE  /\ upTo(k) \subseteq keep /\ k \in upTo(k)
                      /\ IsFiniteSet(upTo(k)) /\ Cardinality(upTo(k)) \in 1 .. Cardinality(keep)
    OBVIOUS
  <2>1. upTo(k) \subseteq keep /\ k \in upTo(k)
    BY <1>1, <1>2 DEF Before
  <2> HIDE DEF upTo
  <2>2. IsFiniteSet(upTo(k)) /\ Cardinality(upTo(k)) <= Cardinality(keep)
    BY <1>1, <2>1, FS_Subset
  <2>3. Cardinality(upTo(k)) \in Nat /\ Cardinality(upTo(k)) # 0
    BY <2>1, <2>2, FS_CardinalityType, FS_EmptySet
  <2> QED
    BY <1>1, <2>1, <2>2, <2>3
<1>4. ASSUME NEW j \in keep, NEW k \in keep, j # k, Before(q, j, k)
      PROVE  Cardinality(upTo(j)) < Cardinality(upTo(k))
  <2>1. upTo(j) \subseteq upTo(k) /\ k \notin upTo(j) /\ k \in upTo(k)
    BY <1>1, <1>2, <1>4 DEF Before
  <2>2. IsFiniteSet(upTo(j)) /\ IsFiniteSet(upTo(k))
    BY <1>3
  <2> HIDE DEF upTo
  <2>3. Cardinality(upTo(j)) <= Cardinality(upTo(k)) /\ Cardinality(upTo(j)) # Cardinality(upTo(k))
    BY <2>1, <2>2, FS_Subset
  <2>4. Cardinality(upTo(j)) \in Nat /\ Cardinality(upTo(k)) \in Nat
    BY <2>2, FS_CardinalityType
  <2> QED
    BY <2>3, <2>4
<1>5. \A k \in keep : Place(q, keep, k) = Cardinality(upTo(k))
  BY DEF Place
<1> HIDE DEF upTo
<1> QED
  BY <1>1, <1>3, <1>4, <1>5

\* InOrder permutes the entries that stay.
LEMMA InOrderPermutes ==
  ASSUME NEW q \in Seq(Entry), NEW keep \in SUBSET DOMAIN q
  PROVE  \E pi \in [1 .. Cardinality(keep) -> keep] :
           /\ InOrder(q, keep) = [p \in 1 .. Cardinality(keep) |-> q[pi[p]]]
           /\ \A k \in keep : \E p \in 1 .. Cardinality(keep) : pi[p] = k
           /\ \A i, j \in 1 .. Cardinality(keep) : i < j => pi[i] # pi[j] /\ Before(q, pi[i], pi[j])
<1> DEFINE N == Cardinality(keep)
           place == [k \in keep |-> Place(q, keep, k)]
           pi == [p \in 1 .. N |-> CHOOSE k \in keep : Place(q, keep, k) = p]
<1>1. /\ IsFiniteSet(keep) /\ N \in Nat
      /\ \A k \in keep : Place(q, keep, k) \in 1 .. N
      /\ \A j, k \in keep : j # k /\ Before(q, j, k) => Place(q, keep, j) < Place(q, keep, k)
  BY PlacesAreUnique
<1>2. \A j, k \in keep : Before(q, j, k) \/ Before(q, k, j)
  <2>1. \A k \in keep : k \in Nat /\ q[k].left \in Nat
    BY EntriesOf
  <2> QED
    BY <2>1 DEF Before
<1> HIDE DEF N
<1>3. \A j, k \in keep : Place(q, keep, j) = Place(q, keep, k) => j = k
  BY <1>1, <1>2
<1>4. \A p \in 1 .. N : \E k \in keep : Place(q, keep, k) = p
  <2>1. place \in [keep -> 1 .. N] /\ IsInjective(place)
    BY <1>1, <1>3 DEF IsInjective
  <2>2. place \in Injection(keep, 1 .. N)
    BY <2>1 DEF Injection
  <2>3. IsFiniteSet(1 .. N) /\ Cardinality(1 .. N) = N
    BY <1>1, FS_Interval
  <2>4. Cardinality(keep) = Cardinality(1 .. N)
    BY <2>3 DEF N
  <2> HIDE DEF place
  <2>5. place \in Surjection(keep, 1 .. N)
    BY <2>2, <2>3, <2>4, FS_Injection
  <2> QED
    BY <2>5 DEF Surjection, place
<1>5. \A p \in 1 .. N : pi[p] \in keep /\ Place(q, keep, pi[p]) = p
  BY <1>4
<1>6. pi \in [1 .. N -> keep]
  BY <1>5
<1>7. InOrder(q, keep) = [p \in 1 .. N |-> q[pi[p]]]
  BY DEF InOrder, N
<1> HIDE DEF pi
<1>8. \A k \in keep : pi[Place(q, keep, k)] = k
  BY <1>1, <1>3, <1>5
<1>9. \A i, j \in 1 .. N : i < j => pi[i] # pi[j] /\ Before(q, pi[i], pi[j])
  <2> SUFFICES ASSUME NEW i \in 1 .. N, NEW j \in 1 .. N, i < j
               PROVE  pi[i] # pi[j] /\ Before(q, pi[i], pi[j])
    OBVIOUS
  <2>1. pi[i] # pi[j]
    BY <1>1, <1>5
  <2>2. ~Before(q, pi[j], pi[i])
    BY <1>1, <1>5, <2>1
  <2> QED
    BY <1>2, <1>5, <2>1, <2>2
<1>10. \A k \in keep : \E p \in 1 .. N : pi[p] = k
  BY <1>1, <1>8
<1> QED
  BY <1>6, <1>7, <1>9, <1>10 DEF N

\* So the schedule that results is sorted, has the entries that stay and no
\* other, and its first one was the first of them.
LEMMA InOrderSorts ==
  ASSUME NEW q \in Seq(Entry), NEW keep \in SUBSET DOMAIN q
  PROVE  /\ InOrder(q, keep) \in Seq(Entry)
         /\ Sorted(InOrder(q, keep))
         /\ \A p \in DOMAIN InOrder(q, keep) : \E k \in keep : InOrder(q, keep)[p] = q[k]
         /\ \A k \in keep : \E p \in DOMAIN InOrder(q, keep) : InOrder(q, keep)[p] = q[k]
         /\ InOrder(q, keep) # <<>> =>
              \E k \in keep : /\ Head(InOrder(q, keep)) = q[k]
                             /\ \A j \in keep : Before(q, k, j)
         /\ (\A j, k \in keep : q[j].sf = q[k].sf => j = k) => OnceEach(InOrder(q, keep))
<1> DEFINE N == Cardinality(keep)
           s == InOrder(q, keep)
<1>1. N \in Nat
  BY PlacesAreUnique
<1>2. PICK pi \in [1 .. N -> keep] :
           /\ s = [p \in 1 .. N |-> q[pi[p]]]
           /\ \A k \in keep : \E p \in 1 .. N : pi[p] = k
           /\ \A i, j \in 1 .. N : i < j => pi[i] # pi[j] /\ Before(q, pi[i], pi[j])
  BY InOrderPermutes
<1>3. \A k \in keep : q[k] \in Entry /\ q[k].left \in Nat /\ k \in Nat
  BY EntriesOf
<1> HIDE DEF s, N
<1>4. s \in Seq(Entry) /\ Len(s) = N /\ DOMAIN s = 1 .. N
  <2>1. s \in [1 .. N -> Entry]
    BY <1>2, <1>3
  <2> QED
    BY <1>1, <2>1
<1>5. Sorted(s)
  <2> SUFFICES ASSUME NEW i \in 1 .. N, NEW j \in 1 .. N, i <= j PROVE s[i].left <= s[j].left
    BY <1>4 DEF Sorted
  <2>1. s[i] = q[pi[i]] /\ s[j] = q[pi[j]] /\ q[pi[i]].left \in Nat
    BY <1>2, <1>3
  <2>2. CASE i = j
    BY <2>1, <2>2
  <2>3. CASE i < j
    <3>1. Before(q, pi[i], pi[j])
      BY <1>2, <2>3
    <3>2. q[pi[i]].left <= q[pi[j]].left
      BY <1>2, <1>3, <3>1 DEF Before
    <3> QED
      BY <2>1, <3>2
  <2> QED
    BY <1>1, <2>2, <2>3
<1>6. \A p \in DOMAIN s : \E k \in keep : s[p] = q[k]
  BY <1>2, <1>4
<1>7. \A k \in keep : \E p \in DOMAIN s : s[p] = q[k]
  BY <1>2, <1>4
<1>8. ASSUME s # <<>>
      PROVE  \E k \in keep : Head(s) = q[k] /\ \A j \in keep : Before(q, k, j)
  <2>1. 1 \in 1 .. N /\ Head(s) = q[pi[1]] /\ pi[1] \in keep
    BY <1>1, <1>2, <1>4, <1>8
  <2>2. \A j \in keep : Before(q, pi[1], j)
    <3> SUFFICES ASSUME NEW j \in keep PROVE Before(q, pi[1], j)
      OBVIOUS
    <3>1. PICK p \in 1 .. N : pi[p] = j
      BY <1>2
    <3>2. CASE p = 1
      BY <1>3, <3>1, <3>2 DEF Before
    <3>3. CASE p # 1
      <4>1. 1 < p
        BY <1>1, <3>3
      <4> QED
        BY <1>2, <2>1, <3>1, <4>1
    <3> QED
      BY <3>2, <3>3
  <2> QED
    BY <2>1, <2>2
<1>9. ASSUME \A j, k \in keep : q[j].sf = q[k].sf => j = k
      PROVE  OnceEach(s)
  <2> SUFFICES ASSUME NEW i \in 1 .. N, NEW j \in 1 .. N, s[i].sf = s[j].sf PROVE i = j
    BY <1>4 DEF OnceEach
  <2>1. pi[i] = pi[j]
    BY <1>2, <1>9
  <2>2. ~(i < j) /\ ~(j < i)
    BY <1>2, <2>1
  <2> QED
    BY <1>1, <2>2
<1> QED
  BY <1>4, <1>5, <1>6, <1>7, <1>8, <1>9 DEF s

--------------------------------------------------------------------------
(* Sources and their subflows                                              *)

\* SrcOf is the one source that has the subflow.
LEMMA EachSubflowHasSource ==
  /\ \A f \in Subflows : SrcOf(f) \in Sources /\ f \in ToSet(SubflowsOf[SrcOf(f)])
  /\ \A s \in Sources : \A f \in ToSet(SubflowsOf[s]) : f \in Subflows /\ SrcOf(f) = s
<1>1. \A s, t \in Sources : \A f : f \in ToSet(SubflowsOf[s]) /\ f \in ToSet(SubflowsOf[t]) => s = t
  BY NicAssumption, Zenon DEF ToSet
<1>2. \A f \in Subflows : \E s \in Sources : f \in ToSet(SubflowsOf[s])
  BY DEF Subflows
<1>3. \A s \in Sources : \A f \in ToSet(SubflowsOf[s]) : f \in Subflows
  BY DEF Subflows
<1>4. \A f \in Subflows : SrcOf(f) \in Sources /\ f \in ToSet(SubflowsOf[SrcOf(f)])
  BY <1>2 DEF SrcOf
<1> QED
  BY <1>1, <1>3, <1>4

\* What happens to subflow f leaves the other sources as finished as they were.
LEMMA DoneElsewhere ==
  ASSUME NEW f \in Subflows, NEW s \in Sources, s # SrcOf(f),
         NEW r, NEW n, NEW b, NEW r2, NEW n2, NEW b2,
         \A g \in Subflows \ {f} : r2[g] = r[g] /\ n2[g] = n[g],
         b2[s] = b[s], Done(s, r, n, b)
  PROVE  Done(s, r2, n2, b2)
<1>1. \A g \in ToSet(SubflowsOf[s]) : g \in Subflows \ {f}
  BY EachSubflowHasSource
<1> QED
  BY <1>1 DEF Done

\* A schedule that is put in order is ready if its entries are.
LEMMA OrderedIsReady ==
  ASSUME NEW q \in Seq(Entry), NEW keep \in SUBSET DOMAIN q,
         \A j, k \in keep : q[j].sf = q[k].sf => j = k,
         NEW r \in [Subflows -> Nat], NEW n \in [Subflows -> Nat], NEW b \in [Sources -> Nat],
         NEW st,
         \A k \in keep : SrcOf(q[k].sf) \in st,
         \A f \in Subflows : r[f] > 0 \/ n[f] > 0 => SrcOf(f) \in st,
         \A f \in Subflows : SrcOf(f) \in st /\ ~Done(SrcOf(f), r, n, b)
                              => \E k \in keep : q[k].sf = f
  PROVE  Ready(InOrder(q, keep), r, n, b, st)
<1> DEFINE s == InOrder(q, keep)
<1>1. /\ s \in Seq(Entry) /\ Sorted(s) /\ OnceEach(s)
      /\ \A p \in DOMAIN s : \E k \in keep : s[p] = q[k]
      /\ \A k \in keep : \E p \in DOMAIN s : s[p] = q[k]
  BY InOrderSorts
<1> HIDE DEF s
<1>2. OnlyStarted(s, r, n, st)
  BY <1>1 DEF OnlyStarted
<1>3. NoneMissing(s, r, n, b, st)
  <2> SUFFICES ASSUME NEW f \in Subflows, SrcOf(f) \in st, ~Done(SrcOf(f), r, n, b)
               PROVE  \E p \in DOMAIN s : s[p].sf = f
    BY DEF NoneMissing
  <2>1. PICK k \in keep : q[k].sf = f
    OBVIOUS
  <2> QED
    BY <1>1, <2>1
<1> QED
  BY <1>1, <1>2, <1>3 DEF Ready, s

\* Rotating moves every entry to one place.
Turn(q, k, j) == IF j <= Len(q) - k THEN j + k ELSE j + k - Len(q)

\* a has the subflows of q, moved.
Rotated(q, k, a) ==
  /\ a \in Seq(Entry) /\ DOMAIN a = DOMAIN q /\ Len(a) = Len(q)
  /\ \A j \in DOMAIN q : a[j].sf = q[Turn(q, k, j)].sf

\* Every place is taken by one entry.
TurnsOnce(q, k) ==
  /\ \A j \in DOMAIN q : Turn(q, k, j) \in DOMAIN q
  /\ \A i, j \in DOMAIN q : Turn(q, k, i) = Turn(q, k, j) => i = j
  /\ \A i \in DOMAIN q : \E j \in DOMAIN q : Turn(q, k, j) = i

\* Rotating is a bijection of the places, and gives each entry moved a new time.
LEMMA RotateMoves ==
  ASSUME NEW q \in Seq(Entry), NEW k \in 0 .. Len(q), NEW r, r \in [Subflows -> Nat],
         backlog \in [Sources -> Nat],
         NEW gap \in [Skipped(q, k) -> Gaps]
  PROVE  Rotated(q, k, Rotate(q, k, gap, r)) /\ TurnsOnce(q, k)
<1> DEFINE a == Rotate(q, k, gap, r)
<1>1. /\ Len(q) \in Nat /\ DOMAIN q = 1 .. Len(q)
      /\ \A j \in DOMAIN q : q[j] \in Entry /\ q[j].sf \in Subflows /\ q[j].left \in Nat
  BY EntriesOf
<1>2. \A j \in DOMAIN q : Turn(q, k, j) \in DOMAIN q
  BY <1>1 DEF Turn
<1>3. \A j \in DOMAIN q : a[j] \in Entry /\ a[j].sf = q[Turn(q, k, j)].sf
  <2> SUFFICES ASSUME NEW j \in DOMAIN q PROVE a[j] \in Entry /\ a[j].sf = q[Turn(q, k, j)].sf
    OBVIOUS
  <2>1. CASE j <= Len(q) - k
    BY <1>1, <2>1 DEF Rotate, Turn
  <2>2. CASE ~(j <= Len(q) - k)
    <3> DEFINE i == j + k - Len(q)
               f == q[i].sf
               t == NextTime(f, r, backlog, gap[f])
    <3>1. i \in 1 .. k /\ i \in DOMAIN q
      BY <1>1, <2>2
    <3>2. f \in Subflows /\ gap[f] \in Nat
      <4>1. f \in Skipped(q, k)
        BY <3>1 DEF Skipped
      <4> QED
        BY <1>1, <3>1, <4>1, NicAssumption
    <3> HIDE DEF f
    <3>3. t \in Nat
      BY <3>2, NicAssumption DEF NextTime
    <3>4. a[j] = [sf |-> f, left |-> t]
      BY <2>2 DEF Rotate, f
    <3>5. Turn(q, k, j) = i
      BY <2>2 DEF Turn
    <3> HIDE DEF t, i, a
    <3> QED
      BY <3>2, <3>3, <3>4, <3>5 DEF Entry, f
  <2> QED
    BY <2>1, <2>2
<1>4. a \in Seq(Entry) /\ DOMAIN a = DOMAIN q /\ Len(a) = Len(q)
  <2>1. DOMAIN a = 1 .. Len(q) /\ a = [j \in 1 .. Len(q) |-> a[j]]
    BY <1>1 DEF Rotate
  <2> HIDE DEF a
  <2>2. a \in [1 .. Len(q) -> Entry]
    BY <1>1, <1>3, <2>1
  <2>3. a \in Seq(Entry) /\ Len(a) = Len(q)
    BY <1>1, <2>2, FunctionIsSequence
  <2> QED
    BY <1>1, <2>1, <2>3
<1>5. \A i, j \in DOMAIN q : Turn(q, k, i) = Turn(q, k, j) => i = j
  BY <1>1 DEF Turn
<1>6. \A i \in DOMAIN q : \E j \in DOMAIN q : Turn(q, k, j) = i
  <2> SUFFICES ASSUME NEW i \in DOMAIN q PROVE \E j \in DOMAIN q : Turn(q, k, j) = i
    OBVIOUS
  <2>1. CASE i > k
    <3>1. i - k \in DOMAIN q /\ Turn(q, k, i - k) = i
      BY <1>1, <2>1 DEF Turn
    <3> QED
      BY <3>1
  <2>2. CASE ~(i > k)
    <3>1. i - k + Len(q) \in DOMAIN q /\ Turn(q, k, i - k + Len(q)) = i
      BY <1>1, <2>2 DEF Turn
    <3> QED
      BY <3>1
  <2> QED
    BY <2>1, <2>2
<1> HIDE DEF a
<1>7. Rotated(q, k, a)
  BY <1>3, <1>4 DEF Rotated
<1>8. TurnsOnce(q, k)
  BY <1>2, <1>5, <1>6 DEF TurnsOnce
<1> QED
  BY <1>7, <1>8 DEF a

--------------------------------------------------------------------------
(* scheduleNext                                                            *)

\* Rotating keeps a schedule a schedule of the same length.
LEMMA RotatedSchedule ==
  ASSUME NEW r, NEW n, NEW st, NEW q, Ready(q, r, n, backlog, st),
         NEW k \in 0 .. Len(q), NEW gap \in [Skipped(q, k) -> Gaps]
  PROVE  Rotated(q, k, Rotate(q, k, gap, r))
<1>1. q \in Seq(Entry) /\ r \in [Subflows -> Nat] /\ backlog \in [Sources -> Nat]
  BY DEF Ready
<1> QED
  BY <1>1, RotateMoves, Zenon

\* The subflows that remain are those of unfinished sources, each once.
LEMMA RemainingStay ==
  ASSUME NEW r, NEW n, NEW st, NEW q, Ready(q, r, n, backlog, st),
         NEW k \in 0 .. Len(q), NEW gap \in [Skipped(q, k) -> Gaps]
  PROVE  LET a == Rotate(q, k, gap, r)
             remaining == Remaining(q, k, r, n)
         IN /\ remaining \subseteq DOMAIN q
            /\ \A i, j \in DOMAIN q : a[i].sf = a[j].sf => i = j
            /\ \A j \in DOMAIN q : SrcOf(a[j].sf) \in st
            /\ \A f \in Subflows : SrcOf(f) \in st /\ ~Done(SrcOf(f), r, n, backlog)
                                    => \E j \in remaining : a[j].sf = f
<1> DEFINE a == Rotate(q, k, gap, r)
           remaining == Remaining(q, k, r, n)
<1>1. /\ q \in Seq(Entry) /\ r \in [Subflows -> Nat] /\ backlog \in [Sources -> Nat]
      /\ OnceEach(q) /\ OnlyStarted(q, r, n, st) /\ NoneMissing(q, r, n, backlog, st)
  BY DEF Ready
<1>2. /\ \A j \in DOMAIN q : Turn(q, k, j) \in DOMAIN q /\ a[j].sf = q[Turn(q, k, j)].sf
      /\ \A i, j \in DOMAIN q : Turn(q, k, i) = Turn(q, k, j) => i = j
      /\ \A i \in DOMAIN q : \E j \in DOMAIN q : Turn(q, k, j) = i
  <2>1. Rotated(q, k, Rotate(q, k, gap, r)) /\ TurnsOnce(q, k)
    BY <1>1, RotateMoves, Zenon
  <2> QED
    BY <2>1, Zenon DEF Rotated, TurnsOnce
<1>3. \A j \in DOMAIN q : j <= Len(q) - k \/ ComesBack(q[Turn(q, k, j)].sf, r, n) => j \in remaining
  BY DEF Remaining, Turn
<1>4. remaining \subseteq DOMAIN q
  BY DEF Remaining
<1> HIDE DEF a, remaining
<1>5. \A i, j \in DOMAIN q : a[i].sf = a[j].sf => i = j
  BY <1>1, <1>2 DEF OnceEach
<1>6. \A j \in DOMAIN q : SrcOf(a[j].sf) \in st
  BY <1>1, <1>2 DEF OnlyStarted
<1>7. ASSUME NEW f \in Subflows, SrcOf(f) \in st, ~Done(SrcOf(f), r, n, backlog)
      PROVE  \E j \in remaining : a[j].sf = f
  <2>1. PICK i \in DOMAIN q : q[i].sf = f
    BY <1>1, <1>7 DEF NoneMissing
  <2>2. PICK j \in DOMAIN q : Turn(q, k, j) = i
    BY <1>2
  <2>3. ComesBack(f, r, n)
    BY <1>7 DEF ComesBack, Finished, Done
  <2> QED
    BY <1>2, <1>3, <2>1, <2>2, <2>3
<1> QED
  BY <1>4, <1>5, <1>6, <1>7 DEF a, remaining

\* A subflow that sends is not of a finished source.
LEMMA SenderIsNotDone ==
  ASSUME NEW f \in Subflows, NEW r \in [Subflows -> Nat], NEW n, NEW u, CanSend(f, r, u),
         backlog \in [Sources -> Nat]
  PROVE  ~Done(SrcOf(f), r, n, backlog)
<1>1. f \in ToSet(SubflowsOf[SrcOf(f)]) /\ r[f] \in Nat /\ backlog[SrcOf(f)] \in Nat
  BY EachSubflowHasSource
<1> QED
  BY <1>1 DEF Done, CanSend

\* The subflow that is sent goes to the place of its next packet; its counts
\* change, and those of no other subflow do.
LEMMA SendDataStep ==
  ASSUME NEW r, NEW n, NEW u, NEW st, NEW q, Ready(q, r, n, backlog, st),
         NEW k \in 0 .. Len(q) - 1, NEW gap \in [Skipped(q, k) -> Gaps],
         \A j \in 1 .. k : q[j].left = 0 /\ ~CanSend(q[j].sf, r, u),
         CanSend(q[k + 1].sf, r, u),
         SendData(q[k + 1].sf, Rotate(q, k, gap, r), Remaining(q, k, r, n) \ {1}, r, n, u)
  PROVE  Ready(schedule', rtx', inFlight', backlog', st) /\ port' = SendTime
<1> DEFINE a == Rotate(q, k, gap, r)
           remaining == Remaining(q, k, r, n)
           f == q[k + 1].sf
           again == IF r[f] > 0 THEN 1 ELSE 0
<1>1. /\ q \in Seq(Entry) /\ r \in [Subflows -> Nat] /\ n \in [Subflows -> Nat]
      /\ backlog \in [Sources -> Nat]
      /\ OnlyStarted(q, r, n, st) /\ OnceEach(q) /\ NoneMissing(q, r, n, backlog, st)
  BY DEF Ready
<1>2. Len(q) \in Nat /\ DOMAIN q = 1 .. Len(q) /\ \A j \in DOMAIN q : q[j].sf \in Subflows
  BY <1>1, EntriesOf
<1>3. k \in 0 .. Len(q) /\ k + 1 \in DOMAIN q /\ f \in Subflows /\ 1 \in DOMAIN q
  BY <1>2
<1>4. /\ a \in Seq(Entry) /\ DOMAIN a = DOMAIN q /\ Len(a) = Len(q)
      /\ a[1].sf = f
  <2>1. Rotated(q, k, a)
    BY <1>3, RotatedSchedule, Zenon
  <2> HIDE DEF a
  <2>2. Turn(q, k, 1) = k + 1
    BY <1>2, <1>3 DEF Turn
  <2> QED
    BY <1>3, <2>1, <2>2 DEF Rotated
<1>5. /\ remaining \subseteq DOMAIN q
      /\ \A i, j \in DOMAIN q : a[i].sf = a[j].sf => i = j
      /\ \A j \in DOMAIN q : SrcOf(a[j].sf) \in st
      /\ \A g \in Subflows : SrcOf(g) \in st /\ ~Done(SrcOf(g), r, n, backlog)
                              => \E j \in remaining : a[j].sf = g
  BY <1>3, RemainingStay
<1>6. SrcOf(f) \in st /\ SrcOf(f) \in Sources /\ ~Done(SrcOf(f), r, n, backlog)
  BY <1>1, <1>3, SenderIsNotDone, EachSubflowHasSource DEF OnlyStarted
<1>7. /\ r[f] \in Nat /\ n[f] \in Nat /\ backlog[SrcOf(f)] \in Nat
      /\ r[f] - again \in Nat /\ backlog[SrcOf(f)] - (1 - again) \in Nat
  BY <1>1, <1>3, <1>6 DEF CanSend
<1>8. /\ rtx' = [r EXCEPT ![f] = @ - again]
      /\ backlog' = [backlog EXCEPT ![SrcOf(f)] = @ - (1 - again)]
      /\ inFlight' = [n EXCEPT ![f] = @ + 1]
      /\ port' = SendTime
  BY DEF SendData
<1>9. PICK g \in Gaps :
        schedule' = InOrder(Append(a, [sf |-> f, left |-> NextTime(f, rtx', backlog', g)]),
                            (remaining \ {1}) \cup {Len(a) + 1})
  BY Zenon DEF SendData
<1> HIDE DEF again, a, remaining, f
<1>10. /\ rtx' \in [Subflows -> Nat] /\ inFlight' \in [Subflows -> Nat]
       /\ backlog' \in [Sources -> Nat]
       /\ \A h \in Subflows \ {f} : rtx'[h] = r[h] /\ inFlight'[h] = n[h]
       /\ \A s \in Sources \ {SrcOf(f)} : backlog'[s] = backlog[s]
  BY <1>1, <1>3, <1>6, <1>7, <1>8
<1> DEFINE e == [sf |-> f, left |-> NextTime(f, rtx', backlog', g)]
           b == Append(a, e)
           keep == (remaining \ {1}) \cup {Len(a) + 1}
<1>11. e \in Entry /\ e.sf = f
  <2>1. NextTime(f, rtx', backlog', g) \in Nat
    BY NicAssumption DEF NextTime
  <2> QED
    BY <2>1, <1>3 DEF Entry
<1> HIDE DEF e
<1>12. /\ b \in Seq(Entry) /\ DOMAIN b = DOMAIN q \cup {Len(q) + 1}
       /\ b[Len(q) + 1] = e /\ \A j \in DOMAIN q : b[j] = a[j]
  <2>1. Len(a) \in Nat /\ Len(a) = Len(q) /\ DOMAIN a = 1 .. Len(a)
    BY <1>2, <1>4
  <2>2. b \in Seq(Entry) /\ Len(b) = Len(a) + 1
    BY <1>4, <1>11
  <2>3. DOMAIN b = (1 .. Len(a)) \cup {Len(a) + 1}
    BY <2>1, <2>2
  <2>4. b[Len(a) + 1] = e /\ \A j \in 1 .. Len(a) : b[j] = a[j]
    BY <1>4, <1>11, <2>1
  <2> HIDE DEF b
  <2> QED
    BY <1>2, <2>1, <2>2, <2>3, <2>4
<1> HIDE DEF b
<1>13. keep = (remaining \ {1}) \cup {Len(q) + 1}
  BY <1>4
<1> HIDE DEF keep
<1>14. keep \subseteq DOMAIN b
  BY <1>5, <1>12, <1>13
<1>15. \A i \in remaining \ {1} : b[i].sf # f
  BY <1>3, <1>4, <1>5, <1>12
<1>16. \A i, j \in keep : b[i].sf = b[j].sf => i = j
  BY <1>5, <1>11, <1>12, <1>13, <1>15
<1>17. \A i \in keep : SrcOf(b[i].sf) \in st
  BY <1>5, <1>6, <1>11, <1>12, <1>13
<1>18. \A h \in Subflows : rtx'[h] > 0 \/ inFlight'[h] > 0 => SrcOf(h) \in st
  BY <1>1, <1>6, <1>10 DEF OnlyStarted
<1>19. ASSUME NEW h \in Subflows, SrcOf(h) \in st, ~Done(SrcOf(h), rtx', inFlight', backlog')
       PROVE  \E i \in keep : b[i].sf = h
  <2>1. CASE h = f
    BY <1>11, <1>12, <1>13, <2>1
  <2>2. CASE h # f
    <3>1. ~Done(SrcOf(h), r, n, backlog)
      <4>1. CASE SrcOf(h) = SrcOf(f)
        BY <1>6, <4>1
      <4>2. CASE SrcOf(h) # SrcOf(f)
        <5>1. SrcOf(h) \in Sources
          BY EachSubflowHasSource
        <5> QED
          BY <1>3, <1>10, <1>19, <4>2, <5>1, DoneElsewhere
      <4> QED
        BY <4>1, <4>2
    <3>2. PICK j \in remaining : a[j].sf = h
      BY <1>5, <1>19, <3>1
    <3>3. j # 1
      BY <1>4, <2>2, <3>2
    <3> QED
      BY <1>5, <1>12, <1>13, <3>2, <3>3
  <2> QED
    BY <2>1, <2>2
<1>20. Ready(InOrder(b, keep), rtx', inFlight', backlog', st)
  BY <1>10, <1>12, <1>14, <1>16, <1>17, <1>18, <1>19, OrderedIsReady
<1> QED
  BY <1>8, <1>9, <1>20 DEF b, e, keep

\* An idle port has an event for the subflow that comes first.
LEMMA ScheduleDataStep ==
  ASSUME NEW r, NEW n, NEW u, NEW st, NEW q, Ready(q, r, n, backlog, st),
         NEW w \in SUBSET Nat, ScheduleData(q, w, r, n, u)
  PROVE  /\ Ready(schedule', rtx', inFlight', backlog', st)
         /\ Attended(schedule', wakeups', 0, port')
<1>1. PICK k \in 0 .. Len(q) : \E gap \in [Skipped(q, k) -> Gaps] :
        LET around == Rotate(q, k, gap, r)
            remaining == Remaining(q, k, r, n)
        IN /\ \A j \in 1 .. k : q[j].left = 0 /\ ~CanSend(q[j].sf, r, u)
           /\ \/ /\ schedule' = InOrder(around, remaining)
                 /\ wakeups' = w \cup WakeupFor(schedule')
                 /\ rtx' = r /\ inFlight' = n /\ unacked' = u /\ port' = Idle
                 /\ UNCHANGED backlog
              \/ /\ k < Len(q) /\ CanSend(q[k + 1].sf, r, u)
                 /\ SendData(q[k + 1].sf, around, remaining \ {1}, r, n, u)
                 /\ wakeups' = w
  BY Zenon DEF ScheduleData
<1>2. PICK gap \in [Skipped(q, k) -> Gaps] :
        LET around == Rotate(q, k, gap, r)
            remaining == Remaining(q, k, r, n)
        IN /\ \A j \in 1 .. k : q[j].left = 0 /\ ~CanSend(q[j].sf, r, u)
           /\ \/ /\ schedule' = InOrder(around, remaining)
                 /\ wakeups' = w \cup WakeupFor(schedule')
                 /\ rtx' = r /\ inFlight' = n /\ unacked' = u /\ port' = Idle
                 /\ UNCHANGED backlog
              \/ /\ k < Len(q) /\ CanSend(q[k + 1].sf, r, u)
                 /\ SendData(q[k + 1].sf, around, remaining \ {1}, r, n, u)
                 /\ wakeups' = w
  BY <1>1, Zenon
<1> DEFINE a == Rotate(q, k, gap, r)
           remaining == Remaining(q, k, r, n)
<1>3. /\ q \in Seq(Entry) /\ r \in [Subflows -> Nat] /\ n \in [Subflows -> Nat]
      /\ backlog \in [Sources -> Nat] /\ OnlyStarted(q, r, n, st)
  BY DEF Ready
<1>4. SendTime \in Nat /\ SendTime # Idle /\ {SendTime, Idle} \subseteq 0 .. Idle
  BY NicAssumption DEF Idle
<1>5. CASE /\ schedule' = InOrder(a, remaining)
           /\ wakeups' = w \cup WakeupFor(schedule')
           /\ rtx' = r /\ inFlight' = n /\ unacked' = u /\ port' = Idle
           /\ UNCHANGED backlog
  <2>1. Rotated(q, k, a)
    BY RotatedSchedule, Zenon
  <2>2. /\ remaining \subseteq DOMAIN q
        /\ \A i, j \in DOMAIN q : a[i].sf = a[j].sf => i = j
        /\ \A j \in DOMAIN q : SrcOf(a[j].sf) \in st
        /\ \A f \in Subflows : SrcOf(f) \in st /\ ~Done(SrcOf(f), r, n, backlog)
                              => \E j \in remaining : a[j].sf = f
    BY <1>2, RemainingStay
  <2> HIDE DEF a, remaining
  <2>0. a \in Seq(Entry) /\ DOMAIN a = DOMAIN q
    BY <2>1 DEF Rotated
  <2>3. remaining \in SUBSET DOMAIN a
    BY <2>0, <2>2
  <2>4. Ready(InOrder(a, remaining), r, n, backlog, st)
    BY <1>3, <2>0, <2>2, <2>3, OrderedIsReady DEF OnlyStarted
  <2>5. Ready(schedule', rtx', inFlight', backlog', st)
    BY <1>5, <2>4
  <2>6. schedule' \in Seq(Entry)
    BY <2>5 DEF Ready
  <2>7. WakeupFor(schedule') \subseteq Nat /\ Awake(schedule', WakeupFor(schedule'))
    <3>1. schedule' # <<>> => Head(schedule').left \in Nat
      <4>1. schedule' # <<>> => 1 \in DOMAIN schedule' /\ Head(schedule') = schedule'[1]
        BY <2>6
      <4> QED
        BY <2>6, <4>1, EntriesOf
    <3> QED
      BY <3>1 DEF WakeupFor, Awake
  <2>8. Awake(schedule', wakeups') /\ wakeups' \subseteq Nat
    BY <1>5, <2>7 DEF Awake
  <2> QED
    BY <1>4, <1>5, <2>5, <2>8 DEF Attended
<1>6. CASE /\ k < Len(q) /\ CanSend(q[k + 1].sf, r, u)
           /\ SendData(q[k + 1].sf, a, remaining \ {1}, r, n, u)
           /\ wakeups' = w
  <2>1. Len(q) \in Nat /\ k \in 0 .. Len(q) - 1
    BY <1>3, <1>6
  <2>2. Ready(schedule', rtx', inFlight', backlog', st) /\ port' = SendTime
    BY <1>2, <1>6, <2>1, SendDataStep
  <2> QED
    BY <1>4, <1>6, <2>2 DEF Attended
<1> QED
  BY <1>2, <1>5, <1>6

\* scheduleNext keeps the schedule ready, and leaves the port busy or with an
\* event for what comes first.
LEMMA ScheduleNextStep ==
  ASSUME NEW r, NEW n, NEW u, NEW st, NEW q, Ready(q, r, n, backlog, st),
         NEW w \in SUBSET Nat, NEW c \in Nat, ScheduleNext(q, c, w, r, n, u)
  PROVE  /\ Ready(schedule', rtx', inFlight', backlog', st)
         /\ Attended(schedule', wakeups', control', port')
<1>1. CASE c > 0 /\ control' = c - 1 /\ port' = SendTime
           /\ schedule' = q /\ wakeups' = w /\ rtx' = r /\ inFlight' = n /\ unacked' = u
           /\ UNCHANGED backlog
  <2>1. SendTime # Idle /\ SendTime \in 0 .. Idle
    BY NicAssumption DEF Idle
  <2>2. Ready(schedule', rtx', inFlight', backlog', st)
    BY <1>1
  <2>3. control' \in Nat
    BY <1>1
  <2> QED
    BY <1>1, <2>1, <2>2, <2>3 DEF Attended
<1>2. CASE c = 0 /\ control' = c /\ ScheduleData(q, w, r, n, u)
  BY <1>2, ScheduleDataStep
<1> QED
  BY <1>1, <1>2 DEF ScheduleNext

\* A subflow that is registered behind others relies on the event they have.
LEMMA RegisteredStep ==
  ASSUME NEW r, NEW n, NEW u, NEW st, NEW q, Ready(q, r, n, backlog, st),
         NEW f, Registered(q, f, r, n, u),
         Attended(schedule, wakeups, control, port),
         port = Idle /\ Head(q).sf # f => Awake(q, wakeups)
  PROVE  /\ Ready(schedule', rtx', inFlight', backlog', st)
         /\ Attended(schedule', wakeups', control', port')
<1>1. CASE port = Idle /\ Head(q).sf = f
  <2>1. ScheduleNext(q, control, wakeups, r, n, u) /\ control \in Nat /\ wakeups \in SUBSET Nat
    BY <1>1 DEF Registered, Attended
  <2> QED
    BY <2>1, ScheduleNextStep
<1>2. CASE ~(port = Idle /\ Head(q).sf = f)
  <2>1. /\ schedule' = q /\ rtx' = r /\ inFlight' = n /\ unacked' = u
        /\ UNCHANGED <<wakeups, control, port, backlog>>
    BY <1>2 DEF Registered
  <2>2. Ready(schedule', rtx', inFlight', backlog', st)
    BY <2>1
  <2>3. Attended(q, wakeups, control, port)
    BY <1>2 DEF Attended
  <2> QED
    BY <2>1, <2>2, <2>3
<1> QED
  BY <1>1, <1>2

--------------------------------------------------------------------------
(* The actions                                                             *)

\* New entries are due at once.  If an old one still comes first it was due as
\* well, and the event for it serves the new ones.
LEMMA OldHeadIsDue ==
  ASSUME NEW q \in Seq(Entry), NEW keep \in SUBSET DOMAIN q,
         schedule \in Seq(Entry), Sorted(schedule), Awake(schedule, wakeups),
         Len(schedule) + 1 \in keep,
         \A i \in DOMAIN schedule : q[i] = schedule[i],
         \A i \in keep : i > Len(schedule) => q[i].left = 0,
         Head(InOrder(q, keep)).sf # q[Len(schedule) + 1].sf
  PROVE  Awake(InOrder(q, keep), wakeups)
<1> DEFINE s == InOrder(q, keep)
           m == Len(schedule) + 1
<1>1. s # <<>> => \E k \in keep : Head(s) = q[k] /\ \A j \in keep : Before(q, k, j)
  BY InOrderSorts
<1> HIDE DEF s
<1>2. Len(schedule) \in Nat /\ DOMAIN schedule = 1 .. Len(schedule)
      /\ \A i \in DOMAIN schedule : schedule[i].left \in Nat
  BY EntriesOf
<1>3. \A i \in keep : i \in Nat \ {0} /\ q[i].left \in Nat
  BY EntriesOf
<1> SUFFICES ASSUME s # <<>> PROVE \E t \in wakeups : t <= Head(s).left
  BY DEF Awake, s
<1>4. PICK k \in keep : Head(s) = q[k] /\ \A j \in keep : Before(q, k, j)
  BY <1>1
<1>5. Before(q, k, m) /\ q[m].left = 0
  BY <1>2, <1>4
<1>6. q[k].left = 0 /\ k <= m
  BY <1>3, <1>5 DEF Before
<1>7. k # m
  BY <1>4 DEF s
<1>8. k \in DOMAIN schedule /\ 1 \in DOMAIN schedule
  BY <1>2, <1>3, <1>6, <1>7
<1>9. schedule[1].left <= schedule[k].left /\ schedule[k].left = 0
  BY <1>2, <1>3, <1>6, <1>8 DEF Sorted
<1>10. schedule # <<>> /\ Head(schedule) = schedule[1]
  BY <1>2, <1>8
<1> QED
  BY <1>2, <1>4, <1>6, <1>8, <1>9, <1>10 DEF Awake

\* Nothing is scheduled at first.
LEMMA InitStep ==
  Init => NicInv
<1> SUFFICES ASSUME Init PROVE NicInv
  OBVIOUS
<1>1. /\ schedule = <<>> /\ wakeups = {} /\ control = 0 /\ port = Idle /\ started = {}
      /\ backlog = NumPkts
      /\ inFlight = [f \in Subflows |-> 0] /\ rtx = [f \in Subflows |-> 0]
  BY DEF Init
<1>2. schedule \in Seq(Entry) /\ DOMAIN schedule = {}
  BY <1>1
<1>3. Sorted(schedule) /\ OnceEach(schedule)
  BY <1>2 DEF Sorted, OnceEach
<1>4. backlog \in [Sources -> Nat] /\ inFlight \in [Subflows -> Nat] /\ rtx \in [Subflows -> Nat]
  BY <1>1, NicAssumption
<1>5. OnlyStarted(schedule, rtx, inFlight, started)
  BY <1>1, <1>2 DEF OnlyStarted
<1>6. NoneMissing(schedule, rtx, inFlight, backlog, started)
  BY <1>1 DEF NoneMissing
<1>7. Idle \in 0 .. Idle
  BY NicAssumption DEF Idle
<1>8. Attended(schedule, wakeups, control, port)
  BY <1>1, <1>7 DEF Attended, Awake
<1> QED
  BY <1>1, <1>2, <1>3, <1>4, <1>5, <1>6, <1>8 DEF NicInv, Ready

\* The subflows of a source that starts are not in the schedule yet.
LEMMA StartStep ==
  ASSUME NicInv, NEW s \in Sources, Start(s)
  PROVE  NicInv'
<1> DEFINE own == SubflowsOf[s]
           new == [k \in DOMAIN own |-> Now(own[k])]
           q == schedule \o new
           keep == DOMAIN q
           st == started \cup {s}
<1>1. /\ schedule \in Seq(Entry) /\ Sorted(schedule) /\ OnceEach(schedule)
      /\ rtx \in [Subflows -> Nat] /\ inFlight \in [Subflows -> Nat] /\ backlog \in [Sources -> Nat]
      /\ OnlyStarted(schedule, rtx, inFlight, started)
      /\ NoneMissing(schedule, rtx, inFlight, backlog, started)
      /\ Attended(schedule, wakeups, control, port)
      /\ started \subseteq Sources
  BY DEF NicInv, Ready
<1>2. /\ s \notin started /\ started' = st
      /\ Registered(InOrder(q, keep), own[1], rtx, inFlight, [unacked EXCEPT ![s] = 0])
  BY DEF Start
<1>3. /\ own \in Seq(Subflows) /\ own # <<>>
      /\ \A j, k \in DOMAIN own : own[j] = own[k] => j = k
      /\ \A k \in DOMAIN own : own[k] \in Subflows /\ SrcOf(own[k]) = s
      /\ \A f \in Subflows : SrcOf(f) = s => \E k \in DOMAIN own : own[k] = f
  <2>1. own \in Seq(Subflows) /\ own # <<>> /\ \A j, k \in DOMAIN own : own[j] = own[k] => j = k
    BY NicAssumption
  <2>2. ToSet(own) = {own[k] : k \in DOMAIN own}
    BY DEF ToSet
  <2>3. \A f \in ToSet(own) : f \in Subflows /\ SrcOf(f) = s
    BY EachSubflowHasSource
  <2>4. \A f \in Subflows : SrcOf(f) = s => f \in ToSet(own)
    BY EachSubflowHasSource
  <2> HIDE DEF own
  <2> QED
    BY <2>1, <2>2, <2>3, <2>4
<1> HIDE DEF own
<1>4. Len(own) \in Nat \ {0} /\ DOMAIN own = 1 .. Len(own)
  BY <1>3
<1>5. /\ new \in Seq(Entry) /\ Len(new) = Len(own)
      /\ \A k \in 1 .. Len(own) : new[k].sf = own[k] /\ new[k].left = 0
  <2>1. new \in [1 .. Len(own) -> Entry]
    BY <1>3, <1>4 DEF Entry, Now
  <2>2. \A k \in 1 .. Len(own) : new[k].sf = own[k] /\ new[k].left = 0
    BY <1>4 DEF Now
  <2> HIDE DEF new
  <2> QED
    BY <1>4, <2>1, <2>2, FunctionIsSequence
<1> HIDE DEF new
<1>6. /\ Len(schedule) \in Nat /\ DOMAIN schedule = 1 .. Len(schedule)
      /\ \A i \in DOMAIN schedule : schedule[i].sf \in Subflows /\ schedule[i].left \in Nat
  BY <1>1, EntriesOf
<1>7. /\ q \in Seq(Entry) /\ keep = 1 .. Len(schedule) + Len(own)
      /\ \A i \in 1 .. Len(schedule) : q[i] = schedule[i]
      /\ \A i \in Len(schedule) + 1 .. Len(schedule) + Len(own) : q[i] = new[i - Len(schedule)]
  <2>1. q \in Seq(Entry) /\ Len(q) = Len(schedule) + Len(new)
    BY <1>1, <1>5, ConcatProperties
  <2>2. \A i \in 1 .. Len(schedule) + Len(new) :
          q[i] = IF i <= Len(schedule) THEN schedule[i] ELSE new[i - Len(schedule)]
    BY <1>1, <1>5, ConcatProperties
  <2>3. DOMAIN q = 1 .. Len(q)
    BY <2>1
  <2> HIDE DEF q
  <2> QED
    BY <1>4, <1>5, <1>6, <2>1, <2>2, <2>3
<1> HIDE DEF q, keep
<1> DEFINE Old == 1 .. Len(schedule)
           New == Len(schedule) + 1 .. Len(schedule) + Len(own)
<1>8. keep = Old \cup New
  BY <1>4, <1>6, <1>7
<1>9. /\ \A i \in Old : q[i].sf = schedule[i].sf /\ SrcOf(q[i].sf) \in started
      /\ \A i, j \in Old : q[i].sf = q[j].sf => i = j
  BY <1>1, <1>6, <1>7 DEF OnlyStarted, OnceEach
<1>10. \A i \in New : /\ i - Len(schedule) \in 1 .. Len(own)
                      /\ q[i].sf = own[i - Len(schedule)] /\ q[i].left = 0
  <2>1. \A i \in New : i - Len(schedule) \in 1 .. Len(own)
    BY <1>4, <1>6
  <2> QED
    BY <1>5, <1>7, <2>1
<1>11. \A i \in New : SrcOf(q[i].sf) = s
  <2> SUFFICES ASSUME NEW i \in New PROVE SrcOf(q[i].sf) = s
    OBVIOUS
  <2>1. i - Len(schedule) \in DOMAIN own /\ q[i].sf = own[i - Len(schedule)]
    BY <1>4, <1>10
  <2> QED
    BY <1>3, <2>1
<1>12. \A i, j \in New : q[i].sf = q[j].sf => i = j
  <2>1. \A i, j \in New : q[i].sf = q[j].sf => i - Len(schedule) = j - Len(schedule)
    BY <1>3, <1>4, <1>10
  <2> QED
    BY <1>4, <1>6, <2>1
<1>13. \A k \in 1 .. Len(own) : \E i \in New : q[i].sf = own[k]
  <2> SUFFICES ASSUME NEW k \in 1 .. Len(own) PROVE \E i \in New : q[i].sf = own[k]
    OBVIOUS
  <2>1. Len(schedule) + k \in New /\ (Len(schedule) + k) - Len(schedule) = k
    BY <1>4, <1>6
  <2> QED
    BY <1>10, <2>1
<1>14. Len(schedule) + 1 \in New /\ Len(schedule) + 1 \in keep
       /\ q[Len(schedule) + 1].sf = own[1]
       /\ \A i \in keep : i > Len(schedule) => i \in New
  <2>1. Len(schedule) + 1 \in New /\ (Len(schedule) + 1) - Len(schedule) = 1
    BY <1>4, <1>6
  <2> QED
    BY <1>6, <1>8, <1>10, <2>1
<1> HIDE DEF Old, New
<1>15. \A i, j \in keep : q[i].sf = q[j].sf => i = j
  BY <1>2, <1>8, <1>9, <1>11, <1>12
<1>16. \A i \in keep : SrcOf(q[i].sf) \in st
  BY <1>8, <1>9, <1>11
<1>17. \A f \in Subflows : rtx[f] > 0 \/ inFlight[f] > 0 => SrcOf(f) \in st
  BY <1>1 DEF OnlyStarted
<1>18. ASSUME NEW f \in Subflows, SrcOf(f) \in st, ~Done(SrcOf(f), rtx, inFlight, backlog)
       PROVE  \E i \in keep : q[i].sf = f
  <2>1. CASE SrcOf(f) = s
    BY <1>3, <1>4, <1>8, <1>13, <2>1
  <2>2. CASE SrcOf(f) \in started
    <3>1. PICK i \in DOMAIN schedule : schedule[i].sf = f
      BY <1>1, <1>18, <2>2 DEF NoneMissing
    <3> QED
      BY <1>6, <1>8, <1>9, <3>1 DEF Old
  <2> QED
    BY <1>18, <2>1, <2>2
<1>19. keep \in SUBSET DOMAIN q
  BY DEF keep
<1>20. Ready(InOrder(q, keep), rtx, inFlight, backlog, st)
  BY <1>1, <1>7, <1>15, <1>16, <1>17, <1>18, <1>19, OrderedIsReady
<1>21. port = Idle /\ Head(InOrder(q, keep)).sf # own[1] => Awake(InOrder(q, keep), wakeups)
  <2> SUFFICES ASSUME port = Idle, Head(InOrder(q, keep)).sf # own[1]
               PROVE  Awake(InOrder(q, keep), wakeups)
    OBVIOUS
  <2>1. Awake(schedule, wakeups)
    BY <1>1 DEF Attended
  <2>2. \A i \in keep : i > Len(schedule) => q[i].left = 0
    BY <1>10, <1>14
  <2>3. \A i \in DOMAIN schedule : q[i] = schedule[i]
    BY <1>6, <1>7
  <2> QED
    BY <1>1, <1>7, <1>14, <1>19, <2>1, <2>2, <2>3, OldHeadIsDue
<1>22. /\ Ready(schedule', rtx', inFlight', backlog', st)
       /\ Attended(schedule', wakeups', control', port')
  BY <1>1, <1>2, <1>20, <1>21, RegisteredStep
<1> QED
  BY <1>1, <1>2, <1>22 DEF NicInv

\* A packet for lost was in flight, so its source was not finished and is not.
LEMMA LoseStep ==
  ASSUME NicInv, NEW f \in Subflows, Lose(f)
  PROVE  NicInv'
<1> DEFINE r == [rtx EXCEPT ![f] = @ + 1]
           n == [inFlight EXCEPT ![f] = @ - 1]
           u == [unacked EXCEPT ![SrcOf(f)] = IF @ >= 1 THEN @ - 1 ELSE 0]
           q == Append(schedule, Now(f))
           keep == Others(schedule, f) \cup {Len(schedule) + 1}
<1>1. /\ schedule \in Seq(Entry) /\ Sorted(schedule) /\ OnceEach(schedule)
      /\ rtx \in [Subflows -> Nat] /\ inFlight \in [Subflows -> Nat] /\ backlog \in [Sources -> Nat]
      /\ OnlyStarted(schedule, rtx, inFlight, started)
      /\ NoneMissing(schedule, rtx, inFlight, backlog, started)
      /\ Attended(schedule, wakeups, control, port)
      /\ started \subseteq Sources
  BY DEF NicInv, Ready
<1>2. /\ inFlight[f] > 0 /\ started' = started
      /\ Registered(InOrder(q, keep), f, r, n, u)
  BY DEF Lose, RegisterNow
<1>3. /\ r \in [Subflows -> Nat] /\ n \in [Subflows -> Nat]
      /\ \A g \in Subflows \ {f} : r[g] = rtx[g] /\ n[g] = inFlight[g]
      /\ SrcOf(f) \in started
  BY <1>1, <1>2 DEF OnlyStarted
<1>4. /\ Len(schedule) \in Nat /\ DOMAIN schedule = 1 .. Len(schedule)
      /\ Now(f) \in Entry /\ Now(f).sf = f /\ Now(f).left = 0
  BY <1>1, EntriesOf DEF Entry, Now
<1>5. /\ q \in Seq(Entry) /\ DOMAIN q = DOMAIN schedule \cup {Len(schedule) + 1}
      /\ q[Len(schedule) + 1] = Now(f) /\ \A i \in DOMAIN schedule : q[i] = schedule[i]
  <2>1. q \in Seq(Entry) /\ Len(q) = Len(schedule) + 1
    BY <1>1, <1>4
  <2>2. DOMAIN q = (1 .. Len(schedule)) \cup {Len(schedule) + 1}
    BY <1>4, <2>1
  <2>3. q[Len(schedule) + 1] = Now(f) /\ \A i \in 1 .. Len(schedule) : q[i] = schedule[i]
    BY <1>1, <1>4
  <2> HIDE DEF q
  <2> QED
    BY <1>4, <2>1, <2>2, <2>3
<1> HIDE DEF r, n, u, q
<1>6. /\ keep \in SUBSET DOMAIN q /\ Len(schedule) + 1 \in keep
      /\ \A i \in keep : i = Len(schedule) + 1 \/ (i \in DOMAIN schedule /\ schedule[i].sf # f)
      /\ \A i \in DOMAIN schedule : schedule[i].sf # f => i \in keep
  BY <1>5 DEF Others
<1> HIDE DEF keep
<1>7. \A i, j \in keep : q[i].sf = q[j].sf => i = j
  BY <1>1, <1>4, <1>5, <1>6 DEF OnceEach
<1>8. \A i \in keep : SrcOf(q[i].sf) \in started
  BY <1>1, <1>3, <1>4, <1>5, <1>6 DEF OnlyStarted
<1>9. \A g \in Subflows : r[g] > 0 \/ n[g] > 0 => SrcOf(g) \in started
  BY <1>1, <1>3 DEF OnlyStarted
<1>10. ASSUME NEW g \in Subflows, SrcOf(g) \in started, ~Done(SrcOf(g), r, n, backlog)
       PROVE  \E i \in keep : q[i].sf = g
  <2>1. CASE g = f
    BY <1>4, <1>5, <1>6, <2>1
  <2>2. CASE g # f
    <3>1. ~Done(SrcOf(g), rtx, inFlight, backlog)
      <4>1. CASE SrcOf(g) = SrcOf(f)
        BY <1>1, <1>2, <4>1, EachSubflowHasSource DEF Done
      <4>2. CASE SrcOf(g) # SrcOf(f)
        <5>1. SrcOf(g) \in Sources
          BY EachSubflowHasSource
        <5> QED
          BY <1>3, <1>10, <4>2, <5>1, DoneElsewhere
      <4> QED
        BY <4>1, <4>2
    <3>2. PICK i \in DOMAIN schedule : schedule[i].sf = g
      BY <1>1, <1>10, <3>1 DEF NoneMissing
    <3> QED
      BY <1>5, <1>6, <2>2, <3>2
  <2> QED
    BY <2>1, <2>2
<1>11. Ready(InOrder(q, keep), r, n, backlog, started)
  BY <1>1, <1>3, <1>5, <1>6, <1>7, <1>8, <1>9, <1>10, OrderedIsReady
<1>12. port = Idle /\ Head(InOrder(q, keep)).sf # f => Awake(InOrder(q, keep), wakeups)
  <2> SUFFICES ASSUME port = Idle, Head(InOrder(q, keep)).sf # f
               PROVE  Awake(InOrder(q, keep), wakeups)
    OBVIOUS
  <2>1. Awake(schedule, wakeups)
    BY <1>1 DEF Attended
  <2>2. \A i \in keep : i > Len(schedule) => q[i].left = 0
    BY <1>4, <1>5, <1>6
  <2>3. q[Len(schedule) + 1].sf = f
    BY <1>4, <1>5
  <2> QED
    BY <1>1, <1>5, <1>6, <2>1, <2>2, <2>3, OldHeadIsDue
<1>13. /\ Ready(schedule', rtx', inFlight', backlog', started)
       /\ Attended(schedule', wakeups', control', port')
  BY <1>1, <1>2, <1>11, <1>12, RegisteredStep
<1> QED
  BY <1>1, <1>2, <1>13 DEF NicInv

\* What an answer takes away was there, so the source was not finished.  One
\* that takes nothing away changes only what the source counts.
LEMMA AckStep ==
  ASSUME NicInv, NEW f \in Subflows, Ack(f)
  PROVE  NicInv'
<1>1. /\ schedule \in Seq(Entry) /\ Sorted(schedule) /\ OnceEach(schedule)
      /\ rtx \in [Subflows -> Nat] /\ inFlight \in [Subflows -> Nat] /\ backlog \in [Sources -> Nat]
      /\ OnlyStarted(schedule, rtx, inFlight, started)
      /\ NoneMissing(schedule, rtx, inFlight, backlog, started)
      /\ Attended(schedule, wakeups, control, port)
      /\ started \subseteq Sources
  BY DEF NicInv, Ready
<1>2. UNCHANGED <<nicVars, started, backlog>>
  BY DEF Ack
<1>3. /\ inFlight[f] > 0 \/ rtx[f] > 0 \/ UNCHANGED <<inFlight, rtx>>
      /\ rtx' \in [Subflows -> Nat] /\ inFlight' \in [Subflows -> Nat]
      /\ \A g \in Subflows \ {f} : rtx'[g] = rtx[g] /\ inFlight'[g] = inFlight[g]
  <2>1. CASE inFlight[f] > 0 /\ inFlight' = [inFlight EXCEPT ![f] = @ - 1] /\ UNCHANGED rtx
    BY <1>1, <2>1
  <2>2. CASE rtx[f] > 0 /\ rtx' = [rtx EXCEPT ![f] = @ - 1] /\ UNCHANGED inFlight
    BY <1>1, <2>2
  <2>3. CASE UNCHANGED <<inFlight, rtx>>
    BY <1>1, <2>3
  <2> QED
    BY <2>1, <2>2, <2>3 DEF Ack
<1>4. OnlyStarted(schedule, rtx', inFlight', started)
  BY <1>1, <1>3 DEF OnlyStarted
<1>5. NoneMissing(schedule, rtx', inFlight', backlog, started)
  <2> SUFFICES ASSUME NEW g \in Subflows, SrcOf(g) \in started,
                      ~Done(SrcOf(g), rtx', inFlight', backlog)
               PROVE  \E k \in DOMAIN schedule : schedule[k].sf = g
    BY DEF NoneMissing
  <2>1. ~Done(SrcOf(g), rtx, inFlight, backlog)
    <3>1. CASE SrcOf(g) = SrcOf(f)
      BY <1>1, <1>3, <3>1, EachSubflowHasSource DEF Done
    <3>2. CASE SrcOf(g) # SrcOf(f)
      <4>1. SrcOf(g) \in Sources
        BY EachSubflowHasSource
      <4> QED
        BY <1>3, <3>2, <4>1, DoneElsewhere
    <3> QED
      BY <3>1, <3>2
  <2> QED
    BY <1>1, <2>1 DEF NoneMissing
<1> QED
  BY <1>1, <1>2, <1>3, <1>4, <1>5 DEF NicInv, Ready, nicVars

\* The port, an event or a control packet calls scheduleNext.
LEMMA CallStep ==
  ASSUME NicInv, SendControlPacket \/ NicEvent \/ PortDone
  PROVE  NicInv'
<1>1. /\ Ready(schedule, rtx, inFlight, backlog, started) /\ started \subseteq Sources
      /\ wakeups \in SUBSET Nat /\ wakeups \ {0} \in SUBSET Nat
      /\ control \in Nat /\ control + 1 \in Nat
      /\ port \in 0 .. Idle /\ (port = Idle => control = 0 /\ Awake(schedule, wakeups))
  BY DEF NicInv, Attended
<1>2. CASE \E c \in {control, control + 1}, w \in {wakeups, wakeups \ {0}} :
             ScheduleNext(schedule, c, w, rtx, inFlight, unacked) /\ started' = started
  <2>1. PICK c \in {control, control + 1}, w \in {wakeups, wakeups \ {0}} :
             ScheduleNext(schedule, c, w, rtx, inFlight, unacked) /\ started' = started
    BY <1>2
  <2>2. c \in Nat /\ w \in SUBSET Nat
    BY <1>1
  <2> QED
    BY <1>1, <2>1, <2>2, ScheduleNextStep DEF NicInv
<1>3. CASE /\ port # Idle /\ control' \in {control, control + 1}
           /\ wakeups' \in {wakeups, wakeups \ {0}}
           /\ UNCHANGED <<schedule, port, backlog, rtx, inFlight, started>>
  <2>1. Ready(schedule', rtx', inFlight', backlog', started')
    BY <1>1, <1>3
  <2>2. Attended(schedule', wakeups', control', port')
    BY <1>1, <1>3 DEF Attended
  <2> QED
    BY <1>1, <1>3, <2>1, <2>2 DEF NicInv
<1>4. CASE SendControlPacket
  BY <1>2, <1>3, <1>4, Zenon DEF SendControlPacket
<1>5. CASE NicEvent
  BY <1>2, <1>3, <1>5, Zenon DEF NicEvent
<1>6. CASE PortDone
  BY <1>2, <1>6, Zenon DEF PortDone
<1> QED
  BY <1>4, <1>5, <1>6

\* Time passes for the events and the schedule alike.
LEMMA TickStep ==
  ASSUME NicInv, Tick
  PROVE  NicInv'
<1>1. /\ schedule \in Seq(Entry) /\ Sorted(schedule) /\ OnceEach(schedule)
      /\ rtx \in [Subflows -> Nat] /\ inFlight \in [Subflows -> Nat] /\ backlog \in [Sources -> Nat]
      /\ OnlyStarted(schedule, rtx, inFlight, started)
      /\ NoneMissing(schedule, rtx, inFlight, backlog, started)
      /\ wakeups \subseteq Nat /\ control \in Nat /\ port \in 0 .. Idle
      /\ port = Idle => control = 0 /\ Awake(schedule, wakeups)
      /\ started \subseteq Sources
  BY DEF NicInv, Ready, Attended
<1>2. /\ 0 \notin wakeups /\ port # 0
      /\ wakeups' = {t - 1 : t \in wakeups}
      /\ port' = IF port = Idle THEN Idle ELSE port - 1
      /\ schedule' = [k \in DOMAIN schedule |->
                   [schedule[k] EXCEPT !.left = IF @ = 0 THEN 0 ELSE @ - 1]]
      /\ UNCHANGED <<control, started, backlog, inFlight, rtx>>
  BY DEF Tick
<1>3. Idle \in Nat
  BY NicAssumption DEF Idle
<1>4. /\ Len(schedule) \in Nat /\ DOMAIN schedule = 1 .. Len(schedule)
      /\ \A k \in DOMAIN schedule : schedule[k] \in Entry /\ schedule[k].left \in Nat
  BY <1>1, EntriesOf
<1>5. \A k \in DOMAIN schedule :
        /\ schedule'[k] \in Entry /\ schedule'[k].sf = schedule[k].sf
        /\ schedule'[k].left = IF schedule[k].left = 0 THEN 0 ELSE schedule[k].left - 1
  <2> SUFFICES ASSUME NEW k \in DOMAIN schedule
               PROVE  /\ schedule'[k] \in Entry /\ schedule'[k].sf = schedule[k].sf
                      /\ schedule'[k].left = IF schedule[k].left = 0 THEN 0 ELSE schedule[k].left - 1
    OBVIOUS
  <2>1. schedule'[k] = [schedule[k] EXCEPT !.left = IF @ = 0 THEN 0 ELSE @ - 1]
    BY <1>2
  <2> QED
    BY <1>4, <2>1 DEF Entry
<1>6. schedule' \in Seq(Entry) /\ Len(schedule') = Len(schedule) /\ DOMAIN schedule' = DOMAIN schedule
  <2>1. DOMAIN schedule' = DOMAIN schedule /\ schedule' = [k \in DOMAIN schedule |-> schedule'[k]]
    BY <1>2
  <2>2. schedule' \in [1 .. Len(schedule) -> Entry]
    BY <1>4, <1>5, <2>1
  <2> QED
    BY <1>4, <2>1, <2>2, FunctionIsSequence
<1>7. Sorted(schedule')
  <2> SUFFICES ASSUME NEW j \in DOMAIN schedule, NEW k \in DOMAIN schedule, j <= k
               PROVE  schedule'[j].left <= schedule'[k].left
    BY <1>6 DEF Sorted
  <2>1. schedule[j].left <= schedule[k].left
    BY <1>1 DEF Sorted
  <2> QED
    BY <1>4, <1>5, <2>1
<1>8. OnceEach(schedule')
  BY <1>1, <1>5, <1>6 DEF OnceEach
<1>9. OnlyStarted(schedule', rtx', inFlight', started')
  <2>1. \A k \in DOMAIN schedule' : SrcOf(schedule'[k].sf) \in started
    BY <1>1, <1>5, <1>6 DEF OnlyStarted
  <2>2. \A f \in Subflows : rtx[f] > 0 \/ inFlight[f] > 0 => SrcOf(f) \in started
    BY <1>1 DEF OnlyStarted
  <2> QED
    BY <1>2, <2>1, <2>2 DEF OnlyStarted
<1>10. NoneMissing(schedule', rtx', inFlight', backlog', started')
  <2> SUFFICES ASSUME NEW f \in Subflows, SrcOf(f) \in started', ~Done(SrcOf(f), rtx', inFlight', backlog')
               PROVE  \E k \in DOMAIN schedule' : schedule'[k].sf = f
    BY DEF NoneMissing
  <2>1. SrcOf(f) \in started /\ ~Done(SrcOf(f), rtx, inFlight, backlog)
    BY <1>2
  <2>2. PICK k \in DOMAIN schedule : schedule[k].sf = f
    BY <1>1, <2>1 DEF NoneMissing
  <2> QED
    BY <1>5, <1>6, <2>2
<1>11. wakeups' \subseteq Nat
  BY <1>1, <1>2
<1>12. port' \in 0 .. Idle /\ (port' = Idle => port = Idle)
  BY <1>1, <1>2, <1>3
<1>13. ASSUME Awake(schedule, wakeups) PROVE Awake(schedule', wakeups')
  <2> SUFFICES ASSUME schedule' # <<>> PROVE \E t \in wakeups' : t <= Head(schedule').left
    BY DEF Awake
  <2>1. 1 \in DOMAIN schedule /\ Head(schedule') = schedule'[1] /\ Head(schedule) = schedule[1]
    <3>1. Len(schedule') # 0
      BY <1>6
    <3> QED
      BY <1>1, <1>4, <1>6, <3>1
  <2>2. PICK t \in wakeups : t <= schedule[1].left
    <3>1. schedule # <<>>
      BY <1>4, <2>1
    <3> QED
      BY <1>13, <2>1, <3>1 DEF Awake
  <2>3. t - 1 \in wakeups' /\ t \in Nat /\ t # 0
    BY <1>1, <1>2
  <2>4. t - 1 <= schedule'[1].left
    BY <1>4, <1>5, <2>1, <2>2, <2>3
  <2> QED
    BY <2>1, <2>3, <2>4
<1>14. Attended(schedule', wakeups', control', port')
  BY <1>1, <1>2, <1>11, <1>12, <1>13 DEF Attended
<1> QED
  BY <1>1, <1>2, <1>6, <1>7, <1>8, <1>9, <1>10, <1>14 DEF NicInv, Ready

\* Every step of the host keeps the invariant.
LEMMA StepNicInv ==
  NicInv /\ [Next]_vars => NicInv'
<1> SUFFICES ASSUME NicInv, [Next]_vars PROVE NicInv'
  OBVIOUS
<1>1. CASE UNCHANGED vars
  BY <1>1 DEF NicInv, vars, nicVars
<1>2. ASSUME NEW s \in Sources, Start(s) PROVE NicInv'
  BY <1>2, StartStep
<1>3. ASSUME NEW f \in Subflows, Lose(f) PROVE NicInv'
  BY <1>3, LoseStep
<1>4. ASSUME NEW f \in Subflows, Ack(f) PROVE NicInv'
  BY <1>4, AckStep
<1>5. CASE SendControlPacket \/ NicEvent \/ PortDone
  BY <1>5, CallStep
<1>6. CASE Tick
  BY <1>6, TickStep
<1> QED
  BY <1>1, <1>2, <1>3, <1>4, <1>5, <1>6 DEF Next, Calls, Answers, EventLoop

--------------------------------------------------------------------------
(* Theorems                                                                *)

\* The schedule stays in order of time, holds each subflow of an unfinished
\* source exactly once, and an idle port has nothing to send now and an event
\* for what comes next (registerSubflowForScheduling, scheduleNext).
THEOREM NicInvariant ==
  Spec => []NicInv
<1>1. Init => NicInv
  BY InitStep
<1>2. NicInv /\ [Next]_vars => NicInv'
  BY StepNicInv
<1> QED
  BY <1>1, <1>2, PTL DEF Spec

\* While the port is idle no control packet waits and an event comes no later
\* than the next subflow is due, so the NIC is never silent with something to
\* send (scheduleNext, doNextEvent).
THEOREM NicNeverOversleeps ==
  Spec => []NoLostWakeup
<1>1. NicInv => NoLostWakeup
  BY DEF NicInv, Attended, Awake, NoLostWakeup
<1> QED
  BY <1>1, NicInvariant, PTL

\* Every subflow of an unfinished source is in the schedule, once
\* (registerSubflowForScheduling, scheduleNext).
THEOREM EachSubflowIsScheduledOnce ==
  Spec => []ScheduledOnce
<1>1. ASSUME NicInv PROVE ScheduledOnce
  <2> SUFFICES ASSUME NEW f \in Subflows
               PROVE  LET entries == {k \in DOMAIN schedule : schedule[k].sf = f}
                      IN /\ Cardinality(entries) <= 1
                         /\ SrcOf(f) \in started /\ ~Finished(SrcOf(f), rtx, inFlight) => entries # {}
    BY DEF ScheduledOnce
  <2> DEFINE entries == {k \in DOMAIN schedule : schedule[k].sf = f}
  <2>1. OnceEach(schedule) /\ NoneMissing(schedule, rtx, inFlight, backlog, started)
    BY <1>1 DEF NicInv, Ready
  <2>2. \A j, k \in entries : j = k
    BY <2>1 DEF OnceEach
  <2>3. SrcOf(f) \in started /\ ~Finished(SrcOf(f), rtx, inFlight) => entries # {}
    BY <2>1 DEF NoneMissing, Finished, Done
  <2> HIDE DEF entries
  <2>4. Cardinality(entries) <= 1
    <3>1. CASE entries = {}
      BY <3>1, FS_EmptySet
    <3>2. CASE entries # {}
      <4>1. PICK k \in entries : TRUE
        BY <3>2
      <4>2. entries = {k}
        BY <2>2, <4>1
      <4>3. Cardinality({k}) = 1
        BY FS_Singleton
      <4> QED
        BY <4>2, <4>3
    <3> QED
      BY <3>1, <3>2
  <2> QED
    BY <2>3, <2>4 DEF entries
<1> QED
  BY <1>1, NicInvariant, PTL
=============================================================================
