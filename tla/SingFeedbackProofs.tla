------------------------ MODULE SingFeedbackProofs ------------------------
(***************************************************************************)
(* What the path selector hears is what packets had to tell, for every     *)
(* number of paths, packets and transmissions.  Each transmission has one  *)
(* answer at most, and what the sink has noted leaves it with the answer   *)
(* that carries it, so a ledger of what is owed per path always balances.  *)
(***************************************************************************)
EXTENDS SingFeedback, FiniteSetTheorems, SequenceTheorems, TLAPS

\* c is the sum of a and b.
Adds(a, b, c) == a \in Nat /\ b \in Nat /\ c = a + b

--------------------------------------------------------------------------
(* Counting                                                                *)

\* Disjoint sets count together.
LEMMA CountBoth ==
  ASSUME NEW S, NEW T, IsFiniteSet(S), IsFiniteSet(T), \A x \in S : x \notin T
  PROVE  IsFiniteSet(S \cup T) /\ Adds(Cardinality(S), Cardinality(T), Cardinality(S \cup T))
<1>1. S \cap T = {}
  OBVIOUS
<1>2. Cardinality({}) = 0
  BY FS_EmptySet
<1>3. Cardinality(S) \in Nat /\ Cardinality(T) \in Nat
  BY FS_CardinalityType
<1>4. IsFiniteSet(S \cup T)
      /\ Cardinality(S \cup T) = Cardinality(S) + Cardinality(T) - Cardinality(S \cap T)
  BY FS_Union
<1>5. Cardinality(S \cap T) = 0
  BY <1>1, <1>2, Zenon
<1>6. Cardinality(S \cup T) = Cardinality(S) + Cardinality(T)
  BY <1>3, <1>4, <1>5
<1> QED
  BY <1>3, <1>4, <1>6, Zenon DEF Adds

\* T has as many members as S, which is finite.
AsMany(S, T) == IsFiniteSet(S) /\ IsFiniteSet(T) /\ Cardinality(S) = Cardinality(T)

\* One member of T for each of S.
LEMMA OneForEach ==
  ASSUME NEW S, NEW T, NEW g, IsFiniteSet(S), g \in [S -> T],
         \A x, y \in S : g[x] = g[y] => x = y,
         \A z \in T : \E x \in S : g[x] = z
  PROVE  AsMany(S, T)
<1>1. g \in Surjection(S, T) /\ g \in Injection(S, T)
  BY DEF Surjection, Injection, IsInjective
<1> QED
  BY <1>1, FS_Surjection DEF AsMany

\* Where the reports in r say the feedback f of path p.
Where(r, p, f) == {i \in DOMAIN r : r[i] = [path |-> p, feedback |-> f]}

\* The places in a finite list are finitely many.
LEMMA FinitePlaces ==
  ASSUME NEW n \in Nat, NEW S \in SUBSET (1 .. n)
  PROVE  IsFiniteSet(S) /\ Cardinality(S) \in Nat
<1>1. IsFiniteSet(1 .. n)
  BY FS_Interval
<1>2. IsFiniteSet(S)
  BY <1>1, FS_Subset
<1> QED
  BY <1>2, FS_CardinalityType

\* How often a path has been noted.
LEMMA NotedNone ==
  \A p : Noted(<<>>, p) = 0
<1>1. \A p : {i \in DOMAIN <<>> : <<>>[i] = p} = {}
  OBVIOUS
<1> QED
  BY <1>1, FS_EmptySet DEF Noted

\* How often a path is noted is a number.
LEMMA NotedIs ==
  ASSUME NEW s \in Seq(Paths), NEW p
  PROVE  Noted(s, p) \in Nat
<1>1. Len(s) \in Nat /\ {i \in DOMAIN s : s[i] = p} \in SUBSET (1 .. Len(s))
  OBVIOUS
<1> QED
  BY <1>1, FinitePlaces DEF Noted

\* So is how often its marks are.
LEMMA MarkNotesIs ==
  ASSUME NEW al, NEW f, NEW m \in Seq(Paths), NEW p
  PROVE  MarkNotes(al, f, m, p) \in Nat
BY NotedIs DEF MarkNotes

\* At the start, and after an ACK with all of them, there are none.
LEMMA MarkNotesNone ==
  ASSUME NEW al, NEW p \in Paths
  PROVE  MarkNotes(al, None, <<>>, p) = 0
BY NotedNone, FeedbackAssumption DEF MarkNotes

\* A note of one path notes it once.
LEMMA NotedOne ==
  \A q, p : Noted(<<q>>, p) = IF q = p THEN 1 ELSE 0
<1> SUFFICES ASSUME NEW q, NEW p PROVE Noted(<<q>>, p) = IF q = p THEN 1 ELSE 0
  OBVIOUS
<1> DEFINE S == {i \in DOMAIN <<q>> : <<q>>[i] = p}
<1>1. CASE q = p
  <2>1. S = {1}
    BY <1>1
  <2> QED
    BY <1>1, <2>1, FS_Singleton DEF Noted
<1>2. CASE q # p
  <2>1. S = {}
    BY <1>2
  <2> QED
    BY <1>2, <2>1, FS_EmptySet DEF Noted
<1> QED
  BY <1>1, <1>2

\* One more note counts for its path only.
LEMMA NotedAppend ==
  ASSUME NEW s \in Seq(Paths), NEW q \in Paths, NEW p
  PROVE  Noted(Append(s, q), p) = Noted(s, p) + (IF q = p THEN 1 ELSE 0)
<1> DEFINE n == Len(s)
           S == {i \in DOMAIN s : s[i] = p}
           t == Append(s, q)
           T == {i \in DOMAIN t : t[i] = p}
<1>1. n \in Nat /\ DOMAIN s = 1 .. n /\ DOMAIN t = 1 .. n + 1
  OBVIOUS
<1>2. t[n + 1] = q /\ \A i \in 1 .. n : t[i] = s[i]
  OBVIOUS
<1> HIDE DEF t, n
<1>3. IsFiniteSet(S) /\ Cardinality(S) \in Nat
  BY <1>1, FinitePlaces
<1>4. n + 1 \notin S
  <2>1. n + 1 \notin 1 .. n
    BY <1>1
  <2> QED
    BY <1>1, <2>1
<1>5. CASE q = p
  <2>1. \A i : i \in T <=> i \in S \cup {n + 1}
    BY <1>1, <1>2, <1>5
  <2>2. T = S \cup {n + 1}
    BY <2>1
  <2> HIDE DEF S, T
  <2>3. Cardinality(T) = Cardinality(S) + 1
    BY <1>3, <1>4, <2>2, FS_AddElement
  <2> QED
    BY <1>5, <2>3 DEF Noted, S, T, t
<1>6. CASE q # p
  <2>1. \A i : i \in T <=> i \in S
    BY <1>1, <1>2, <1>6
  <2>2. T = S
    BY <2>1
  <2> HIDE DEF S, T
  <2>3. Cardinality(T) = Cardinality(S) + 0
    BY <1>3, <2>2
  <2> QED
    BY <1>6, <2>3 DEF Noted, S, T, t
<1> QED
  BY <1>5, <1>6

\* What is said of a list of paths is said as often as the list names them.
LEMMA CountSaid ==
  ASSUME NEW s, NEW f, NEW p, NEW g
  PROVE  Count(Said(s, f), p, g) = IF f = g THEN Noted(s, p) ELSE 0
<1>1. DOMAIN Said(s, f) = DOMAIN s /\ \A i \in DOMAIN s : Said(s, f)[i] = [path |-> s[i], feedback |-> f]
  BY DEF Said
<1>2. \A a, b, c, d : [path |-> a, feedback |-> b] = [path |-> c, feedback |-> d] <=> a = c /\ b = d
  <2> TAKE a, b, c, d
  <2>1. [path |-> a, feedback |-> b].path = a /\ [path |-> a, feedback |-> b].feedback = b
    OBVIOUS
  <2>2. [path |-> c, feedback |-> d].path = c /\ [path |-> c, feedback |-> d].feedback = d
    OBVIOUS
  <2> QED
    BY <2>1, <2>2
<1>3. Where(Said(s, f), p, g) = IF f = g THEN {i \in DOMAIN s : s[i] = p} ELSE {}
  BY <1>1, <1>2 DEF Where
<1>4. Count(Said(s, f), p, g) = Cardinality(Where(Said(s, f), p, g))
  BY DEF Count, Where
<1> QED
  BY <1>3, <1>4, FS_EmptySet DEF Noted

\* What processEv is told of a path.
Feedback == {"good", "ecn", "nack"}

\* The reports r and s say f of path p equally often.
SayAlike(r, s, p, f) == Count(r, p, f) = Count(s, p, f)

\* Reports of something else do not count.
LEMMA CountRest ==
  ASSUME NEW r \in Seq([path : Paths, feedback : Feedback]),
         NEW s \in Seq([path : Paths, feedback : Feedback]), NEW p, NEW f,
         \A i \in DOMAIN r : r[i] # [path |-> p, feedback |-> f]
  PROVE  SayAlike(r \o s, s, p, f)
<1> DEFINE k == Len(r)
           n == Len(s)
           t == r \o s
           S == Where(s, p, f)
           T == Where(t, p, f)
           g == [i \in S |-> i + k]
<1>1. /\ k \in Nat /\ n \in Nat /\ DOMAIN r = 1 .. k /\ DOMAIN s = 1 .. n
      /\ t \in Seq([path : Paths, feedback : Feedback]) /\ Len(t) = k + n
      /\ \A i \in 1 .. k + n : t[i] = IF i <= k THEN r[i] ELSE s[i - k]
  BY ConcatProperties
<1> HIDE DEF t, k, n
<1>2. DOMAIN t = 1 .. k + n
  BY <1>1
<1>3. \A i \in S : i \in 1 .. n /\ s[i] = [path |-> p, feedback |-> f]
  BY <1>1 DEF Where
<1>4. \A j \in T : j - k \in S /\ g[j - k] = j
  <2> SUFFICES ASSUME NEW j \in T PROVE j - k \in S /\ g[j - k] = j
    OBVIOUS
  <2>1. j \in 1 .. k + n /\ t[j] = [path |-> p, feedback |-> f]
    BY <1>2 DEF Where
  <2>2. ~(j <= k)
    BY <1>1, <2>1
  <2>3. j - k \in 1 .. n /\ s[j - k] = [path |-> p, feedback |-> f] /\ (j - k) + k = j
    BY <1>1, <2>1, <2>2
  <2> QED
    BY <1>1, <2>3 DEF Where
<1>5. \A i \in S : g[i] \in T
  <2> SUFFICES ASSUME NEW i \in S PROVE i + k \in T
    OBVIOUS
  <2>1. i + k \in 1 .. k + n /\ ~(i + k <= k) /\ (i + k) - k = i
    BY <1>1, <1>3
  <2> QED
    BY <1>1, <1>2, <1>3, <2>1 DEF Where
<1>6. IsFiniteSet(S)
  BY <1>1, FinitePlaces DEF Where
<1>7. \A i, j \in S : g[i] = g[j] => i = j
  BY <1>1, <1>3
<1>8. g \in [S -> T]
  BY <1>5
<1> HIDE DEF S, T, g
<1>9. AsMany(S, T)
  BY <1>4, <1>6, <1>7, <1>8, OneForEach
<1> QED
  BY <1>9 DEF SayAlike, AsMany, Count, Where, S, T, t

\* Nor do they if they come last.
LEMMA CountHead ==
  ASSUME NEW r \in Seq([path : Paths, feedback : Feedback]),
         NEW s \in Seq([path : Paths, feedback : Feedback]), NEW p, NEW f,
         \A i \in DOMAIN s : s[i] # [path |-> p, feedback |-> f]
  PROVE  SayAlike(r \o s, r, p, f)
<1> DEFINE k == Len(r)
           n == Len(s)
           t == r \o s
<1>1. /\ k \in Nat /\ n \in Nat /\ DOMAIN r = 1 .. k /\ DOMAIN s = 1 .. n
      /\ t \in Seq([path : Paths, feedback : Feedback]) /\ Len(t) = k + n
      /\ \A i \in 1 .. k + n : t[i] = IF i <= k THEN r[i] ELSE s[i - k]
  BY ConcatProperties
<1> HIDE DEF t, k, n
<1>2. DOMAIN t = 1 .. k + n
  BY <1>1
<1>3. \A i \in Where(r, p, f) : i \in Where(t, p, f)
  BY <1>1, <1>2 DEF Where
<1>4. \A i \in Where(t, p, f) : i \in Where(r, p, f)
  <2> SUFFICES ASSUME NEW i \in Where(t, p, f) PROVE i \in Where(r, p, f)
    OBVIOUS
  <2>1. i \in 1 .. k + n /\ t[i] = [path |-> p, feedback |-> f]
    BY <1>2 DEF Where
  <2>2. ~(i <= k) => i - k \in DOMAIN s
    BY <1>1, <2>1
  <2>3. i <= k
    BY <1>1, <2>1, <2>2
  <2> QED
    BY <1>1, <2>1, <2>3 DEF Where
<1>5. Where(t, p, f) = Where(r, p, f)
  BY <1>3, <1>4
<1> QED
  BY <1>5 DEF SayAlike, Count, Where, t

--------------------------------------------------------------------------
(* What the answers on their way will say                                  *)

\* The reports of an answer are a finite list.
Listed(algorithm, a) == \E n \in Nat : DOMAIN Reports(algorithm, a) = 1 .. n

\* How often an answer will report f of path p.
Told(algorithm, a, p, f) == Count(Reports(algorithm, a), p, f)

\* A finite list of reports counts to a number.
LEMMA ToldIs ==
  ASSUME NEW al, NEW a, Listed(al, a)
  PROVE  \A p, f : Told(al, a, p, f) \in Nat
<1> SUFFICES ASSUME NEW p, NEW f PROVE Told(al, a, p, f) \in Nat
  OBVIOUS
<1>1. PICK n \in Nat : DOMAIN Reports(al, a) = 1 .. n
  BY DEF Listed
<1>2. Where(Reports(al, a), p, f) \in SUBSET (1 .. n)
  BY <1>1 DEF Where
<1>3. Cardinality(Where(Reports(al, a), p, f)) \in Nat
  BY <1>2, FinitePlaces
<1> QED
  BY <1>3 DEF Told, Count, Where

\* The pairs Under counts are finitely many.
Finite(S, al) == \A p, f : IsFiniteSet(Unheard(S, al, p, f))

\* One more answer says what it says, besides all the others.
Joins(S, a, T, al) ==
  /\ Finite(T, al)
  /\ \A p, f : Adds(Under(S, al, p, f), Told(al, a, p, f), Under(T, al, p, f))

\* An answer that joins the others adds its reports to theirs.
LEMMA UnderAdd ==
  ASSUME NEW S, NEW al, NEW a, a \notin S, Listed(al, a), Finite(S, al)
  PROVE  Joins(S, a, S \cup {a}, al)
<1> SUFFICES ASSUME NEW p, NEW f
             PROVE  /\ IsFiniteSet(Unheard(S \cup {a}, al, p, f))
                    /\ Adds(Under(S, al, p, f), Told(al, a, p, f), Under(S \cup {a}, al, p, f))
  BY DEF Joins, Finite
<1> DEFINE r == Reports(al, a)
           W == Where(r, p, f)
           U == {<<a, i>> : i \in W}
           V == Unheard(S, al, p, f)
           g == [i \in W |-> <<a, i>>]
<1>1. PICK n \in Nat : DOMAIN r = 1 .. n
  BY DEF Listed
<1>2. IsFiniteSet(W)
  BY <1>1, FinitePlaces DEF Where
<1>3. IsFiniteSet(V)
  BY DEF Finite
<1>4. Unheard(S \cup {a}, al, p, f) = V \cup U
  BY DEF Unheard, Where
<1>5. \A x \in V : x \notin U
  <2> SUFFICES ASSUME NEW x \in V, x \in U PROVE FALSE
    OBVIOUS
  <2>1. PICK b \in S : \E i : x = <<b, i>>
    BY DEF Unheard
  <2>2. PICK i \in W : x = <<a, i>>
    OBVIOUS
  <2> QED
    BY <2>1, <2>2
<1>6. AsMany(W, U)
  <2>1. g \in [W -> U] /\ (\A i, j \in W : g[i] = g[j] => i = j) /\ (\A z \in U : \E i \in W : g[i] = z)
    BY Zenon
  <2> HIDE DEF W, U, g
  <2> QED
    BY <1>2, <2>1, OneForEach
<1>7. IsFiniteSet(U) /\ Cardinality(U) = Cardinality(W)
  BY <1>6 DEF AsMany
<1> HIDE DEF V, U, W
<1>8. IsFiniteSet(V \cup U) /\ Adds(Cardinality(V), Cardinality(U), Cardinality(V \cup U))
  BY <1>3, <1>5, <1>7, CountBoth, Zenon
<1>9. Told(al, a, p, f) = Cardinality(W)
  BY DEF Told, Count, W, Where
<1> QED
  BY <1>4, <1>7, <1>8, <1>9 DEF Under, V

\* An answer that leaves the others takes its reports along.
LEMMA UnderRemove ==
  ASSUME NEW S, NEW al, NEW a \in S, Listed(al, a), Finite(S, al)
  PROVE  Finite(S \ {a}, al) /\ Joins(S \ {a}, a, S, al)
<1>1. Finite(S \ {a}, al)
  <2> SUFFICES ASSUME NEW p, NEW f PROVE IsFiniteSet(Unheard(S \ {a}, al, p, f))
    BY DEF Finite
  <2>1. IsFiniteSet(Unheard(S, al, p, f))
    BY DEF Finite
  <2>2. Unheard(S \ {a}, al, p, f) \in SUBSET Unheard(S, al, p, f)
    BY DEF Unheard
  <2> QED
    BY <2>1, <2>2, FS_Subset
<1>2. a \notin S \ {a} /\ (S \ {a}) \cup {a} = S
  OBVIOUS
<1>3. Joins(S \ {a}, a, (S \ {a}) \cup {a}, al)
  BY <1>1, <1>2, UnderAdd, Zenon
<1> QED
  BY <1>1, <1>2, <1>3, Zenon

\* What an answer with the feedback of the sink attached will say: e is the
\* path of its packet, ce its mark, end the end of a unit, g, f and m what has
\* been noted.
Carries(a, e, ce, end, g, f, m) ==
  /\ Listed(algo, a)
  /\ \A p \in Paths :
       /\ algo = "REPS_ACKAGG" => Told(algo, a, p, "good") = Noted(g, p)
       /\ algo = "REPS" => Told(algo, a, p, "good") = IF end /\ ~ce /\ e = p THEN 1 ELSE 0
       /\ algo \in {"REPS_ACKAGG", "BITMAP_ACKAGG"} =>
            Told(algo, a, p, "ecn") = MarkNotes(algo, f, m, p)
       /\ algo = "BITMAP" => Told(algo, a, p, "ecn") = IF ce /\ e = p THEN 1 ELSE 0

\* The list r has one report for each path of s.
ListOf(r, s) ==
  r \in Seq([path : Paths, feedback : Feedback]) /\ Len(s) \in Nat /\ DOMAIN r = 1 .. Len(s)

\* A list of things said is as long as the list of paths it speaks of.
LEMMA SaidListed ==
  ASSUME NEW s \in Seq(Paths), NEW f \in Feedback
  PROVE  ListOf(Said(s, f), s)
<1>1. Len(s) \in Nat /\ DOMAIN s = 1 .. Len(s) /\ \A i \in 1 .. Len(s) : s[i] \in Paths
  OBVIOUS
<1>2. Said(s, f) = [i \in 1 .. Len(s) |-> [path |-> s[i], feedback |-> f]]
  BY <1>1 DEF Said
<1>3. \A i \in 1 .. Len(s) : [path |-> s[i], feedback |-> f] \in [path : Paths, feedback : Feedback]
  BY <1>1
<1> QED
  BY <1>1, <1>2, <1>3 DEF ListOf

\* ack is the ACK makeAck builds for transmission k.
MadeAck(ack, k, e, ce, end, c) ==
  ack = [type |-> "ack", n |-> k, ev |-> e, ecn |-> ce /\ algo \in {"REPS", "BITMAP"},
         end |-> end /\ algo \in {"REPS", "BITMAP"},
         goods |-> <<>>, marks |-> <<>>, covers |-> c]

\* a is an ACK that answers transmission k.
Acks(a, k) == a.type = "ack" /\ a.n = k

\* makeAck with attachAggFeedbackToAckAndFlush or its bitmap sibling: the ACK
\* says all that has been noted, or what its own packet has to tell.
LEMMA AttachedTells ==
  ASSUME NEW ack, NEW k, NEW e \in Paths, NEW ce \in BOOLEAN, NEW end \in BOOLEAN, NEW c,
         NEW g \in Seq(Paths), NEW f \in Paths \cup {None}, NEW m \in Seq(Paths),
         MadeAck(ack, k, e, ce, end, c),
         algo \in {"REPS", "REPS_ACKAGG", "BITMAP", "BITMAP_ACKAGG"}
  PROVE  /\ Carries(Attach(ack, g, f, m), e, ce, end, g, f, m)
         /\ Acks(Attach(ack, g, f, m), k)
<1> DEFINE a == Attach(ack, g, f, m)
<1> USE DEF MadeAck, Acks
<1>1. CASE algo = "REPS_ACKAGG"
  <2> DEFINE v == IF f # None THEN f ELSE e
             r == IF f # None THEN Said(<<v>>, "ecn") ELSE <<>>
             s == Said(g, "good")
  <2>1. a = [ack EXCEPT !.goods = g, !.ecn = (f # None), !.ev = IF f # None THEN f ELSE @]
    BY <1>1 DEF Attach, AttachAggFeedback
  <2>2. a.type = "ack" /\ a.n = k /\ a.goods = g /\ a.ecn = (f # None) /\ a.ev = v
    BY <2>1
  <2>3. v \in Paths /\ <<v>> \in Seq(Paths)
    OBVIOUS
  <2> HIDE DEF a, v
  <2>4. Reports(algo, a) = r \o s
    BY <1>1, <2>2 DEF Reports, AckReports
  <2>5. /\ r \in Seq([path : Paths, feedback : Feedback])
        /\ s \in Seq([path : Paths, feedback : Feedback])
    <3>1. "good" \in Feedback /\ "ecn" \in Feedback
      BY DEF Feedback
    <3>2. ListOf(s, g)
      BY <3>1, SaidListed, Zenon
    <3>3. ListOf(Said(<<v>>, "ecn"), <<v>>)
      BY <2>3, <3>1, SaidListed, Zenon
    <3>4. <<>> \in Seq([path : Paths, feedback : Feedback])
      OBVIOUS
    <3> QED
      BY <3>2, <3>3, <3>4, Zenon DEF ListOf
  <2>6. \A p : \A i \in DOMAIN r : r[i] # [path |-> p, feedback |-> "good"]
    <3> SUFFICES ASSUME NEW p, NEW i \in DOMAIN r PROVE r[i] # [path |-> p, feedback |-> "good"]
      OBVIOUS
    <3>1. r[i].feedback = "ecn"
      BY DEF Said
    <3>2. [path |-> p, feedback |-> "good"].feedback = "good"
      OBVIOUS
    <3> QED
      BY <3>1, <3>2
  <2> HIDE DEF r
  <2>7. \A p : Told(algo, a, p, "good") = Noted(g, p)
    <3> SUFFICES ASSUME NEW p PROVE Told(algo, a, p, "good") = Noted(g, p)
      OBVIOUS
    <3>1. SayAlike(r \o s, s, p, "good")
      BY <2>5, <2>6, CountRest, Zenon
    <3>2. Count(s, p, "good") = Noted(g, p)
      BY CountSaid
    <3> QED
      BY <2>4, <3>1, <3>2 DEF Told, SayAlike
  <2>8. Listed(algo, a)
    <3>1. Len(r \o s) \in Nat /\ DOMAIN (r \o s) = 1 .. Len(r \o s)
      BY <2>5
    <3> QED
      BY <2>4, <3>1 DEF Listed
  <2>9. \A p \in Paths : Told(algo, a, p, "ecn") = IF f = p THEN 1 ELSE 0
    <3> SUFFICES ASSUME NEW p \in Paths
                 PROVE  Told(algo, a, p, "ecn") = IF f = p THEN 1 ELSE 0
      OBVIOUS
    <3>1. \A i \in DOMAIN s : s[i] # [path |-> p, feedback |-> "ecn"]
      <4> SUFFICES ASSUME NEW i \in DOMAIN s PROVE s[i] # [path |-> p, feedback |-> "ecn"]
        OBVIOUS
      <4>1. s[i].feedback = "good"
        BY DEF Said
      <4>2. [path |-> p, feedback |-> "ecn"].feedback = "ecn"
        OBVIOUS
      <4> QED
        BY <4>1, <4>2
    <3>2. SayAlike(r \o s, r, p, "ecn")
      <4> HIDE DEF s
      <4> QED
        BY <2>5, <3>1, CountHead, Zenon
    <3>3. Count(r, p, "ecn") = IF f = p THEN 1 ELSE 0
      <4>1. Count(Said(<<v>>, "ecn"), p, "ecn") = IF v = p THEN 1 ELSE 0
        BY CountSaid, NotedOne
      <4>2. Count(<<>>, p, "ecn") = 0
        <5>1. {i \in DOMAIN <<>> : <<>>[i] = [path |-> p, feedback |-> "ecn"]} = {}
          OBVIOUS
        <5> QED
          BY <5>1, FS_EmptySet DEF Count
      <4>3. None # p
        BY FeedbackAssumption
      <4>4. CASE f # None
        <5>1. r = Said(<<v>>, "ecn") /\ v = f
          BY <4>4 DEF r, v
        <5> QED
          BY <4>1, <5>1, Zenon
      <4>5. CASE f = None
        <5>1. r = <<>>
          BY <4>5 DEF r
        <5> QED
          BY <4>2, <4>3, <4>5, <5>1, Zenon
      <4> QED
        BY <4>4, <4>5
    <3> QED
      BY <2>4, <3>2, <3>3 DEF Told, SayAlike
  <2> QED
    BY <1>1, <2>2, <2>7, <2>8, <2>9 DEF Carries, MarkNotes, a
<1>2. CASE algo = "BITMAP_ACKAGG"
  <2>1. a = [ack EXCEPT !.marks = m, !.ecn = (m # <<>>)]
    BY <1>2 DEF Attach, AttachBitmapAggFeedback
  <2>2. a.type = "ack" /\ a.n = k /\ a.marks = m
    BY <2>1
  <2> HIDE DEF a
  <2>3. Reports(algo, a) = Said(m, "ecn")
    BY <1>2, <2>2 DEF Reports, AckReports
  <2>4. \A p : Told(algo, a, p, "ecn") = Noted(m, p)
    BY <2>3, CountSaid DEF Told
  <2>5. Listed(algo, a)
    <3>1. "ecn" \in Feedback
      BY DEF Feedback
    <3>2. ListOf(Said(m, "ecn"), m)
      BY <3>1, SaidListed, Zenon
    <3> QED
      BY <2>3, <3>2, Zenon DEF Listed, ListOf
  <2> QED
    BY <1>2, <2>2, <2>4, <2>5 DEF Carries, MarkNotes, a
<1>3. CASE algo \in {"REPS", "BITMAP"}
  <2> DEFINE q == IF ce THEN "ecn" ELSE "good"
  <2>1. a = ack
    BY <1>3 DEF Attach
  <2>2. a.type = "ack" /\ a.n = k /\ a.ev = e /\ a.ecn = ce /\ a.end = end
    BY <1>3, <2>1
  <2> HIDE DEF a
  <2>3. Reports(algo, a) = IF algo # "REPS" \/ end THEN Said(<<e>>, q) ELSE <<>>
    BY <1>3, <2>2 DEF Reports, AckReports, HearsAck
  <2>4. \A p, h : Count(Said(<<e>>, q), p, h) = IF q = h THEN (IF e = p THEN 1 ELSE 0) ELSE 0
    BY CountSaid, NotedOne
  <2>5. \A p, h : Count(<<>>, p, h) = 0
    <3> SUFFICES ASSUME NEW p, NEW h PROVE Count(<<>>, p, h) = 0
      OBVIOUS
    <3>1. {i \in DOMAIN <<>> : <<>>[i] = [path |-> p, feedback |-> h]} = {}
      OBVIOUS
    <3> QED
      BY <3>1, FS_EmptySet DEF Count
  <2>6. Listed(algo, a)
    <3>1. <<e>> \in Seq(Paths) /\ Len(<<e>>) = 1
      OBVIOUS
    <3>2. q \in Feedback
      BY DEF Feedback
    <3>4. ListOf(Said(<<e>>, q), <<e>>)
      BY <3>1, <3>2, SaidListed, Zenon
    <3>3. DOMAIN <<>> = 1 .. 0
      OBVIOUS
    <3> HIDE DEF q
    <3>5. DOMAIN Said(<<e>>, q) = 1 .. 1
      BY <3>1, <3>4 DEF ListOf
    <3> QED
      BY <2>3, <3>3, <3>5 DEF Listed
  <2> HIDE DEF q
  <2>7. \A p, h : Told(algo, a, p, h) =
           IF (algo # "REPS" \/ end) /\ q = h /\ e = p THEN 1 ELSE 0
    BY <2>3, <2>4, <2>5 DEF Told
  <2>8. (q = "ecn" <=> ce) /\ (q = "good" <=> ~ce)
    BY DEF q
  <2> QED
    BY <1>3, <2>2, <2>6, <2>7, <2>8 DEF Carries, a
<1> QED
  BY <1>1, <1>2, <1>3

\* buildTrimmedNack: the NACK of a packet trimmed at the last hop says whether
\* it was marked, and the NACK of another packet says neither.
LEMMA NackTells ==
  ASSUME NEW nack, NEW e \in Paths, NEW ce \in BOOLEAN, NEW last \in BOOLEAN, NEW al,
         nack.type = "nack", nack.ev = e, nack.ecn = ce, nack.lastHop = last
  PROVE  /\ Listed(al, nack)
         /\ \A p : /\ Told(al, nack, p, "good") = IF last /\ ~ce /\ e = p THEN 1 ELSE 0
                   /\ Told(al, nack, p, "ecn") = IF last /\ ce /\ e = p THEN 1 ELSE 0
<1> DEFINE q == IF ~last THEN "nack" ELSE IF ce THEN "ecn" ELSE "good"
<1>1. Reports(al, nack) = Said(<<e>>, q)
  BY DEF Reports, NackReports
<1>2. \A p, h : Count(Said(<<e>>, q), p, h) = IF q = h THEN (IF e = p THEN 1 ELSE 0) ELSE 0
  BY CountSaid, NotedOne
<1>3. <<e>> \in Seq(Paths) /\ Len(<<e>>) = 1
  OBVIOUS
<1>4. DOMAIN Said(<<e>>, q) = 1 .. 1
  <2>1. q \in Feedback
    BY DEF Feedback
  <2>2. ListOf(Said(<<e>>, q), <<e>>)
    BY <1>3, <2>1, SaidListed, Zenon
  <2> QED
    BY <1>3, <2>2 DEF ListOf
<1>5. (q = "ecn" <=> last /\ ce) /\ (q = "good" <=> last /\ ~ce)
  OBVIOUS
<1> HIDE DEF q
<1>6. Listed(al, nack)
  BY <1>1, <1>4 DEF Listed
<1>7. \A p, h : Told(al, nack, p, h) = IF q = h /\ e = p THEN 1 ELSE 0
  BY <1>1, <1>2 DEF Told
<1> QED
  BY <1>5, <1>6, <1>7

--------------------------------------------------------------------------
(* The invariant                                                           *)

FeedbackType ==
  /\ algo \in {"REPS", "REPS_ACKAGG", "BITMAP", "BITMAP_ACKAGG"}
  /\ sends \in Nat
  /\ \A x \in flight : x.n \in Nat /\ x.path \in Paths /\ x.end \in BOOLEAN
  /\ goods \in Seq(Paths) /\ marks \in Seq(Paths) /\ marked \in Seq(Paths)
  /\ firstMark \in Paths \cup {None}
  /\ owed \in [Paths -> [good : Int, mark : Int]]

\* A transmission is answered at most once: its number is neither in flight
\* twice nor in an answer while it is in flight.
OneAnswerEach ==
  /\ \A x \in flight : x.n < sends
  /\ \A x, y \in flight : x.n = y.n => x = y
  /\ \A a \in back : a.n \in Nat /\ a.n < sends /\ \A x \in flight : a.n # x.n

\* Only the policy that aggregates something notes it.
OnlyItsOwn ==
  /\ algo # "REPS_ACKAGG" => goods = <<>>
  /\ algo # "BITMAP_ACKAGG" => marks = <<>>

\* Every answer is a finite list of reports, and so are all together.
AnswersAreFinite == (\A a \in back : Listed(algo, a)) /\ Finite(back, algo)

FirstMarkIsKept ==
  algo = "REPS_ACKAGG" => firstMark = IF marked = <<>> THEN None ELSE Head(marked)

\* What is owed of each path is noted or under way.
LedgerBalances ==
  \A p \in Paths :
    /\ UsesReps => owed[p].good = Noted(goods, p) + Under(back, algo, p, "good")
    /\ algo # "REPS" => owed[p].mark = MarkNotes(algo, firstMark, marks, p) + Under(back, algo, p, "ecn")

FeedbackInv ==
  /\ FeedbackType
  /\ OneAnswerEach
  /\ OnlyItsOwn
  /\ AnswersAreFinite
  /\ FirstMarkIsKept
  /\ LedgerBalances

\* At the start nothing is owed.
LEMMA InitFeedback == Init => FeedbackInv
<1> SUFFICES ASSUME Init PROVE FeedbackInv
  OBVIOUS
<1>1. algo \in {"REPS", "REPS_ACKAGG", "BITMAP", "BITMAP_ACKAGG"}
  BY FeedbackAssumption DEF Init
<1>2. FeedbackType /\ OneAnswerEach /\ OnlyItsOwn /\ FirstMarkIsKept
  BY <1>1 DEF Init, FeedbackType, OneAnswerEach, OnlyItsOwn, FirstMarkIsKept
<1>3. back = {} /\ goods = <<>> /\ marks = <<>> /\ firstMark = None
  BY DEF Init
<1>4. \A p, f : Unheard(back, algo, p, f) = {}
  BY <1>3 DEF Unheard
<1>5. \A p, f : Under(back, algo, p, f) = 0 /\ IsFiniteSet(Unheard(back, algo, p, f))
  BY <1>4, FS_EmptySet DEF Under
<1>6. \A p \in Paths : owed[p].good = 0 /\ owed[p].mark = 0
  BY DEF Init
<1>7. \A p \in Paths : MarkNotes(algo, firstMark, marks, p) = 0
  BY <1>3, MarkNotesNone
<1> QED
  BY <1>2, <1>3, <1>5, <1>6, <1>7, NotedNone
  DEF FeedbackInv, AnswersAreFinite, Finite, LedgerBalances

--------------------------------------------------------------------------
(* The ledger                                                              *)

\* What a packet has to tell is entered for its path.
LEMMA OweEnters ==
  ASSUME FeedbackType, NEW pkt, NEW good \in BOOLEAN, NEW mark \in BOOLEAN,
         pkt.path \in Paths, Owe(pkt, good, mark)
  PROVE  /\ owed' \in [Paths -> [good : Int, mark : Int]]
         /\ \A p \in Paths :
              /\ owed'[p].good = owed[p].good + (IF good /\ pkt.path = p THEN 1 ELSE 0)
              /\ owed'[p].mark = owed[p].mark + (IF mark /\ pkt.path = p THEN 1 ELSE 0)
<1> DEFINE q == pkt.path
           more == [good |-> owed[q].good + (IF good THEN 1 ELSE 0),
                    mark |-> owed[q].mark + (IF mark THEN 1 ELSE 0)]
<1>1. owed \in [Paths -> [good : Int, mark : Int]] /\ q \in Paths
  BY DEF FeedbackType
<1>2. owed' = [owed EXCEPT ![q] = more]
  BY DEF Owe
<1>3. /\ owed[q].good \in Int /\ owed[q].mark \in Int
  BY <1>1
<1>4. /\ more \in [good : Int, mark : Int]
      /\ more.good = owed[q].good + (IF good THEN 1 ELSE 0)
      /\ more.mark = owed[q].mark + (IF mark THEN 1 ELSE 0)
  BY <1>3
<1> HIDE DEF more
<1>5. owed' \in [Paths -> [good : Int, mark : Int]]
  BY <1>1, <1>2, <1>4
<1>6. \A p \in Paths : owed'[p] = IF q = p THEN more ELSE owed[p]
  BY <1>1, <1>2
<1>7. \A p \in Paths : owed[p].good \in Int /\ owed[p].mark \in Int
  BY <1>1
<1> QED
  BY <1>4, <1>5, <1>6, <1>7

\* What an answer says is struck out when it is heard or lost.
LEMMA TellStrikes ==
  ASSUME FeedbackType, NEW a, Listed(algo, a), Tell(Reports(algo, a))
  PROVE  /\ owed' \in [Paths -> [good : Int, mark : Int]]
         /\ \A p \in Paths :
              /\ owed'[p].good = owed[p].good - Told(algo, a, p, "good")
              /\ owed'[p].mark = owed[p].mark - Told(algo, a, p, "ecn")
<1>1. owed' = [p \in Paths |-> [good |-> owed[p].good - Told(algo, a, p, "good"),
                               mark |-> owed[p].mark - Told(algo, a, p, "ecn")]]
  BY DEF Tell, Told
<1>2. \A p \in Paths : owed[p].good \in Int /\ owed[p].mark \in Int
  BY DEF FeedbackType
<1>3. \A p \in Paths : Told(algo, a, p, "good") \in Nat /\ Told(algo, a, p, "ecn") \in Nat
  BY ToldIs
<1> QED
  BY <1>1, <1>2, <1>3

\* An answer leaves the fabric, heard or lost.
LEMMA AnswerLeaves ==
  ASSUME FeedbackInv, NEW a \in back, back' = back \ {a}, Tell(Reports(algo, a)),
         UNCHANGED <<algo, sends, flight, sinkVars, marked>>
  PROVE  FeedbackInv'
<1>1. Listed(algo, a) /\ Finite(back, algo)
  BY DEF FeedbackInv, AnswersAreFinite
<1>2. Finite(back', algo) /\ Joins(back', a, back, algo)
  BY <1>1, UnderRemove
<1>3. /\ owed' \in [Paths -> [good : Int, mark : Int]]
      /\ \A p \in Paths :
           /\ owed'[p].good = owed[p].good - Told(algo, a, p, "good")
           /\ owed'[p].mark = owed[p].mark - Told(algo, a, p, "ecn")
  BY <1>1, TellStrikes DEF FeedbackInv
<1>4. /\ algo' = algo /\ sends' = sends /\ flight' = flight /\ goods' = goods /\ marks' = marks
      /\ firstMark' = firstMark /\ marked' = marked
  BY DEF sinkVars
<1>5. FeedbackType'
  BY <1>3, <1>4 DEF FeedbackInv, FeedbackType
<1>6. OneAnswerEach'
  BY <1>4 DEF FeedbackInv, OneAnswerEach
<1>7. OnlyItsOwn' /\ FirstMarkIsKept'
  BY <1>4 DEF FeedbackInv, OnlyItsOwn, FirstMarkIsKept
<1>8. AnswersAreFinite'
  BY <1>1, <1>2, <1>4 DEF FeedbackInv, AnswersAreFinite
<1>9. LedgerBalances'
  <2> SUFFICES ASSUME NEW p \in Paths
               PROVE  /\ UsesReps => owed'[p].good = Noted(goods, p) + Under(back', algo, p, "good")
                      /\ algo # "REPS" => owed'[p].mark = MarkNotes(algo, firstMark, marks, p) + Under(back', algo, p, "ecn")
    BY <1>4 DEF LedgerBalances, UsesReps
  <2>1. /\ Adds(Under(back', algo, p, "good"), Told(algo, a, p, "good"), Under(back, algo, p, "good"))
        /\ Adds(Under(back', algo, p, "ecn"), Told(algo, a, p, "ecn"), Under(back, algo, p, "ecn"))
    BY <1>2 DEF Joins
  <2>2. /\ UsesReps => owed[p].good = Noted(goods, p) + Under(back, algo, p, "good")
        /\ algo # "REPS" => owed[p].mark = MarkNotes(algo, firstMark, marks, p) + Under(back, algo, p, "ecn")
    BY DEF FeedbackInv, LedgerBalances
  <2>3. Noted(goods, p) \in Nat /\ MarkNotes(algo, firstMark, marks, p) \in Nat
    BY NotedIs, MarkNotesIs DEF FeedbackInv, FeedbackType
  <2> QED
    BY <1>3, <2>1, <2>2, <2>3 DEF Adds
<1> QED
  BY <1>5, <1>6, <1>7, <1>8, <1>9 DEF FeedbackInv

\* The answer to a packet joins those on their way, and the packet leaves.
LEMMA AnswerJoins ==
  ASSUME FeedbackInv, NEW pkt \in flight, flight' = flight \ {pkt}, NEW a,
         back' = back \cup {a}, a.n = pkt.n, Listed(algo, a), UNCHANGED srcVars
  PROVE  OneAnswerEach' /\ AnswersAreFinite' /\ Joins(back, a, back', algo)
<1>1. algo' = algo /\ sends' = sends
  BY DEF srcVars
<1>2. pkt.n \in Nat /\ pkt.n < sends
  BY DEF FeedbackInv, FeedbackType, OneAnswerEach
<1>3. OneAnswerEach'
  <2>1. \A x \in flight' : x \in flight /\ x # pkt
    OBVIOUS
  <2>2. \A x \in flight' : x.n # pkt.n
    BY <2>1 DEF FeedbackInv, OneAnswerEach
  <2>3. \A b \in back' : b \in back \/ b = a
    OBVIOUS
  <2> QED
    BY <1>1, <1>2, <2>1, <2>2, <2>3 DEF FeedbackInv, OneAnswerEach
<1>4. a \notin back
  BY DEF FeedbackInv, OneAnswerEach
<1>5. Finite(back, algo) /\ \A b \in back : Listed(algo, b)
  BY DEF FeedbackInv, AnswersAreFinite
<1>6. Joins(back, a, back', algo)
  BY <1>4, <1>5, UnderAdd, Zenon
<1>7. Finite(back', algo) /\ \A b \in back' : Listed(algo, b)
  BY <1>5, <1>6 DEF Joins
<1>8. AnswersAreFinite'
  BY <1>1, <1>7, Zenon DEF AnswersAreFinite
<1> QED
  BY <1>3, <1>6, <1>8

\* As much leaves x for t as is entered, so that y stays.
Moves(x, d, y, t) == x + d = y + t

\* A sum stays right when as much is moved from x to u as is entered.
LEMMA MoveAdds ==
  ASSUME NEW x \in Nat, NEW y \in Nat, NEW d \in Nat, NEW t, NEW u, NEW v, NEW o, NEW e,
         Adds(u, t, v), Moves(x, d, y, t), Adds(x, u, o), Adds(o, d, e)
  PROVE  Adds(y, v, e)
BY DEF Adds, Moves

\* The answer a takes what is noted along, and what is entered for path q.
Settles(a, q, good, mark) ==
  \A p \in Paths :
    /\ owed'[p].good = owed[p].good + (IF good /\ q = p THEN 1 ELSE 0)
    /\ owed'[p].mark = owed[p].mark + (IF mark /\ q = p THEN 1 ELSE 0)
    /\ UsesReps => Noted(goods, p) + (IF good /\ q = p THEN 1 ELSE 0)
                     = Noted(goods', p) + Told(algo, a, p, "good")
    /\ algo # "REPS" => MarkNotes(algo, firstMark, marks, p) + (IF mark /\ q = p THEN 1 ELSE 0)
                     = MarkNotes(algo, firstMark', marks', p) + Told(algo, a, p, "ecn")

\* The ledger balances when an answer a joins, with what it is owed for and
\* what leaves the sink's notes with it.
LEMMA JoiningBalances ==
  ASSUME FeedbackInv, NEW a, algo' = algo, Joins(back, a, back', algo),
         NEW good \in BOOLEAN, NEW mark \in BOOLEAN, NEW q,
         Settles(a, q, good, mark),
         goods' \in Seq(Paths), marks' \in Seq(Paths)
  PROVE  LedgerBalances'
<1> SUFFICES ASSUME NEW p \in Paths
             PROVE  /\ UsesReps => owed'[p].good = Noted(goods', p) + Under(back', algo, p, "good")
                    /\ algo # "REPS" => owed'[p].mark = MarkNotes(algo, firstMark', marks', p) + Under(back', algo, p, "ecn")
  BY DEF LedgerBalances, UsesReps
<1>1. /\ Adds(Under(back, algo, p, "good"), Told(algo, a, p, "good"), Under(back', algo, p, "good"))
      /\ Adds(Under(back, algo, p, "ecn"), Told(algo, a, p, "ecn"), Under(back', algo, p, "ecn"))
  BY DEF Joins
<1>2. /\ UsesReps => owed[p].good = Noted(goods, p) + Under(back, algo, p, "good")
      /\ algo # "REPS" => owed[p].mark = MarkNotes(algo, firstMark, marks, p) + Under(back, algo, p, "ecn")
  BY DEF FeedbackInv, LedgerBalances
<1>3. Noted(goods, p) \in Nat /\ MarkNotes(algo, firstMark, marks, p) \in Nat /\ Noted(goods', p) \in Nat /\ MarkNotes(algo, firstMark', marks', p) \in Nat
  BY NotedIs, MarkNotesIs DEF FeedbackInv, FeedbackType
<1> DEFINE dg == IF good /\ q = p THEN 1 ELSE 0
           dm == IF mark /\ q = p THEN 1 ELSE 0
<1>4. /\ owed'[p].good = owed[p].good + dg /\ owed'[p].mark = owed[p].mark + dm
      /\ UsesReps => Noted(goods, p) + dg = Noted(goods', p) + Told(algo, a, p, "good")
      /\ algo # "REPS" => MarkNotes(algo, firstMark, marks, p) + dm = MarkNotes(algo, firstMark', marks', p) + Told(algo, a, p, "ecn")
  BY DEF Settles
<1>5. dg \in Nat /\ dm \in Nat
  OBVIOUS
<1> HIDE DEF dg, dm
<1>6. ASSUME UsesReps PROVE owed'[p].good = Noted(goods', p) + Under(back', algo, p, "good")
  <2>1. /\ owed'[p].good = owed[p].good + dg
        /\ Noted(goods, p) + dg = Noted(goods', p) + Told(algo, a, p, "good")
        /\ owed[p].good = Noted(goods, p) + Under(back, algo, p, "good")
    BY <1>2, <1>4, <1>6, Zenon
  <2>2. Under(back, algo, p, "good") \in Nat
    BY <1>1 DEF Adds
  <2>3. Adds(Noted(goods, p), Under(back, algo, p, "good"), owed[p].good)
    BY <1>3, <2>1, <2>2, Zenon DEF Adds
  <2>4. owed[p].good \in Nat
    BY <2>3 DEF Adds
  <2>5. Adds(owed[p].good, dg, owed'[p].good)
    BY <1>5, <2>1, <2>4, Zenon DEF Adds
  <2>6. Moves(Noted(goods, p), dg, Noted(goods', p), Told(algo, a, p, "good"))
    BY <2>1, Zenon DEF Moves
  <2>7. Adds(Noted(goods', p), Under(back', algo, p, "good"), owed'[p].good)
    BY <1>1, <1>3, <1>5, <2>3, <2>5, <2>6, MoveAdds
  <2> QED
    BY <2>7, Zenon DEF Adds
<1>7. ASSUME algo # "REPS" PROVE owed'[p].mark = MarkNotes(algo, firstMark', marks', p) + Under(back', algo, p, "ecn")
  <2>1. /\ owed'[p].mark = owed[p].mark + dm
        /\ MarkNotes(algo, firstMark, marks, p) + dm = MarkNotes(algo, firstMark', marks', p) + Told(algo, a, p, "ecn")
        /\ owed[p].mark = MarkNotes(algo, firstMark, marks, p) + Under(back, algo, p, "ecn")
    BY <1>2, <1>4, <1>7, Zenon
  <2>2. Under(back, algo, p, "ecn") \in Nat
    BY <1>1 DEF Adds
  <2>3. Adds(MarkNotes(algo, firstMark, marks, p), Under(back, algo, p, "ecn"), owed[p].mark)
    BY <1>3, <2>1, <2>2, Zenon DEF Adds
  <2>4. owed[p].mark \in Nat
    BY <2>3 DEF Adds
  <2>5. Adds(owed[p].mark, dm, owed'[p].mark)
    BY <1>5, <2>1, <2>4, Zenon DEF Adds
  <2>6. Moves(MarkNotes(algo, firstMark, marks, p), dm, MarkNotes(algo, firstMark', marks', p), Told(algo, a, p, "ecn"))
    BY <2>1, Zenon DEF Moves
  <2>7. Adds(MarkNotes(algo, firstMark', marks', p), Under(back', algo, p, "ecn"), owed'[p].mark)
    BY <1>1, <1>3, <1>5, <2>3, <2>5, <2>6, MoveAdds
  <2> QED
    BY <2>7, Zenon DEF Adds
<1> QED
  BY <1>6, <1>7, Zenon

--------------------------------------------------------------------------
(* The sink                                                                *)

\* What a packet adds to the notes of the sink.
LEMMA NotesOfPacket ==
  ASSUME FeedbackInv, NEW pkt \in flight, NEW ce \in BOOLEAN
  PROVE  /\ NoteGood(pkt, ce) \in Seq(Paths)
         /\ NoteMark(pkt, ce) \in Seq(Paths)
         /\ NoteFirst(pkt, ce) \in Paths \cup {None}
         /\ SinceLastAck(pkt, ce) \in Seq(Paths)
         /\ algo # "REPS_ACKAGG" => NoteGood(pkt, ce) = <<>>
         /\ algo # "BITMAP_ACKAGG" => NoteMark(pkt, ce) = <<>>
         /\ algo = "REPS_ACKAGG" =>
              NoteFirst(pkt, ce) = IF SinceLastAck(pkt, ce) = <<>> THEN None
                                   ELSE Head(SinceLastAck(pkt, ce))
         /\ \A p \in Paths :
              /\ Noted(NoteGood(pkt, ce), p) = Noted(goods, p) +
                   (IF (algo = "REPS_ACKAGG" /\ ~ce) /\ pkt.path = p THEN 1 ELSE 0)
              /\ MarkNotes(algo, NoteFirst(pkt, ce), NoteMark(pkt, ce), p) =
                   MarkNotes(algo, firstMark, marks, p) +
                     (IF (algo \in {"REPS_ACKAGG", "BITMAP_ACKAGG"} /\ TellsMark(ce)) /\ pkt.path = p
                      THEN 1 ELSE 0)
<1>1. /\ goods \in Seq(Paths) /\ marks \in Seq(Paths) /\ marked \in Seq(Paths)
      /\ firstMark \in Paths \cup {None} /\ pkt.path \in Paths
  BY DEF FeedbackInv, FeedbackType
<1>2. /\ NoteGood(pkt, ce) \in Seq(Paths)
      /\ NoteMark(pkt, ce) \in Seq(Paths)
      /\ NoteFirst(pkt, ce) \in Paths \cup {None}
      /\ SinceLastAck(pkt, ce) \in Seq(Paths)
  BY <1>1 DEF NoteGood, NoteMark, NoteFirst, SinceLastAck
<1>3. /\ algo # "REPS_ACKAGG" => NoteGood(pkt, ce) = <<>>
      /\ algo # "BITMAP_ACKAGG" => NoteMark(pkt, ce) = <<>>
  BY DEF NoteGood, NoteMark, FeedbackInv, OnlyItsOwn
<1>4. ASSUME algo = "REPS_ACKAGG"
      PROVE  NoteFirst(pkt, ce) = IF SinceLastAck(pkt, ce) = <<>> THEN None
                                  ELSE Head(SinceLastAck(pkt, ce))
  <2>1. firstMark = IF marked = <<>> THEN None ELSE Head(marked)
    BY <1>4 DEF FeedbackInv, FirstMarkIsKept
  <2>2. marked # <<>> => Head(marked) \in Paths /\ Head(marked) # None
    BY <1>1, FeedbackAssumption
  <2>3. Append(marked, pkt.path) # <<>>
    BY <1>1
  <2>4. Head(Append(marked, pkt.path)) = IF marked = <<>> THEN pkt.path ELSE Head(marked)
    BY <1>1
  <2> QED
    BY <1>4, <2>1, <2>2, <2>3, <2>4 DEF NoteFirst, SinceLastAck
<1>5. ASSUME NEW p \in Paths
      PROVE  Noted(NoteGood(pkt, ce), p) = Noted(goods, p) +
               (IF (algo = "REPS_ACKAGG" /\ ~ce) /\ pkt.path = p THEN 1 ELSE 0)
  <2>1. Noted(goods, p) \in Nat
    BY <1>1, NotedIs
  <2>2. Noted(Append(goods, pkt.path), p) = Noted(goods, p) + (IF pkt.path = p THEN 1 ELSE 0)
    BY <1>1, NotedAppend
  <2> QED
    BY <2>1, <2>2 DEF NoteGood
<1>6. ASSUME NEW p \in Paths
      PROVE  MarkNotes(algo, NoteFirst(pkt, ce), NoteMark(pkt, ce), p) =
               MarkNotes(algo, firstMark, marks, p) +
                 (IF (algo \in {"REPS_ACKAGG", "BITMAP_ACKAGG"} /\ TellsMark(ce)) /\ pkt.path = p
                  THEN 1 ELSE 0)
  <2>1. CASE algo = "REPS_ACKAGG"
    <3>1. firstMark = IF marked = <<>> THEN None ELSE Head(marked)
      BY <2>1 DEF FeedbackInv, FirstMarkIsKept
    <3>2. None # p /\ (marked # <<>> => Head(marked) # None)
      BY <1>1, FeedbackAssumption
    <3>3. NoteFirst(pkt, ce) = IF TellsMark(ce) THEN pkt.path ELSE firstMark
      BY <2>1, <3>1, <3>2 DEF NoteFirst, TellsMark
    <3>4. TellsMark(ce) => firstMark = None
      BY <2>1, <3>1 DEF TellsMark
    <3> QED
      BY <2>1, <3>2, <3>3, <3>4 DEF MarkNotes
  <2>2. CASE algo = "BITMAP_ACKAGG"
    <3>1. Noted(marks, p) \in Nat
      BY <1>1, NotedIs
    <3>2. Noted(Append(marks, pkt.path), p) = Noted(marks, p) + (IF pkt.path = p THEN 1 ELSE 0)
      BY <1>1, NotedAppend
    <3>3. TellsMark(ce) <=> ce
      BY <2>2 DEF TellsMark
    <3> QED
      BY <2>2, <3>1, <3>2, <3>3 DEF MarkNotes, NoteMark
  <2>3. CASE ~(algo \in {"REPS_ACKAGG", "BITMAP_ACKAGG"})
    <3>1. Noted(marks, p) \in Nat
      BY <1>1, NotedIs
    <3> QED
      BY <2>3, <3>1 DEF MarkNotes, NoteMark
  <2> QED
    BY <2>1, <2>2, <2>3
<1> QED
  BY <1>2, <1>3, <1>4, <1>5, <1>6

\* The notes g, f and m that go with the answer hold what was noted before and
\* what the packet has to tell; without notes the packet's own ACK tells it.
Gathers(pkt, good, mark, ce, end, g, f, m) ==
  /\ algo = "REPS" => (good <=> end /\ ~ce)
  /\ algo = "BITMAP" => (mark <=> ce)
  /\ \A p \in Paths :
       /\ algo = "REPS_ACKAGG" =>
            Noted(g, p) = Noted(goods, p) + (IF good /\ pkt.path = p THEN 1 ELSE 0)
       /\ algo \in {"REPS_ACKAGG", "BITMAP_ACKAGG"} =>
            MarkNotes(algo, f, m, p) =
              MarkNotes(algo, firstMark, marks, p) + (IF mark /\ pkt.path = p THEN 1 ELSE 0)

\* A packet that is answered by an ACK with the notes attached.
LEMMA SinkAnswers ==
  ASSUME FeedbackInv, NEW pkt \in flight, flight' = flight \ {pkt},
         NEW ce \in BOOLEAN, NEW end \in BOOLEAN, NEW good \in BOOLEAN, NEW mark \in BOOLEAN,
         NEW g \in Seq(Paths), NEW f \in Paths \cup {None}, NEW m \in Seq(Paths),
         Gathers(pkt, good, mark, ce, end, g, f, m), Owe(pkt, good, mark),
         Answer(PlainAck(pkt, ce, end), g, f, m), UNCHANGED srcVars
  PROVE  FeedbackInv'
<1> DEFINE ack == PlainAck(pkt, ce, end)
           a == Attach(ack, g, f, m)
           q == pkt.path
<1>1. /\ algo \in {"REPS", "REPS_ACKAGG", "BITMAP", "BITMAP_ACKAGG"} /\ q \in Paths
      /\ sends \in Nat
  BY DEF FeedbackInv, FeedbackType
<1>2. MadeAck(ack, pkt.n, q, ce, end, received')
  BY DEF PlainAck, MadeAck
<1>3. back' = back \cup {a}
  BY Zenon DEF Answer
<1>4. goods' = <<>> /\ firstMark' = None /\ marks' = <<>> /\ marked' = <<>>
  BY DEF Answer, Flush
<1>5. algo' = algo /\ sends' = sends
  BY DEF srcVars
<1> HIDE DEF ack, q
<1>6. Carries(a, q, ce, end, g, f, m) /\ Acks(a, pkt.n)
  BY <1>1, <1>2, AttachedTells, Zenon
<1> HIDE DEF a
<1>7. Listed(algo, a) /\ a.n = pkt.n
  BY <1>6 DEF Carries, Acks
<1>8. OneAnswerEach' /\ AnswersAreFinite' /\ Joins(back, a, back', algo)
  BY <1>3, <1>7, AnswerJoins
<1>9. /\ owed' \in [Paths -> [good : Int, mark : Int]]
      /\ \A p \in Paths :
           /\ owed'[p].good = owed[p].good + (IF good /\ q = p THEN 1 ELSE 0)
           /\ owed'[p].mark = owed[p].mark + (IF mark /\ q = p THEN 1 ELSE 0)
  BY <1>1, OweEnters DEF FeedbackInv, q
<1>10. FeedbackType'
  BY <1>1, <1>4, <1>5, <1>9 DEF FeedbackInv, FeedbackType
<1>11. OnlyItsOwn' /\ FirstMarkIsKept'
  BY <1>4 DEF OnlyItsOwn, FirstMarkIsKept
<1>12. \A p \in Paths :
         /\ UsesReps => Noted(goods, p) + (IF good /\ q = p THEN 1 ELSE 0)
                          = Noted(goods', p) + Told(algo, a, p, "good")
         /\ algo # "REPS" => MarkNotes(algo, firstMark, marks, p) + (IF mark /\ q = p THEN 1 ELSE 0)
                               = MarkNotes(algo, firstMark', marks', p) + Told(algo, a, p, "ecn")
  <2> TAKE p \in Paths
  <2>1. Noted(goods', p) = 0 /\ MarkNotes(algo, firstMark', marks', p) = 0
    BY <1>4, NotedNone, MarkNotesNone
  <2>2. Noted(g, p) \in Nat /\ MarkNotes(algo, f, m, p) \in Nat
    BY NotedIs, MarkNotesIs
  <2>7. ASSUME algo \in {"REPS_ACKAGG", "BITMAP_ACKAGG"}
        PROVE  MarkNotes(algo, firstMark, marks, p) + (IF mark /\ q = p THEN 1 ELSE 0)
                 = MarkNotes(algo, firstMark', marks', p) + Told(algo, a, p, "ecn")
    <3>1. Told(algo, a, p, "ecn") = MarkNotes(algo, f, m, p)
      BY <1>6, <2>7, Zenon DEF Carries
    <3>2. MarkNotes(algo, f, m, p) =
            MarkNotes(algo, firstMark, marks, p) + (IF mark /\ q = p THEN 1 ELSE 0)
      BY <2>7, Zenon DEF Gathers, q
    <3> QED
      BY <2>1, <2>2, <3>1, <3>2
  <2>3. CASE algo = "REPS_ACKAGG"
    <3>1. UsesReps /\ Told(algo, a, p, "good") = Noted(g, p)
      BY <1>6, <2>3 DEF Carries, UsesReps
    <3>2. Noted(g, p) = Noted(goods, p) + (IF good /\ q = p THEN 1 ELSE 0)
      BY <2>3 DEF Gathers, q
    <3> QED
      BY <2>1, <2>2, <2>3, <2>7, <3>1, <3>2
  <2>4. CASE algo = "REPS"
    <3>1. UsesReps /\ Told(algo, a, p, "good") = IF end /\ ~ce /\ q = p THEN 1 ELSE 0
      BY <1>6, <2>4 DEF Carries, UsesReps
    <3>2. Noted(goods, p) = 0 /\ (good <=> end /\ ~ce)
      BY <2>4, NotedNone DEF Gathers, FeedbackInv, OnlyItsOwn
    <3> QED
      BY <2>1, <2>4, <3>1, <3>2
  <2>5. CASE algo = "BITMAP_ACKAGG"
    BY <2>5, <2>7 DEF UsesReps
  <2>6. CASE algo = "BITMAP"
    <3>1. algo # "REPS" /\ Told(algo, a, p, "ecn") = IF ce /\ q = p THEN 1 ELSE 0
      BY <1>6, <2>6 DEF Carries, UsesReps
    <3>2. MarkNotes(algo, firstMark, marks, p) = 0
      BY <2>6, NotedNone DEF FeedbackInv, OnlyItsOwn, MarkNotes
    <3>3. mark <=> ce
      BY <2>6 DEF Gathers
    <3>4. ~UsesReps
      BY <2>6 DEF UsesReps
    <3> QED
      BY <2>1, <3>1, <3>2, <3>3, <3>4
  <2> QED
    BY <1>1, <2>3, <2>4, <2>5, <2>6
<1>13. goods' \in Seq(Paths) /\ marks' \in Seq(Paths)
  BY <1>4
<1>14. Settles(a, q, good, mark)
  BY <1>9, <1>12, Zenon DEF Settles
<1>15. LedgerBalances'
  BY <1>5, <1>8, <1>13, <1>14, JoiningBalances, Zenon
<1> QED
  BY <1>8, <1>10, <1>11, <1>15 DEF FeedbackInv

\* The answers stay when a packet is noted or lost.
LEMMA NoAnswer ==
  ASSUME FeedbackInv, NEW pkt \in flight, flight' = flight \ {pkt}, UNCHANGED <<srcVars, back>>
  PROVE  OneAnswerEach' /\ AnswersAreFinite'
<1>1. algo' = algo /\ sends' = sends /\ back' = back
  BY DEF srcVars
<1>2. OneAnswerEach'
  BY <1>1 DEF FeedbackInv, OneAnswerEach
<1> QED
  BY <1>1, <1>2 DEF FeedbackInv, AnswersAreFinite

\* processData for a new packet.
LEMMA NewKeeps ==
  ASSUME FeedbackInv, NEW pkt \in flight, flight' = flight \ {pkt}, UNCHANGED srcVars,
         NEW ce \in BOOLEAN, ReceiveNew(pkt, ce)
  PROVE  FeedbackInv'
<1>1. /\ algo \in {"REPS", "REPS_ACKAGG", "BITMAP", "BITMAP_ACKAGG"} /\ pkt.end \in BOOLEAN
      /\ pkt.path \in Paths
  BY DEF FeedbackInv, FeedbackType
<1> DEFINE g == NoteGood(pkt, ce)
           f == NoteFirst(pkt, ce)
           m == NoteMark(pkt, ce)
           w == SinceLastAck(pkt, ce)
           good == TellsGood(pkt, ce)
           mark == TellsMark(ce)
<1>2. /\ g \in Seq(Paths) /\ m \in Seq(Paths) /\ f \in Paths \cup {None} /\ w \in Seq(Paths)
      /\ algo # "REPS_ACKAGG" => g = <<>>
      /\ algo # "BITMAP_ACKAGG" => m = <<>>
      /\ algo = "REPS_ACKAGG" => f = IF w = <<>> THEN None ELSE Head(w)
      /\ \A p \in Paths :
           /\ Noted(g, p) = Noted(goods, p) +
                (IF (algo = "REPS_ACKAGG" /\ ~ce) /\ pkt.path = p THEN 1 ELSE 0)
           /\ MarkNotes(algo, f, m, p) = MarkNotes(algo, firstMark, marks, p) +
                (IF (algo \in {"REPS_ACKAGG", "BITMAP_ACKAGG"} /\ mark) /\ pkt.path = p THEN 1 ELSE 0)
  BY NotesOfPacket
<1>3. good \in BOOLEAN /\ (good <=> ~ce /\ (algo = "REPS_ACKAGG" \/ (algo = "REPS" /\ pkt.end)))
  BY Zenon DEF TellsGood
<1>8. mark \in BOOLEAN /\ (mark => ce) /\ (algo # "REPS_ACKAGG" => (mark <=> ce))
  BY Zenon DEF TellsMark
<1>4. Owe(pkt, good, mark)
  BY Zenon DEF ReceiveNew
<1>5. \/ Answer(PlainAck(pkt, ce, pkt.end), g, f, m)
      \/ /\ algo \in {"REPS", "BITMAP"} => ~ce /\ ~pkt.end
         /\ goods' = g /\ firstMark' = f /\ marks' = m /\ marked' = w
         /\ UNCHANGED back
  BY Zenon DEF ReceiveNew
<1> HIDE DEF g, f, m, w, good, mark
<1>6. CASE Answer(PlainAck(pkt, ce, pkt.end), g, f, m)
  <2>1. Gathers(pkt, good, mark, ce, pkt.end, g, f, m)
    <3>1. algo = "REPS" => (good <=> pkt.end /\ ~ce)
      BY <1>3
    <3>2. ASSUME NEW p \in Paths, algo = "REPS_ACKAGG"
          PROVE  Noted(g, p) = Noted(goods, p) + (IF good /\ pkt.path = p THEN 1 ELSE 0)
      <4>1. good <=> ~ce
        BY <1>3, <3>2
      <4> QED
        BY <1>2, <3>2, <4>1
    <3>3. ASSUME NEW p \in Paths, algo \in {"REPS_ACKAGG", "BITMAP_ACKAGG"}
          PROVE  MarkNotes(algo, f, m, p) =
                   MarkNotes(algo, firstMark, marks, p) + (IF mark /\ pkt.path = p THEN 1 ELSE 0)
      BY <1>2, <3>3
    <3>4. algo = "BITMAP" => (mark <=> ce)
      BY <1>8
    <3> QED
      BY <3>1, <3>2, <3>3, <3>4, Zenon DEF Gathers
  <2> QED
    BY <1>1, <1>2, <1>3, <1>4, <1>6, <1>8, <2>1, SinkAnswers
<1>7. CASE /\ algo \in {"REPS", "BITMAP"} => ~ce /\ ~pkt.end
           /\ goods' = g /\ firstMark' = f /\ marks' = m /\ marked' = w
           /\ UNCHANGED back
  <2>1. algo' = algo /\ sends' = sends /\ back' = back
    BY <1>7 DEF srcVars
  <2>2. OneAnswerEach' /\ AnswersAreFinite'
    BY <1>7, NoAnswer
  <2>3. /\ owed' \in [Paths -> [good : Int, mark : Int]]
        /\ \A p \in Paths :
             /\ owed'[p].good = owed[p].good + (IF good /\ pkt.path = p THEN 1 ELSE 0)
             /\ owed'[p].mark = owed[p].mark + (IF mark /\ pkt.path = p THEN 1 ELSE 0)
    BY <1>1, <1>3, <1>4, <1>8, OweEnters DEF FeedbackInv
  <2>4. FeedbackType'
    BY <1>1, <1>2, <1>7, <2>1, <2>3 DEF FeedbackInv, FeedbackType
  <2>5. OnlyItsOwn' /\ FirstMarkIsKept'
    BY <1>2, <1>7, <2>1 DEF OnlyItsOwn, FirstMarkIsKept
  <2>6. LedgerBalances'
    <3> SUFFICES ASSUME NEW p \in Paths
                 PROVE  /\ UsesReps => owed'[p].good = Noted(g, p) + Under(back, algo, p, "good")
                        /\ algo # "REPS" => owed'[p].mark = MarkNotes(algo, f, m, p) + Under(back, algo, p, "ecn")
      BY <1>7, <2>1 DEF LedgerBalances, UsesReps
    <3>1. Noted(goods, p) \in Nat /\ MarkNotes(algo, firstMark, marks, p) \in Nat
      BY NotedIs, MarkNotesIs DEF FeedbackInv, FeedbackType
    <3>2. /\ UsesReps => owed[p].good = Noted(goods, p) + Under(back, algo, p, "good")
          /\ algo # "REPS" => owed[p].mark = MarkNotes(algo, firstMark, marks, p) + Under(back, algo, p, "ecn")
      BY DEF FeedbackInv, LedgerBalances
    <3>3. Under(back, algo, p, "good") \in Nat /\ Under(back, algo, p, "ecn") \in Nat
      BY FS_CardinalityType DEF FeedbackInv, AnswersAreFinite, Finite, Under
    <3>4. ASSUME UsesReps PROVE owed'[p].good = Noted(g, p) + Under(back, algo, p, "good")
      <4>1. good <=> algo = "REPS_ACKAGG" /\ ~ce
        BY <1>1, <1>3, <1>7, <3>4 DEF UsesReps
      <4>2. Noted(g, p) = Noted(goods, p) + (IF good /\ pkt.path = p THEN 1 ELSE 0)
        BY <1>2, <4>1
      <4>3. owed[p].good = Noted(goods, p) + Under(back, algo, p, "good")
        BY <3>2, <3>4, Zenon
      <4> QED
        BY <2>3, <3>1, <3>3, <4>2, <4>3
    <3>5. ASSUME algo # "REPS" PROVE owed'[p].mark = MarkNotes(algo, f, m, p) + Under(back, algo, p, "ecn")
      <4>1. mark <=> algo \in {"REPS_ACKAGG", "BITMAP_ACKAGG"} /\ mark
        BY <1>1, <1>7, <1>8, <3>5
      <4>2. MarkNotes(algo, f, m, p) = MarkNotes(algo, firstMark, marks, p) + (IF mark /\ pkt.path = p THEN 1 ELSE 0)
        BY <1>2, <4>1
      <4>3. owed[p].mark = MarkNotes(algo, firstMark, marks, p) + Under(back, algo, p, "ecn")
        BY <3>2, <3>5, Zenon
      <4> QED
        BY <2>3, <3>1, <3>3, <4>2, <4>3
    <3> QED
      BY <3>4, <3>5, Zenon
  <2> QED
    BY <2>2, <2>4, <2>5, <2>6 DEF FeedbackInv
<1> QED
  BY <1>5, <1>6, <1>7, Zenon

\* onDuplicate: an ACK at once, with what was noted and the packet's mark.
LEMMA DuplicateKeeps ==
  ASSUME FeedbackInv, NEW pkt \in flight, flight' = flight \ {pkt}, UNCHANGED srcVars,
         NEW ce \in BOOLEAN, ReceiveDuplicate(pkt, ce)
  PROVE  FeedbackInv'
<1> DEFINE f == NoteDuplicate(pkt, ce)
           mark == TellsMark(ce)
           m == NoteMark(pkt, ce)
<1>1. goods \in Seq(Paths)
  BY DEF FeedbackInv, FeedbackType
<1>2. /\ m \in Seq(Paths) /\ f \in Paths \cup {None}
      /\ \A p \in Paths : MarkNotes(algo, f, m, p) = MarkNotes(algo, firstMark, marks, p) +
           (IF (algo \in {"REPS_ACKAGG", "BITMAP_ACKAGG"} /\ mark) /\ pkt.path = p THEN 1 ELSE 0)
  BY NotesOfPacket DEF NoteDuplicate
<1>6. mark \in BOOLEAN /\ (algo # "REPS_ACKAGG" => (mark <=> ce))
  BY Zenon DEF TellsMark
<1>3. Owe(pkt, FALSE, mark) /\ Answer(PlainAck(pkt, ce, FALSE), goods, f, m)
  BY Zenon DEF ReceiveDuplicate
<1> HIDE DEF f, m, mark
<1>4. Gathers(pkt, FALSE, mark, ce, FALSE, goods, f, m)
  <2>1. \A p \in Paths : Noted(goods, p) \in Nat
    BY <1>1, NotedIs
  <2> QED
    BY <1>2, <1>6, <2>1 DEF Gathers
<1>5. FALSE \in BOOLEAN
  OBVIOUS
<1> QED
  BY <1>1, <1>2, <1>3, <1>4, <1>5, <1>6, SinkAnswers

\* handleDuplicateTrimmed: its ACK says nothing, and what was noted stays.
LEMMA TrimmedDuplicateKeeps ==
  ASSUME FeedbackInv, NEW pkt \in flight, flight' = flight \ {pkt}, UNCHANGED srcVars,
         ReceiveTrimmedDuplicate(pkt)
  PROVE  FeedbackInv'
<1> DEFINE a == PlainAck(pkt, FALSE, FALSE)
           q == pkt.path
<1>1. /\ algo \in {"REPS", "REPS_ACKAGG", "BITMAP", "BITMAP_ACKAGG"} /\ q \in Paths
  BY DEF FeedbackInv, FeedbackType
<1>2. MadeAck(a, pkt.n, q, FALSE, FALSE, received')
  BY DEF PlainAck, MadeAck
<1>3. /\ back' = back \cup {a}
      /\ goods' = goods /\ firstMark' = firstMark /\ marks' = marks /\ owed' = owed
      /\ marked' = marked /\ algo' = algo /\ sends' = sends
  BY DEF ReceiveTrimmedDuplicate, sinkVars, srcVars
<1> HIDE DEF a, q
<1>4. Carries(a, q, FALSE, FALSE, <<>>, None, <<>>) /\ a.n = pkt.n
  <2>4. a = [type |-> "ack", n |-> pkt.n, ev |-> q, ecn |-> FALSE, end |-> FALSE,
             goods |-> <<>>, marks |-> <<>>, covers |-> received']
    BY <1>2 DEF MadeAck
  <2>1. Attach(a, <<>>, None, <<>>) = a
    BY <1>1, <2>4 DEF Attach, AttachAggFeedback, AttachBitmapAggFeedback
  <2>2. <<>> \in Seq(Paths) /\ None \in Paths \cup {None} /\ FALSE \in BOOLEAN
    OBVIOUS
  <2>3. /\ Carries(Attach(a, <<>>, None, <<>>), q, FALSE, FALSE, <<>>, None, <<>>)
        /\ Acks(Attach(a, <<>>, None, <<>>), pkt.n)
    BY <1>1, <1>2, <2>2, AttachedTells, Zenon
  <2> QED
    BY <2>1, <2>3 DEF Acks
<1>5. OneAnswerEach' /\ AnswersAreFinite' /\ Joins(back, a, back', algo)
  BY <1>3, <1>4, AnswerJoins DEF Carries
<1>6. FeedbackType'
  BY <1>3 DEF FeedbackInv, FeedbackType
<1>7. OnlyItsOwn' /\ FirstMarkIsKept'
  BY <1>3 DEF FeedbackInv, OnlyItsOwn, FirstMarkIsKept
<1>8. goods' \in Seq(Paths) /\ marks' \in Seq(Paths) /\ FALSE \in BOOLEAN
  BY <1>6 DEF FeedbackType
<1>9. Settles(a, q, FALSE, FALSE)
  <2> SUFFICES ASSUME NEW p \in Paths
               PROVE  /\ owed'[p].good = owed[p].good + 0
                      /\ owed'[p].mark = owed[p].mark + 0
                      /\ UsesReps => Noted(goods, p) + 0 = Noted(goods', p) + Told(algo, a, p, "good")
                      /\ algo # "REPS" => MarkNotes(algo, firstMark, marks, p) + 0 = MarkNotes(algo, firstMark', marks', p) + Told(algo, a, p, "ecn")
    BY Zenon DEF Settles
  <2>1. Noted(goods, p) \in Nat /\ Noted(<<>>, p) = 0
        /\ MarkNotes(algo, firstMark, marks, p) \in Nat /\ MarkNotes(algo, None, <<>>, p) = 0
    BY NotedIs, NotedNone, MarkNotesIs, MarkNotesNone DEF FeedbackInv, FeedbackType
  <2>2. UsesReps => Told(algo, a, p, "good") = 0
    BY <1>1, <1>4, <2>1 DEF UsesReps, Carries
  <2>3. algo # "REPS" => Told(algo, a, p, "ecn") = 0
    BY <1>1, <1>4, <2>1 DEF UsesReps, Carries
  <2>4. owed[p].good \in Int /\ owed[p].mark \in Int
    BY DEF FeedbackInv, FeedbackType
  <2>5. UsesReps => Noted(goods, p) + 0 = Noted(goods, p) + Told(algo, a, p, "good")
    BY <2>2, Zenon
  <2>6. algo # "REPS" => MarkNotes(algo, firstMark, marks, p) + 0 = MarkNotes(algo, firstMark, marks, p) + Told(algo, a, p, "ecn")
    BY <2>3, Zenon
  <2>7. owed[p].good = owed[p].good + 0 /\ owed[p].mark = owed[p].mark + 0
    BY <2>4
  <2> QED
    BY <1>3, <2>5, <2>6, <2>7, Zenon
<1>10. LedgerBalances'
  BY <1>3, <1>5, <1>8, <1>9, JoiningBalances, Zenon
<1> QED
  BY <1>5, <1>6, <1>7, <1>10 DEF FeedbackInv

\* buildTrimmedNack for a packet that is still missing.
LEMMA TrimmedKeeps ==
  ASSUME FeedbackInv, NEW pkt \in flight, flight' = flight \ {pkt}, UNCHANGED srcVars,
         NEW ce \in BOOLEAN, ReceiveTrimmed(pkt, ce)
  PROVE  FeedbackInv'
<1>1. PICK last \in BOOLEAN :
        /\ back' = back \cup {[type |-> "nack", n |-> pkt.n, ev |-> pkt.path, ecn |-> ce,
                               dsn |-> pkt.dsn, lastHop |-> last]}
        /\ Owe(pkt, last /\ ~ce, last /\ ce)
  BY Zenon DEF ReceiveTrimmed
<1> DEFINE q == pkt.path
           a == [type |-> "nack", n |-> pkt.n, ev |-> q, ecn |-> ce, dsn |-> pkt.dsn, lastHop |-> last]
           good == last /\ ~ce
           mark == last /\ ce
<1>2. /\ goods' = goods /\ firstMark' = firstMark /\ marks' = marks
      /\ marked' = marked /\ algo' = algo /\ sends' = sends
  BY DEF ReceiveTrimmed, sinkVars, srcVars
<1>3. q \in Paths
  BY DEF FeedbackInv, FeedbackType
<1>4. back' = back \cup {a} /\ Owe(pkt, good, mark) /\ good \in BOOLEAN /\ mark \in BOOLEAN
  BY <1>1, Zenon
<1>5. a.type = "nack" /\ a.n = pkt.n /\ a.ev = q /\ a.ecn = ce /\ a.lastHop = last
  OBVIOUS
<1> HIDE DEF a
<1>6. /\ Listed(algo, a)
      /\ \A p : /\ Told(algo, a, p, "good") = IF good /\ q = p THEN 1 ELSE 0
                /\ Told(algo, a, p, "ecn") = IF mark /\ q = p THEN 1 ELSE 0
  <2> HIDE DEF q
  <2> QED
    BY <1>3, <1>5, NackTells
<1> HIDE DEF good, mark
<1>7. OneAnswerEach' /\ AnswersAreFinite' /\ Joins(back, a, back', algo)
  BY <1>4, <1>5, <1>6, AnswerJoins
<1>8. /\ owed' \in [Paths -> [good : Int, mark : Int]]
      /\ \A p \in Paths :
           /\ owed'[p].good = owed[p].good + (IF good /\ q = p THEN 1 ELSE 0)
           /\ owed'[p].mark = owed[p].mark + (IF mark /\ q = p THEN 1 ELSE 0)
  BY <1>3, <1>4, OweEnters DEF FeedbackInv
<1> HIDE DEF q
<1>9. FeedbackType'
  BY <1>2, <1>8 DEF FeedbackInv, FeedbackType
<1>10. OnlyItsOwn' /\ FirstMarkIsKept'
  BY <1>2 DEF FeedbackInv, OnlyItsOwn, FirstMarkIsKept
<1>11. goods' \in Seq(Paths) /\ marks' \in Seq(Paths)
  BY <1>9 DEF FeedbackType
<1>12. \A p \in Paths :
         /\ UsesReps => Noted(goods, p) + (IF good /\ q = p THEN 1 ELSE 0)
                          = Noted(goods', p) + Told(algo, a, p, "good")
         /\ algo # "REPS" => MarkNotes(algo, firstMark, marks, p) + (IF mark /\ q = p THEN 1 ELSE 0)
                          = MarkNotes(algo, firstMark', marks', p) + Told(algo, a, p, "ecn")
  BY <1>2, <1>6
<1>13. Settles(a, q, good, mark)
  BY <1>8, <1>12, Zenon DEF Settles
<1>14. LedgerBalances'
  BY <1>2, <1>4, <1>7, <1>11, <1>13, JoiningBalances, Zenon
<1> QED
  BY <1>7, <1>9, <1>10, <1>14 DEF FeedbackInv

--------------------------------------------------------------------------
(* The steps                                                               *)

\* A transmission has a number of its own.
LEMMA TransmitKeeps ==
  ASSUME FeedbackInv, NEW d, Transmit(d)
  PROVE  FeedbackInv'
<1>1. PICK p \in Paths, end \in BOOLEAN :
        flight' = flight \cup {[n |-> sends, dsn |-> d, path |-> p, end |-> end]}
  BY Zenon DEF Transmit
<1> DEFINE new == [n |-> sends, dsn |-> d, path |-> p, end |-> end]
<1>2. /\ sends' = sends + 1 /\ algo' = algo /\ goods' = goods /\ firstMark' = firstMark
      /\ marks' = marks /\ back' = back /\ owed' = owed /\ marked' = marked
  BY DEF Transmit, sinkVars
<1>3. new.n = sends /\ new.path = p /\ new.end = end
  OBVIOUS
<1>4. \A x \in flight' : x \in flight \/ x = new
  BY <1>1
<1> HIDE DEF new
<1>5. sends \in Nat
  BY DEF FeedbackInv, FeedbackType
<1>6. FeedbackType'
  BY <1>2, <1>3, <1>4 DEF FeedbackInv, FeedbackType
<1>7. OneAnswerEach'
  <2>1. \A x \in flight : x.n \in Nat /\ x.n < sends
    BY DEF FeedbackInv, FeedbackType, OneAnswerEach
  <2>2. \A x, y \in flight' : x.n = y.n => x = y
    BY <1>3, <1>4, <1>5, <2>1 DEF FeedbackInv, OneAnswerEach
  <2>3. \A x \in flight' : x.n < sends'
    BY <1>2, <1>3, <1>4, <1>5, <2>1
  <2>4. \A a \in back' : a.n \in Nat /\ a.n < sends' /\ \A x \in flight' : a.n # x.n
    BY <1>2, <1>3, <1>4, <1>5 DEF FeedbackInv, OneAnswerEach
  <2> QED
    BY <2>2, <2>3, <2>4 DEF OneAnswerEach
<1>8. OnlyItsOwn' /\ FirstMarkIsKept'
  BY <1>2 DEF FeedbackInv, OnlyItsOwn, FirstMarkIsKept
<1>9. AnswersAreFinite'
  BY <1>2 DEF FeedbackInv, AnswersAreFinite
<1>10. LedgerBalances'
  BY <1>2 DEF FeedbackInv, LedgerBalances, UsesReps
<1> QED
  BY <1>6, <1>7, <1>8, <1>9, <1>10 DEF FeedbackInv

\* A lost packet had nothing to tell yet.
LEMMA LossKeeps ==
  ASSUME FeedbackInv, LosePacket
  PROVE  FeedbackInv'
<1>1. PICK pkt \in flight : flight' = flight \ {pkt}
  BY Zenon DEF LosePacket
<1>2. /\ UNCHANGED <<srcVars, back>>
      /\ sends' = sends /\ algo' = algo /\ goods' = goods /\ firstMark' = firstMark
      /\ marks' = marks /\ back' = back /\ owed' = owed /\ marked' = marked
  BY DEF LosePacket, srcVars, sinkVars
<1>3. OneAnswerEach' /\ AnswersAreFinite'
  BY <1>1, <1>2, NoAnswer
<1>4. FeedbackType'
  BY <1>1, <1>2 DEF FeedbackInv, FeedbackType
<1>5. OnlyItsOwn' /\ FirstMarkIsKept'
  BY <1>2 DEF FeedbackInv, OnlyItsOwn, FirstMarkIsKept
<1>6. LedgerBalances'
  BY <1>2 DEF FeedbackInv, LedgerBalances, UsesReps
<1> QED
  BY <1>3, <1>4, <1>5, <1>6 DEF FeedbackInv

\* Every step keeps the books.
LEMMA StepFeedback == FeedbackInv /\ [Next]_vars => FeedbackInv'
<1> SUFFICES ASSUME FeedbackInv, [Next]_vars PROVE FeedbackInv'
  OBVIOUS
<1>1. CASE SendNew \/ SendAgain
  BY <1>1, TransmitKeeps, Zenon DEF SendNew, SendAgain
<1>2. CASE SinkReceives
  <2>1. PICK pkt \in flight :
          /\ flight' = flight \ {pkt}
          /\ \/ \E ce \in BOOLEAN : ReceiveNew(pkt, ce)
             \/ \E ce \in BOOLEAN : ReceiveDuplicate(pkt, ce)
             \/ ReceiveTrimmedDuplicate(pkt)
             \/ \E ce \in BOOLEAN : ReceiveTrimmed(pkt, ce)
    BY <1>2, Zenon DEF SinkReceives
  <2>2. UNCHANGED srcVars
    BY <1>2, Zenon DEF SinkReceives
  <2>3. CASE \E ce \in BOOLEAN : ReceiveNew(pkt, ce)
    BY <2>1, <2>2, <2>3, NewKeeps, Zenon
  <2>4. CASE \E ce \in BOOLEAN : ReceiveDuplicate(pkt, ce)
    BY <2>1, <2>2, <2>4, DuplicateKeeps, Zenon
  <2>5. CASE ReceiveTrimmedDuplicate(pkt)
    BY <2>1, <2>2, <2>5, TrimmedDuplicateKeeps, Zenon
  <2>6. CASE \E ce \in BOOLEAN : ReceiveTrimmed(pkt, ce)
    BY <2>1, <2>2, <2>6, TrimmedKeeps, Zenon
  <2> QED
    BY <2>1, <2>3, <2>4, <2>5, <2>6, Zenon
<1>3. CASE AckArrives
  <2>1. PICK ack \in back : ack.type = "ack" /\ back' = back \ {ack} /\ Tell(AckReports(algo, ack))
    BY <1>3, Zenon DEF AckArrives
  <2>2. UNCHANGED <<algo, sends, flight, sinkVars, marked>>
    BY <1>3, Zenon DEF AckArrives
  <2>3. Reports(algo, ack) = AckReports(algo, ack)
    BY <2>1, Zenon DEF Reports
  <2> QED
    BY <2>1, <2>2, <2>3, AnswerLeaves, Zenon
<1>4. CASE NackArrives
  <2>1. PICK nack \in back : nack.type = "nack" /\ back' = back \ {nack} /\ Tell(NackReports(nack))
    BY <1>4, Zenon DEF NackArrives
  <2>2. UNCHANGED <<algo, sends, flight, sinkVars, marked>>
    BY <1>4, Zenon DEF NackArrives
  <2>3. Reports(algo, nack) = NackReports(nack)
    BY <2>1 DEF Reports
  <2> QED
    BY <2>1, <2>2, <2>3, AnswerLeaves, Zenon
<1>5. CASE LosePacket
  BY <1>5, LossKeeps
<1>6. CASE LoseAnswer
  <2>1. PICK answer \in back : back' = back \ {answer} /\ Tell(Reports(algo, answer))
    BY <1>6, Zenon DEF LoseAnswer
  <2>2. UNCHANGED <<algo, sends, flight, sinkVars, marked>>
    BY <1>6, Zenon DEF LoseAnswer, srcVars
  <2> QED
    BY <2>1, <2>2, AnswerLeaves, Zenon
<1>7. CASE UNCHANGED vars
  BY <1>7 DEF vars, srcVars, sinkVars, FeedbackInv, FeedbackType, OneAnswerEach, OnlyItsOwn,
              AnswersAreFinite, FirstMarkIsKept, LedgerBalances, UsesReps
<1> QED
  BY <1>1, <1>2, <1>3, <1>4, <1>5, <1>6, <1>7, Zenon DEF Next

--------------------------------------------------------------------------
(* The theorems                                                            *)

\* The ledger of every path balances in every state.
THEOREM FeedbackInvariant == Spec => []FeedbackInv
<1> QED
  BY InitFeedback, StepFeedback, PTL DEF Spec

\* REPS hears good news of a path exactly once for each packet that brought
\* it, through lost, repeated, reordered and late answers.
THEOREM CreditsAreHeardOnce == Spec => []CreditsAreEarned
<1>1. FeedbackInv => CreditsAreEarned
  BY DEF FeedbackInv, LedgerBalances, CreditsAreEarned
<1> QED
  BY <1>1, FeedbackInvariant, PTL

\* The bitmap hears of every mark once, and REPS with aggregation of the first
\* path that was marked between two ACKs, once and of no other.
THEOREM MarksAreHeardOnce == Spec => []MarksAreTold
<1>1. FeedbackInv => MarksAreTold
  BY DEF FeedbackInv, LedgerBalances, MarksAreTold
<1> QED
  BY <1>1, FeedbackInvariant, PTL
=============================================================================
