-------------------------- MODULE SingSwitchProofs --------------------------
(***************************************************************************)
(* Theorems about SingSwitch, for any ports, classes, packet sizes and     *)
(* thresholds.  There are two inductive invariants.  SwInv keeps the types *)
(* of what decides, work conservation and the limits; there the counters   *)
(* are only known to be integers.  LedgerInv, kept given SwInv, says that  *)
(* every counter is the sum of the bytes of the packets it stands for; the *)
(* sums are the folds of the community modules, and the first two sections *)
(* say how they change when a function changes at one point, and when a    *)
(* packet enters a sequence or leaves it.                                  *)
(***************************************************************************)
EXTENDS SingSwitch, FiniteSetTheorems, WellFoundedInduction, TLAPS

--------------------------------------------------------------------------
(* Sums                                                                    *)

\* Every set of natural numbers has a least one.
LEMMA LeastNatural ==
  ASSUME NEW S \in SUBSET Nat, S # {}
  PROVE  \E m \in S : \A n \in S : m <= n
<1> DEFINE R == {ab \in Nat \X Nat : ab[1] < ab[2]}
<1>1. IsWellFoundedOn(R, Nat)
  <2>1. R = OpToRel(<, Nat)
    BY DEF OpToRel
  <2> QED
    BY <2>1, NatLessThanWellFounded
<1>2. \A a, b \in Nat : a < b => <<a, b>> \in R
  OBVIOUS
<1>3. S \subseteq Nat
  OBVIOUS
<1> HIDE DEF R
<1>4. PICK m \in S : \A n \in S : ~(<<n, m>> \in R)
  BY <1>1, <1>3, WFMin
<1>5. \A n \in S : ~(n < m)
  BY <1>2, <1>3, <1>4
<1> QED
  BY <1>3, <1>5

\* The element that the fold takes next.
Taken(s) == CHOOSE x \in s : TRUE

\* u lists the sums of f over the sets in D, which has with a set what is left
\* of it.
Sums(D, f, u) ==
  u = [s \in D |-> IF s = {} THEN 0
                   ELSE LET x == CHOOSE x \in s : TRUE IN f[x] + u[s \ {x}]]
SumsAt(D, f, u) ==
  \A s \in D : u[s] = IF s = {} THEN 0 ELSE f[Taken(s)] + u[s \ {Taken(s)}]
UpTo(T, n) == {s \in SUBSET T : Cardinality(s) <= n}

\* What the definition of the sums says of each set.
LEMMA SumsAre ==
  ASSUME NEW D, NEW f, NEW u
  PROVE  /\ Sums(D, f, u) => SumsAt(D, f, u)
         /\ SumsAt(D, f, u) /\ u = [s \in D |-> u[s]] => Sums(D, f, u)
<1>1. ASSUME Sums(D, f, u) PROVE SumsAt(D, f, u)
  BY <1>1, Zenon DEF Sums, SumsAt, Taken
<1>2. ASSUME SumsAt(D, f, u), u = [s \in D |-> u[s]] PROVE Sums(D, f, u)
  <2>1. u = [s \in D |-> IF s = {} THEN 0 ELSE f[Taken(s)] + u[s \ {Taken(s)}]]
    BY <1>2 DEF SumsAt
  <2> QED
    BY <2>1, Zenon DEF Sums, Taken
<1> QED
  BY <1>1, <1>2

\* What is taken from a finite set leaves a smaller one.
LEMMA TakenIsOne ==
  ASSUME NEW T, IsFiniteSet(T), NEW s \in SUBSET T, s # {}
  PROVE  /\ Taken(s) \in s
         /\ \A x \in s : /\ s \ {x} \in SUBSET T
                         /\ Cardinality(s) \in Nat /\ Cardinality(s) # 0
                         /\ Cardinality(s \ {x}) = Cardinality(s) - 1
<1>1. IsFiniteSet(s) /\ Cardinality(s) \in Nat
  BY FS_Subset, FS_CardinalityType
<1>2. Cardinality(s) # 0
  BY <1>1, FS_EmptySet
<1> QED
  BY <1>1, <1>2, FS_RemoveElement DEF Taken

\* The sums over the parts of a finite set exist.
LEMMA SumsExist ==
  ASSUME NEW T, IsFiniteSet(T), NEW f
  PROVE  \E u : Sums(SUBSET T, f, u)
<1> DEFINE Bad == {n \in Nat : ~ \E u : Sums(UpTo(T, n), f, u)}
<1>1. Bad = {}
  <2> SUFFICES ASSUME Bad # {} PROVE FALSE
    OBVIOUS
  <2>0. Bad \in SUBSET Nat
    OBVIOUS
  <2>1. PICK m \in Bad : \A k \in Bad : m <= k
    <3> HIDE DEF Bad
    <3> QED
      BY <2>0, LeastNatural
  <2>2. m \in Nat /\ ~ \E u : Sums(UpTo(T, m), f, u)
    BY <2>1
  <2>3. m # 0
    <3> DEFINE v == [s \in UpTo(T, 0) |-> 0]
    <3>1. \A s \in UpTo(T, 0) : s = {}
      <4> SUFFICES ASSUME NEW s \in UpTo(T, 0), s # {} PROVE FALSE
        OBVIOUS
      <4>1. Cardinality(s) \in Nat /\ Cardinality(s) # 0 /\ Cardinality(s) <= 0
        BY TakenIsOne DEF UpTo
      <4> QED
        BY <4>1
    <3>2. SumsAt(UpTo(T, 0), f, v) /\ v = [s \in UpTo(T, 0) |-> v[s]]
      BY <3>1 DEF SumsAt
    <3> HIDE DEF v
    <3> QED
      BY <3>2, <2>2, SumsAre
  <2>4. m - 1 \in Nat /\ m - 1 \notin Bad
    BY <2>1, <2>2, <2>3
  <2>5. PICK u : Sums(UpTo(T, m - 1), f, u)
    BY <2>4
  <2>6. SumsAt(UpTo(T, m - 1), f, u)
    BY <2>5, SumsAre
  <2> DEFINE v == [s \in UpTo(T, m) |-> IF s \in UpTo(T, m - 1) THEN u[s]
                                        ELSE f[Taken(s)] + u[s \ {Taken(s)}]]
  <2>7. UpTo(T, m - 1) \subseteq UpTo(T, m)
    <3> SUFFICES ASSUME NEW s \in UpTo(T, m - 1) PROVE s \in UpTo(T, m)
      OBVIOUS
    <3>1. IsFiniteSet(s) /\ Cardinality(s) \in Nat
      BY FS_Subset, FS_CardinalityType DEF UpTo
    <3> QED
      BY <3>1, <2>2 DEF UpTo
  <2>8. \A s \in UpTo(T, m) : s # {} => s \ {Taken(s)} \in UpTo(T, m - 1)
    <3> SUFFICES ASSUME NEW s \in UpTo(T, m), s # {}
                 PROVE  s \ {Taken(s)} \in UpTo(T, m - 1)
      OBVIOUS
    <3>1. s \in SUBSET T /\ Cardinality(s) <= m
      BY DEF UpTo
    <3>2. /\ s \ {Taken(s)} \in SUBSET T /\ Cardinality(s) \in Nat
          /\ Cardinality(s \ {Taken(s)}) = Cardinality(s) - 1
      BY <3>1, TakenIsOne
    <3> QED
      BY <3>1, <3>2, <2>2 DEF UpTo
  <2>9. {} \in UpTo(T, m - 1)
    BY <2>4, FS_EmptySet DEF UpTo
  <2>10. v = [s \in UpTo(T, m) |-> v[s]]
    OBVIOUS
  <2>11. \A s \in UpTo(T, m - 1) : v[s] = u[s]
    BY <2>7
  <2>12. \A s \in UpTo(T, m) : s \notin UpTo(T, m - 1) => v[s] = f[Taken(s)] + u[s \ {Taken(s)}]
    OBVIOUS
  <2> HIDE DEF v
  <2>13. SumsAt(UpTo(T, m), f, v)
    <3> SUFFICES ASSUME NEW s \in UpTo(T, m)
                 PROVE  v[s] = IF s = {} THEN 0 ELSE f[Taken(s)] + v[s \ {Taken(s)}]
      BY DEF SumsAt
    <3>1. CASE s = {}
      BY <3>1, <2>6, <2>9, <2>11 DEF SumsAt
    <3>2. CASE s # {}
      <4>1. v[s] = f[Taken(s)] + u[s \ {Taken(s)}]
        BY <3>2, <2>6, <2>11, <2>12 DEF SumsAt
      <4> QED
        BY <3>2, <4>1, <2>8, <2>11
    <3> QED
      BY <3>1, <3>2
  <2> QED
    BY <2>10, <2>13, <2>2, SumsAre
<1>2. Cardinality(T) \in Nat
  BY FS_CardinalityType
<1>3. UpTo(T, Cardinality(T)) = SUBSET T
  BY FS_Subset DEF UpTo
<1>4. \E u : Sums(UpTo(T, Cardinality(T)), f, u)
  BY <1>1, <1>2
<1> QED
  BY <1>3, <1>4

\* Two functions agree on a set, where their values are integers.
Agree(T, f, g) == \A x \in T : f[x] = g[x] /\ f[x] \in Int
SameSums(T, u, v) == \A s \in SUBSET T : u[s] \in Int /\ v[s] = u[s]

\* Two lists of sums agree where they speak of the same sets, if the functions
\* agree there.
LEMMA SumsAgree ==
  ASSUME NEW T, IsFiniteSet(T), NEW U, IsFiniteSet(U), T \subseteq U, NEW f, NEW g,
         Agree(T, f, g), NEW u, Sums(SUBSET T, f, u), NEW v, Sums(SUBSET U, g, v)
  PROVE  SameSums(T, u, v)
<1>1. SumsAt(SUBSET T, f, u) /\ SumsAt(SUBSET U, g, v)
  BY SumsAre
<1> DEFINE Bad == {n \in Nat : \E s \in SUBSET T : Cardinality(s) = n /\ ~(u[s] \in Int /\ v[s] = u[s])}
<1>2. Bad = {}
  <2> SUFFICES ASSUME Bad # {} PROVE FALSE
    OBVIOUS
  <2>0. Bad \in SUBSET Nat
    OBVIOUS
  <2>1. PICK m \in Bad : \A k \in Bad : m <= k
    <3> HIDE DEF Bad
    <3> QED
      BY <2>0, LeastNatural
  <2>2. PICK s \in SUBSET T : Cardinality(s) = m /\ ~(u[s] \in Int /\ v[s] = u[s])
    BY <2>1
  <2>3. s \in SUBSET U /\ {} \in SUBSET U /\ {} \in SUBSET T
    OBVIOUS
  <2>4. s # {}
    <3>1. u[{}] = 0 /\ v[{}] = 0
      BY <2>3, <1>1, Zenon DEF SumsAt
    <3> SUFFICES ASSUME s = {} PROVE FALSE
      OBVIOUS
    <3>2. u[s] = 0 /\ v[s] = 0
      BY <3>1, Zenon
    <3> QED
      BY <2>2, <3>2
  <2> DEFINE r == s \ {Taken(s)}
  <2>5. Taken(s) \in s /\ r \in SUBSET T /\ Cardinality(r) = m - 1 /\ m \in Nat /\ m # 0
    BY <2>2, <2>4, TakenIsOne
  <2>6. m - 1 \in Nat /\ m - 1 \notin Bad
    BY <2>1, <2>5
  <2>7. u[r] \in Int /\ v[r] = u[r]
    BY <2>5, <2>6
  <2>8. u[s] = f[Taken(s)] + u[r] /\ v[s] = g[Taken(s)] + v[r]
    BY <2>3, <2>4, <1>1 DEF SumsAt
  <2>9. f[Taken(s)] = g[Taken(s)] /\ f[Taken(s)] \in Int
    BY <2>5 DEF Agree
  <2> HIDE DEF r
  <2> QED
    BY <2>2, <2>7, <2>8, <2>9
<1> SUFFICES ASSUME NEW s \in SUBSET T PROVE u[s] \in Int /\ v[s] = u[s]
  BY DEF SameSums
<1>3. Cardinality(s) \in Nat
  BY FS_Subset, FS_CardinalityType
<1> QED
  BY <1>2, <1>3

\* The sum of the community modules is one of these sums.
LEMMA SumIsOne ==
  ASSUME NEW T, IsFiniteSet(T), NEW f
  PROVE  \E u : Sums(SUBSET T, f, u) /\ SumFunctionOnSet(f, T) = u[T]
<1> DEFINE u == CHOOSE u : Sums(SUBSET T, f, u)
<1>1. SumFunctionOnSet(f, T) = u[T]
  BY Zenon DEF SumFunctionOnSet, FoldFunctionOnSet, MapThenFoldSet, Sums
<1>2. Sums(SUBSET T, f, u)
  BY SumsExist, Zenon
<1> QED
  BY <1>1, <1>2, Zenon

\* Sums over the same set of functions that agree on it, and over no set.
LEMMA SumSame ==
  ASSUME NEW T, IsFiniteSet(T), NEW f, NEW g,
         Agree(T, f, g)
  PROVE  /\ SumFunctionOnSet(f, T) \in Int
         /\ SumFunctionOnSet(g, T) = SumFunctionOnSet(f, T)
<1>1. PICK u : Sums(SUBSET T, f, u) /\ SumFunctionOnSet(f, T) = u[T]
  BY SumIsOne, Zenon
<1>2. PICK v : Sums(SUBSET T, g, v) /\ SumFunctionOnSet(g, T) = v[T]
  BY SumIsOne, Zenon
<1>3. T \in SUBSET T /\ T \subseteq T
  OBVIOUS
<1>4. SameSums(T, u, v)
  BY <1>1, <1>2, <1>3, SumsAgree, Zenon
<1> QED
  BY <1>1, <1>2, <1>3, <1>4 DEF SameSums

\* Over no set there is nothing to add.
LEMMA SumOfNothing ==
  ASSUME NEW f
  PROVE  SumFunctionOnSet(f, {}) = 0
<1>1. IsFiniteSet({})
  BY FS_EmptySet
<1>2. PICK u : Sums(SUBSET {}, f, u) /\ SumFunctionOnSet(f, {}) = u[{}]
  BY <1>1, SumIsOne, Zenon
<1>3. SumsAt(SUBSET {}, f, u)
  BY <1>2, SumsAre
<1> QED
  BY <1>2, <1>3 DEF SumsAt

\* Any element may be taken first.
LEMMA SumTakes ==
  ASSUME NEW T, IsFiniteSet(T), NEW f, \A x \in T : f[x] \in Int, NEW x \in T
  PROVE  /\ SumFunctionOnSet(f, T) \in Int /\ SumFunctionOnSet(f, T \ {x}) \in Int
         /\ SumFunctionOnSet(f, T) = f[x] + SumFunctionOnSet(f, T \ {x})
<1>1. PICK u : Sums(SUBSET T, f, u) /\ SumFunctionOnSet(f, T) = u[T]
  BY SumIsOne, Zenon
<1>2. SumsAt(SUBSET T, f, u)
  BY <1>1, SumsAre
<1>3. \A s \in SUBSET T : u[s] \in Int
  <2>1. Agree(T, f, f) /\ T \subseteq T
    BY DEF Agree
  <2>2. SameSums(T, u, u)
    BY <1>1, <2>1, SumsAgree, Zenon
  <2> QED
    BY <2>2 DEF SameSums
<1> DEFINE Same(s) == \A y \in s : u[s] = f[y] + u[s \ {y}]
           Bad == {n \in Nat : \E s \in SUBSET T : Cardinality(s) = n /\ ~Same(s)}
<1>4. Bad = {}
  <2> SUFFICES ASSUME Bad # {} PROVE FALSE
    OBVIOUS
  <2>0. Bad \in SUBSET Nat
    OBVIOUS
  <2>1. PICK m \in Bad : \A k \in Bad : m <= k
    <3> HIDE DEF Bad
    <3> QED
      BY <2>0, LeastNatural
  <2>2. PICK s \in SUBSET T : Cardinality(s) = m /\ ~Same(s)
    BY <2>1
  <2>3. PICK y \in s : u[s] # f[y] + u[s \ {y}]
    BY <2>2
  <2> DEFINE c == Taken(s)
  <2>4. /\ c \in s /\ m \in Nat /\ m # 0
        /\ \A z \in s : s \ {z} \in SUBSET T /\ Cardinality(s \ {z}) = m - 1
    BY <2>2, TakenIsOne
  <2>5. \A z \in s : Same(s \ {z})
    <3>1. m - 1 \in Nat /\ m - 1 \notin Bad
      BY <2>1, <2>4
    <3> QED
      BY <2>4, <3>1
  <2>6. u[s] = f[c] + u[s \ {c}]
    BY <1>2 DEF SumsAt
  <2>7. y # c
    BY <2>3, <2>6
  <2> HIDE DEF c
  <2>8. u[s \ {c}] = f[y] + u[(s \ {c}) \ {y}]
    BY <2>4, <2>5, <2>7
  <2>9. u[s \ {y}] = f[c] + u[(s \ {y}) \ {c}]
    BY <2>4, <2>5, <2>7
  <2>10. (s \ {c}) \ {y} = (s \ {y}) \ {c}
    OBVIOUS
  <2>11. f[c] \in Int /\ f[y] \in Int /\ u[(s \ {c}) \ {y}] \in Int
    <3>1. (s \ {c}) \ {y} \in SUBSET T
      OBVIOUS
    <3> QED
      BY <2>4, <1>3, <3>1
  <2> DEFINE rest == u[(s \ {c}) \ {y}]
  <2>12. u[s] = f[c] + (f[y] + rest) /\ u[s \ {y}] = f[c] + rest /\ rest \in Int
    BY <2>6, <2>8, <2>9, <2>10, <2>11
  <2> HIDE DEF rest
  <2> QED
    BY <2>3, <2>11, <2>12
<1>5. u[T] = f[x] + u[T \ {x}]
  <2>1. Cardinality(T) \in Nat /\ T \in SUBSET T
    BY FS_CardinalityType
  <2>2. Same(T)
    BY <1>4, <2>1
  <2> QED
    BY <2>2
<1>6. SumFunctionOnSet(f, T \ {x}) = u[T \ {x}]
  <2> DEFINE R == T \ {x}
  <2>1. IsFiniteSet(R) /\ R \subseteq T /\ R \in SUBSET R /\ Agree(R, f, f)
    BY FS_RemoveElement DEF Agree
  <2> HIDE DEF R
  <2>2. PICK v : Sums(SUBSET R, f, v) /\ SumFunctionOnSet(f, R) = v[R]
    BY <2>1, SumIsOne, Zenon
  <2>3. SameSums(R, v, u)
    BY <1>1, <2>1, <2>2, SumsAgree, Zenon
  <2> QED
    BY <2>1, <2>2, <2>3 DEF R, SameSums
<1> QED
  BY <1>1, <1>3, <1>5, <1>6

\* The functions differ, on a set, at x at most; their sums as much as they do.
DifferAt(T, f, g, x) == /\ \A y \in T : f[y] \in Int /\ g[y] \in Int
                        /\ \A y \in T : y # x => g[y] = f[y]
SumsDiffer(T, f, g, x) ==
  /\ SumFunctionOnSet(f, T) \in Int /\ SumFunctionOnSet(g, T) \in Int
  /\ SumFunctionOnSet(g, T) = SumFunctionOnSet(f, T) + (g[x] - f[x])

\* A function that changes at one point changes its sum by as much.
LEMMA SumChanges ==
  ASSUME NEW T, IsFiniteSet(T), NEW f, NEW g, NEW x \in T,
         DifferAt(T, f, g, x)
  PROVE  SumsDiffer(T, f, g, x)
<1> DEFINE R == T \ {x}
<1>1. /\ SumFunctionOnSet(f, T) \in Int /\ SumFunctionOnSet(f, R) \in Int
      /\ SumFunctionOnSet(f, T) = f[x] + SumFunctionOnSet(f, R)
  BY SumTakes DEF DifferAt
<1>2. /\ SumFunctionOnSet(g, T) \in Int
      /\ SumFunctionOnSet(g, T) = g[x] + SumFunctionOnSet(g, R)
  BY SumTakes DEF DifferAt
<1>3. SumFunctionOnSet(g, R) = SumFunctionOnSet(f, R)
  <2>1. IsFiniteSet(R) /\ Agree(R, f, g)
    BY FS_RemoveElement DEF Agree, DifferAt
  <2> HIDE DEF R
  <2> QED
    BY <2>1, SumSame
<1> HIDE DEF R
<1>4. f[x] \in Int /\ g[x] \in Int
  BY DEF DifferAt
<1> QED
  BY <1>1, <1>2, <1>3, <1>4 DEF SumsDiffer

\* Sums of nothing but zeroes.
LEMMA SumOfZeroes ==
  ASSUME NEW T, IsFiniteSet(T), NEW f, \A x \in T : f[x] = 0
  PROVE  SumFunctionOnSet(f, T) = 0
<1> DEFINE Bad == {n \in Nat : \E s \in SUBSET T : Cardinality(s) = n /\ SumFunctionOnSet(f, s) # 0}
<1>1. Bad = {}
  <2> SUFFICES ASSUME Bad # {} PROVE FALSE
    OBVIOUS
  <2>0. Bad \in SUBSET Nat
    OBVIOUS
  <2>1. PICK m \in Bad : \A k \in Bad : m <= k
    <3> HIDE DEF Bad
    <3> QED
      BY <2>0, LeastNatural
  <2>2. PICK s \in SUBSET T : Cardinality(s) = m /\ SumFunctionOnSet(f, s) # 0
    BY <2>1
  <2>3. s # {}
    BY <2>2, SumOfNothing
  <2>4. PICK x \in s : /\ s \ {x} \in SUBSET T /\ m \in Nat /\ m # 0
                       /\ Cardinality(s \ {x}) = m - 1
    BY <2>2, <2>3, TakenIsOne
  <2>5. SumFunctionOnSet(f, s \ {x}) = 0
    <3>1. m - 1 \in Nat /\ m - 1 \notin Bad
      BY <2>1, <2>4
    <3> QED
      BY <2>4, <3>1
  <2>6. IsFiniteSet(s) /\ \A y \in s : f[y] \in Int
    BY FS_Subset
  <2>7. SumFunctionOnSet(f, s) = f[x] + SumFunctionOnSet(f, s \ {x})
    BY <2>6, SumTakes
  <2> QED
    BY <2>2, <2>4, <2>5, <2>7
<1>2. Cardinality(T) \in Nat /\ T \in SUBSET T
  BY FS_CardinalityType
<1> QED
  BY <1>1, <1>2

\* Sums of natural numbers.
LEMMA SumIsNat ==
  ASSUME NEW T, IsFiniteSet(T), NEW f, \A x \in T : f[x] \in Nat
  PROVE  SumFunctionOnSet(f, T) \in Nat
<1> DEFINE Bad == {n \in Nat : \E s \in SUBSET T : Cardinality(s) = n /\ SumFunctionOnSet(f, s) \notin Nat}
<1>1. Bad = {}
  <2> SUFFICES ASSUME Bad # {} PROVE FALSE
    OBVIOUS
  <2>0. Bad \in SUBSET Nat
    OBVIOUS
  <2>1. PICK m \in Bad : \A k \in Bad : m <= k
    <3> HIDE DEF Bad
    <3> QED
      BY <2>0, LeastNatural
  <2>2. PICK s \in SUBSET T : Cardinality(s) = m /\ SumFunctionOnSet(f, s) \notin Nat
    BY <2>1
  <2>3. s # {}
    BY <2>2, SumOfNothing
  <2> DEFINE x == Taken(s)
  <2>4. /\ x \in s /\ s \ {x} \in SUBSET T /\ m \in Nat /\ m # 0
        /\ Cardinality(s \ {x}) = m - 1
    BY <2>2, <2>3, TakenIsOne
  <2> HIDE DEF x
  <2>5. SumFunctionOnSet(f, s \ {x}) \in Nat
    <3>1. m - 1 \in Nat /\ m - 1 \notin Bad
      BY <2>1, <2>4
    <3> QED
      BY <2>4, <3>1
  <2>6. IsFiniteSet(s) /\ \A y \in s : f[y] \in Int
    BY FS_Subset
  <2>7. SumFunctionOnSet(f, s) = f[x] + SumFunctionOnSet(f, s \ {x})
    BY <2>4, <2>6, SumTakes, Zenon
  <2>8. f[x] \in Nat
    BY <2>4
  <2> QED
    BY <2>2, <2>5, <2>7, <2>8
<1>2. Cardinality(T) \in Nat /\ T \in SUBSET T
  BY FS_CardinalityType
<1> QED
  BY <1>1, <1>2

--------------------------------------------------------------------------
(* Bytes of packets                                                        *)

\* What a packet adds to the bytes of S, and the sums of the first packets.
Weight(x, S) == IF x \in S THEN x.size ELSE 0
Weights(s, S) == [k \in DOMAIN s |-> IF s[k] \in S THEN s[k].size ELSE 0]
Weighed(T, S) == \A x \in T : Weight(x, S) \in Nat
First(s, S, n) == SumFunctionOnSet(Weights(s, S), 1 .. n)

\* The sums of the first packets grow by one packet at a time.
LEMMA FirstGrows ==
  ASSUME NEW T, NEW S, Weighed(T, S), NEW s \in Seq(T)
  PROVE  /\ First(s, S, 0) = 0
         /\ Bytes(s, S) = First(s, S, Len(s))
         /\ \A n \in 1 .. Len(s) : /\ First(s, S, n) \in Int /\ First(s, S, n - 1) \in Int
                                    /\ First(s, S, n) = First(s, S, n - 1) + Weight(s[n], S)
<1> DEFINE w == Weights(s, S)
<1>1. DOMAIN s = 1 .. Len(s) /\ Len(s) \in Nat /\ DOMAIN w = 1 .. Len(s)
  BY DEF Weights
<1>2. \A k \in 1 .. Len(s) : w[k] = Weight(s[k], S) /\ w[k] \in Int
  <2>1. \A k \in 1 .. Len(s) : s[k] \in T
    OBVIOUS
  <2> QED
    BY <1>1, <2>1 DEF Weights, Weight, Weighed
<1>3. 1 .. 0 = {}
  OBVIOUS
<1>4. First(s, S, 0) = 0
  BY <1>3, SumOfNothing DEF First
<1>5. Bytes(s, S) = First(s, S, Len(s))
  <2>1. Bytes(s, S) = SumFunctionOnSet(w, DOMAIN w)
    BY Zenon DEF Bytes, SumFunction, Weights
  <2> QED
    BY <2>1, <1>1 DEF First
<1> HIDE DEF w
<1>6. ASSUME NEW n \in 1 .. Len(s)
      PROVE  /\ First(s, S, n) \in Int /\ First(s, S, n - 1) \in Int
             /\ First(s, S, n) = First(s, S, n - 1) + Weight(s[n], S)
  <2> DEFINE D == 1 .. n
  <2>0. n \in Int /\ 1 \in Int
    BY <1>1
  <2>1. IsFiniteSet(D) /\ n \in D /\ D \ {n} = 1 .. n - 1 /\ D \subseteq 1 .. Len(s)
    <3>1. IsFiniteSet(1 .. n)
      BY <2>0, FS_Interval
    <3>2. n \in D /\ D \subseteq 1 .. Len(s)
      BY <1>1
    <3>3. D \ {n} = 1 .. n - 1
      BY <1>1
    <3> QED
      BY <3>1, <3>2, <3>3
  <2>2. \A k \in D : w[k] \in Int
    BY <2>1, <1>2
  <2> HIDE DEF D
  <2>3. /\ SumFunctionOnSet(w, D) \in Int /\ SumFunctionOnSet(w, D \ {n}) \in Int
        /\ SumFunctionOnSet(w, D) = w[n] + SumFunctionOnSet(w, D \ {n})
    BY <2>1, <2>2, SumTakes
  <2>4. First(s, S, n) = SumFunctionOnSet(w, D)
    BY DEF First, w, D
  <2>5. First(s, S, n - 1) = SumFunctionOnSet(w, D \ {n})
    BY <2>1 DEF First, w
  <2> QED
    BY <2>3, <2>4, <2>5, <1>2
<1> QED
  BY <1>4, <1>5, <1>6

Shifted(s, t, d, n) == \A k \in 1 .. n : t[k + d] = s[k]

\* Two sequences whose packets weigh the same, from some place on.
LEMMA FirstMoves ==
  ASSUME NEW T, NEW S, Weighed(T, S),
         NEW s \in Seq(T), NEW t \in Seq(T), NEW d \in 0 .. 1,
         NEW n \in Nat, n <= Len(s), n + d <= Len(t), Shifted(s, t, d, n)
  PROVE  First(s, S, n) \in Nat /\ First(t, S, n + d) = First(s, S, n) + First(t, S, d)
<1> DEFINE Good(k) == /\ First(s, S, k) \in Nat
                      /\ First(t, S, k + d) = First(s, S, k) + First(t, S, d)
           Bad == {k \in 0 .. n : ~Good(k)}
<1>1. Len(s) \in Nat /\ Len(t) \in Nat /\ First(s, S, 0) = 0
  BY FirstGrows
<1>2. First(t, S, d) \in Int
  <2>1. CASE d = 0
    <3>1. First(t, S, 0) = 0
      BY FirstGrows
    <3> QED
      BY <2>1, <3>1
  <2>2. CASE d = 1
    <3>1. d \in 1 .. Len(t)
      BY <2>2, <1>1
    <3> QED
      BY <3>1, FirstGrows
  <2> QED
    BY <2>1, <2>2
<1>3. Bad = {}
  <2> SUFFICES ASSUME Bad # {} PROVE FALSE
    OBVIOUS
  <2>1. Bad \in SUBSET Nat
    OBVIOUS
  <2>2. PICK m \in Bad : \A k \in Bad : m <= k
    <3> HIDE DEF Bad
    <3> QED
      BY <2>1, LeastNatural
  <2>3. m \in 0 .. n /\ ~Good(m)
    BY <2>2
  <2>4. m # 0
    BY <2>3, <1>1, <1>2
  <2>5. m - 1 \in 0 .. n /\ m \in 1 .. Len(s) /\ m + d \in 1 .. Len(t) /\ m - 1 \notin Bad
    <3>1. m - 1 \in 0 .. n /\ m \in 1 .. Len(s) /\ m + d \in 1 .. Len(t)
      BY <2>3, <2>4, <1>1
    <3> HIDE DEF Bad
    <3> QED
      BY <3>1, <2>2
  <2>6. Good(m - 1)
    BY <2>5
  <2>7. First(s, S, m) = First(s, S, m - 1) + Weight(s[m], S)
    BY <2>5, FirstGrows
  <2>8. First(t, S, m + d) = First(t, S, (m - 1) + d) + Weight(t[m + d], S)
    <3>1. (m + d) - 1 = (m - 1) + d
      BY <2>5
    <3>2. First(t, S, m + d) = First(t, S, (m + d) - 1) + Weight(t[m + d], S)
      BY <2>5, FirstGrows
    <3> QED
      BY <3>1, <3>2
  <2>9. t[m + d] = s[m] /\ Weight(s[m], S) \in Nat
    <3>1. s[m] \in T
      BY <2>5
    <3> QED
      BY <3>1, <2>3, <2>4, <2>5 DEF Shifted, Weighed
  <2> DEFINE a == First(s, S, m - 1)
             b == First(t, S, (m - 1) + d)
             c == First(t, S, d)
             w == Weight(s[m], S)
  <2>10. a \in Nat /\ b = a + c /\ c \in Int /\ w \in Nat
    BY <2>6, <2>9, <1>2
  <2>11. First(s, S, m) = a + w /\ First(t, S, m + d) = b + w
    BY <2>7, <2>8, <2>9
  <2> HIDE DEF a, b, w
  <2> QED
    BY <2>3, <2>10, <2>11
<1>4. n \in 0 .. n
  OBVIOUS
<1> QED
  BY <1>3, <1>4

\* A packet behind the others adds its bytes.
LEMMA AppendBytes ==
  ASSUME NEW T, NEW S, Weighed(T, S), NEW s \in Seq(T), NEW x \in T
  PROVE  /\ Bytes(s, S) \in Nat
         /\ Bytes(Append(s, x), S) = Bytes(s, S) + Weight(x, S)
<1> DEFINE t == Append(s, x)
           n == Len(s)
<1>1. /\ t \in Seq(T) /\ n \in Nat /\ Len(t) = n + 1 /\ t[n + 1] = x
      /\ Shifted(s, t, 0, n)
  BY DEF Shifted
<1> HIDE DEF t
<1>2. First(s, S, n) \in Nat /\ First(t, S, n + 0) = First(s, S, n) + First(t, S, 0)
  <2>1. 0 \in 0 .. 1 /\ n <= Len(s) /\ n + 0 <= Len(t)
    BY <1>1
  <2> HIDE DEF n
  <2> QED
    BY <1>1, <2>1, FirstMoves
<1>3. First(t, S, n + 1) = First(t, S, (n + 1) - 1) + Weight(t[n + 1], S)
  <2>1. n + 1 \in 1 .. Len(t)
    BY <1>1
  <2> HIDE DEF n
  <2> QED
    BY <1>1, <2>1, FirstGrows
<1>4. First(t, S, 0) = 0 /\ Bytes(t, S) = First(t, S, Len(t)) /\ Bytes(s, S) = First(s, S, n)
  BY <1>1, FirstGrows
<1>5. n + 0 = n /\ (n + 1) - 1 = n
  BY <1>1
<1> HIDE DEF n
<1>6. First(t, S, n) = First(s, S, n)
  BY <1>2, <1>4, <1>5
<1> QED
  BY <1>1, <1>2, <1>3, <1>4, <1>5, <1>6 DEF t

\* The packet at the head takes its bytes away.
LEMMA TailBytes ==
  ASSUME NEW T, NEW S, Weighed(T, S), NEW s \in Seq(T), s # <<>>
  PROVE  /\ Bytes(Tail(s), S) \in Nat
         /\ Bytes(s, S) = Bytes(Tail(s), S) + Weight(Head(s), S)
<1> DEFINE r == Tail(s)
           n == Len(r)
<1>1. /\ r \in Seq(T) /\ n \in Nat /\ Len(s) = n + 1 /\ Head(s) = s[1]
      /\ Shifted(r, s, 1, n)
  BY DEF Shifted
<1> HIDE DEF r
<1>2. First(r, S, n) \in Nat /\ First(s, S, n + 1) = First(r, S, n) + First(s, S, 1)
  <2>1. 1 \in 0 .. 1 /\ n <= Len(r) /\ n + 1 <= Len(s)
    BY <1>1
  <2> HIDE DEF n
  <2> QED
    BY <1>1, <2>1, FirstMoves
<1>3. First(s, S, 1) = First(s, S, 1 - 1) + Weight(s[1], S)
  <2>1. 1 \in 1 .. Len(s)
    BY <1>1
  <2> HIDE DEF n
  <2> QED
    BY <2>1, FirstGrows
<1>4. First(s, S, 0) = 0 /\ Bytes(s, S) = First(s, S, Len(s)) /\ Bytes(r, S) = First(r, S, n)
  BY <1>1, FirstGrows
<1>5. 1 - 1 = 0 /\ s[1] \in T
  BY <1>1
<1> HIDE DEF n
<1>6. Weight(s[1], S) \in Nat
  BY <1>5 DEF Weighed
<1> QED
  BY <1>1, <1>2, <1>3, <1>4, <1>5, <1>6 DEF r

\* The bytes of packets are a natural number.
LEMMA BytesNat ==
  ASSUME NEW T, NEW S, Weighed(T, S), NEW s \in Seq(T)
  PROVE  Bytes(s, S) \in Nat
<1> DEFINE n == Len(s)
<1>1. n \in Nat /\ n <= Len(s) /\ n + 0 <= Len(s) /\ 0 \in 0 .. 1 /\ Shifted(s, s, 0, n)
  BY DEF Shifted
<1>2. Bytes(s, S) = First(s, S, n)
  BY FirstGrows
<1> HIDE DEF n
<1> QED
  BY <1>1, <1>2, FirstMoves

\* No packets, no bytes.
LEMMA NoBytes ==
  ASSUME NEW S
  PROVE  Bytes(<<>>, S) = 0
<1>1. <<>> \in Seq({}) /\ Len(<<>>) = 0 /\ Weighed({}, S)
  BY DEF Weighed
<1>2. Bytes(<<>>, S) = First(<<>>, S, Len(<<>>)) /\ First(<<>>, S, 0) = 0
  BY <1>1, FirstGrows
<1> QED
  BY <1>1, <1>2

\* Packets of the switch have a size, whatever set is asked for.
LEMMA PacketsWeigh ==
  ASSUME NEW S
  PROVE  Weighed(Entry, S) /\ Weighed(PipeEntry, S)
BY SizeAssumption DEF Weighed, Weight, Entry, PipeEntry

\* What waits at the ports in class r, of the packets in S.
Queued(qu, r, S) == SumFunction([e \in Ports |-> Bytes(qu[<<e, r>>], S)])
Queues == [Classes -> Seq(Entry)]
\* The queue of port e, class q has d bytes more, of the packets in S.
Gains(qu, qv, S, e, q, d) ==
  \A c \in Classes : Bytes(qv[c], S) = Bytes(qu[c], S) + IF c = <<e, q>> THEN d ELSE 0

\* What waits in class r, of the packets in S, changes like class q.
Grows(qu, qv, S, q, d, r) ==
  /\ Queued(qu, r, S) \in Int /\ Queued(qv, r, S) \in Int
  /\ Queued(qv, r, S) = Queued(qu, r, S) + IF r = q THEN d ELSE 0

\* One queue changes the bytes of its class by as much.
LEMMA QueuedChanges ==
  ASSUME NEW qu \in Queues, NEW qv \in Queues, NEW S, NEW e \in Ports, NEW q \in Prios,
         NEW d \in Int, Gains(qu, qv, S, e, q, d), NEW r \in Prios
  PROVE  Grows(qu, qv, S, q, d, r)
<1> DEFINE f == [p \in Ports |-> Bytes(qu[<<p, r>>], S)]
           g == [p \in Ports |-> Bytes(qv[<<p, r>>], S)]
<1>1. \A p \in Ports : /\ <<p, r>> \in Classes /\ f[p] = Bytes(qu[<<p, r>>], S)
                       /\ g[p] = Bytes(qv[<<p, r>>], S)
  BY DEF Classes
<1>2. \A p \in Ports : f[p] \in Int /\ g[p] \in Int
  <2> SUFFICES ASSUME NEW p \in Ports PROVE f[p] \in Int /\ g[p] \in Int
    OBVIOUS
  <2>1. qu[<<p, r>>] \in Seq(Entry) /\ qv[<<p, r>>] \in Seq(Entry)
    BY <1>1 DEF Queues
  <2>2. Bytes(qu[<<p, r>>], S) \in Nat /\ Bytes(qv[<<p, r>>], S) \in Nat
    BY <2>1, PacketsWeigh, BytesNat
  <2> QED
    BY <1>1, <2>2
<1>3. \A p \in Ports : g[p] = f[p] + IF p = e /\ r = q THEN d ELSE 0
  <2> SUFFICES ASSUME NEW p \in Ports PROVE g[p] = f[p] + IF p = e /\ r = q THEN d ELSE 0
    OBVIOUS
  <2>1. (<<p, r>> = <<e, q>>) <=> (p = e /\ r = q)
    OBVIOUS
  <2> QED
    BY <1>1, <2>1 DEF Gains
<1>4. /\ Queued(qu, r, S) = SumFunctionOnSet(f, Ports)
      /\ Queued(qv, r, S) = SumFunctionOnSet(g, Ports)
  BY Zenon DEF Queued, SumFunction
<1> HIDE DEF f, g
<1>5. \A p \in Ports : p # e => g[p] = f[p]
  BY <1>2, <1>3
<1>6. SumsDiffer(Ports, f, g, e)
  <2>1. DifferAt(Ports, f, g, e)
    BY <1>2, <1>5 DEF DifferAt
  <2> QED
    BY <2>1, SumChanges, FiniteAssumption, Zenon
<1>7. g[e] - f[e] = IF r = q THEN d ELSE 0
  BY <1>2, <1>3
<1> QED
  BY <1>4, <1>6, <1>7 DEF Grows, SumsDiffer

\* What waits is an integer.
LEMMA QueuedInt ==
  ASSUME NEW qu \in Queues, NEW S, NEW e \in Ports, NEW r \in Prios
  PROVE  Queued(qu, r, S) \in Int
<1>1. Gains(qu, qu, S, e, r, 0)
  <2> SUFFICES ASSUME NEW c \in Classes PROVE Bytes(qu[c], S) \in Nat
    BY DEF Gains
  <2>1. qu[c] \in Seq(Entry)
    BY DEF Queues
  <2> QED
    BY <2>1, PacketsWeigh, BytesNat
<1>2. 0 \in Int
  OBVIOUS
<1> QED
  BY <1>1, <1>2, QueuedChanges, Zenon DEF Grows

--------------------------------------------------------------------------
(* What a step does to the packets                                         *)

\* The bytes a counter stands for: of the packets for a queue, and of those of
\* a class from a port.
ForQueue(p, qu, e, r) == Bytes(p, BoundFor(e, r)) + Bytes(qu[<<e, r>>], Entry)
FromPort(p, qu, i, r) == Bytes(p, PipedFrom(i, r)) + Queued(qu, r, QueuedFrom(i))
If(test, size) == IF test THEN size ELSE 0

\* Going from packets p, qu to packets r, qv changes, by d bytes, what stands
\* for the queue of port e, class q and what stands for port i, class q.
Shifts(p, qu, r, qv, e, i, q, d) ==
  \A j \in Ports, k \in Prios :
    /\ ForQueue(p, qu, j, k) \in Int /\ FromPort(p, qu, j, k) \in Int
    /\ ForQueue(r, qv, j, k) = ForQueue(p, qu, j, k) + If(j = e /\ k = q, d)
    /\ FromPort(r, qv, j, k) = FromPort(p, qu, j, k) + If(j = i /\ k = q, d)

\* A packet enters the pipe.
LEMMA ArrivalShifts ==
  ASSUME NEW p \in Seq(PipeEntry), NEW qu \in Queues, NEW x \in PipeEntry
  PROVE  Shifts(p, qu, Append(p, x), qu, x.out, x.in, x.q, x.size)
<1> SUFFICES ASSUME NEW j \in Ports, NEW k \in Prios
             PROVE  /\ ForQueue(p, qu, j, k) \in Int /\ FromPort(p, qu, j, k) \in Int
                    /\ ForQueue(Append(p, x), qu, j, k)
                         = ForQueue(p, qu, j, k) + If(j = x.out /\ k = x.q, x.size)
                    /\ FromPort(Append(p, x), qu, j, k)
                         = FromPort(p, qu, j, k) + If(j = x.in /\ k = x.q, x.size)
  BY Zenon DEF Shifts
<1> DEFINE A == BoundFor(j, k)
           B == PipedFrom(j, k)
           t == Append(p, x)
<1>1. x.size \in Int
  <2>1. x.size \in Nat
    BY SizeAssumption DEF PipeEntry
  <2> QED
    BY <2>1
<1>2. /\ Weight(x, A) = If(j = x.out /\ k = x.q, x.size)
      /\ Weight(x, B) = If(j = x.in /\ k = x.q, x.size)
  <2>1. (x \in A <=> (j = x.out /\ k = x.q)) /\ (x \in B <=> (j = x.in /\ k = x.q))
    BY DEF BoundFor, PipedFrom
  <2> HIDE DEF A, B
  <2> QED
    BY <2>1, <1>1 DEF Weight, If
<1>3. /\ Bytes(p, A) \in Nat /\ Bytes(t, A) = Bytes(p, A) + Weight(x, A)
      /\ Bytes(p, B) \in Nat /\ Bytes(t, B) = Bytes(p, B) + Weight(x, B)
  <2> HIDE DEF A, B
  <2> QED
    BY PacketsWeigh, AppendBytes
<1>4. Bytes(qu[<<j, k>>], Entry) \in Nat
  <2>1. qu[<<j, k>>] \in Seq(Entry)
    BY DEF Queues, Classes
  <2> QED
    BY <2>1, PacketsWeigh, BytesNat
<1>5. Queued(qu, k, QueuedFrom(j)) \in Int
  BY QueuedInt
<1>6. /\ ForQueue(p, qu, j, k) = Bytes(p, A) + Bytes(qu[<<j, k>>], Entry)
      /\ ForQueue(t, qu, j, k) = Bytes(t, A) + Bytes(qu[<<j, k>>], Entry)
      /\ FromPort(p, qu, j, k) = Bytes(p, B) + Queued(qu, k, QueuedFrom(j))
      /\ FromPort(t, qu, j, k) = Bytes(t, B) + Queued(qu, k, QueuedFrom(j))
  BY Zenon DEF ForQueue, FromPort
<1> HIDE DEF A, B, t
<1>7. If(j = x.out /\ k = x.q, x.size) \in Int /\ If(j = x.in /\ k = x.q, x.size) \in Int
  BY <1>1 DEF If
<1> DEFINE u == If(j = x.out /\ k = x.q, x.size)
           v == If(j = x.in /\ k = x.q, x.size)
<1>8. u \in Int /\ v \in Int /\ Weight(x, A) = u /\ Weight(x, B) = v
  BY <1>2, <1>7
<1> HIDE DEF u, v
<1>9. /\ ForQueue(p, qu, j, k) \in Int /\ FromPort(p, qu, j, k) \in Int
      /\ ForQueue(t, qu, j, k) = ForQueue(p, qu, j, k) + u
      /\ FromPort(t, qu, j, k) = FromPort(p, qu, j, k) + v
  BY <1>3, <1>4, <1>5, <1>6, <1>8
<1> QED
  BY <1>9 DEF t, u, v

\* Bytes of a queue that loses or wins its packet at an end.
LEMMA QueueGains ==
  ASSUME NEW qu \in Queues, NEW S, NEW e \in Ports, NEW q \in Prios, NEW n \in Seq(Entry),
         NEW d \in Int, Bytes(n, S) = Bytes(qu[<<e, q>>], S) + d,
         NEW qv, qv = [qu EXCEPT ![<<e, q>>] = n]
  PROVE  Gains(qu, qv, S, e, q, d)
<1> SUFFICES ASSUME NEW c \in Classes
             PROVE  Bytes(qv[c], S) = Bytes(qu[c], S) + IF c = <<e, q>> THEN d ELSE 0
  BY DEF Gains
<1>1. Bytes(qu[c], S) \in Nat
  <2>1. qu[c] \in Seq(Entry)
    BY DEF Queues
  <2> QED
    BY <2>1, PacketsWeigh, BytesNat
<1>2. CASE c = <<e, q>>
  <2>1. qv[c] = n
    BY <1>2 DEF Queues
  <2> QED
    BY <1>2, <2>1
<1>3. CASE c # <<e, q>>
  <2>1. qv[c] = qu[c]
    BY <1>3 DEF Queues
  <2> QED
    BY <1>1, <1>3, <2>1
<1> QED
  BY <1>2, <1>3

\* A packet changes from the pipe to its queue.
LEMMA DeliveryShifts ==
  ASSUME NEW p \in Seq(PipeEntry), p # <<>>, NEW qu \in Queues, NEW qv,
         qv = [qu EXCEPT ![<<Head(p).out, Head(p).q>>]
                 = Append(@, [size |-> Head(p).size, in |-> Head(p).in])]
  PROVE  Shifts(p, qu, Tail(p), qv, Head(p).out, Head(p).in, Head(p).q, 0)
<1> DEFINE x == Head(p)
           y == [size |-> x.size, in |-> x.in]
           t == Tail(p)
           s == qu[<<x.out, x.q>>]
<1>1. x \in PipeEntry /\ t \in Seq(PipeEntry)
  OBVIOUS
<1>2. /\ x.out \in Ports /\ x.q \in Prios /\ x.in \in Ports /\ x.size \in Int
      /\ y \in Entry /\ y.size = x.size /\ y.in = x.in /\ <<x.out, x.q>> \in Classes
  <2> HIDE DEF x
  <2>1. x.out \in Ports /\ x.q \in Prios /\ x.in \in Ports /\ x.size \in Sizes
    BY <1>1 DEF PipeEntry
  <2>2. y \in Entry /\ y.size = x.size /\ y.in = x.in
    BY <2>1 DEF Entry
  <2> HIDE DEF y
  <2>3. x.size \in Nat
    BY <2>1, SizeAssumption
  <2> QED
    BY <2>1, <2>2, <2>3 DEF Classes
<1>3. s \in Seq(Entry)
  BY <1>2 DEF Queues
<1>4. qv = [qu EXCEPT ![<<x.out, x.q>>] = Append(s, y)]
  OBVIOUS
<1> HIDE DEF x, y, t, s
<1> DEFINE n == Append(s, y)
<1>5. n \in Seq(Entry) /\ qv \in Queues
  <2>1. n \in Seq(Entry)
    BY <1>2, <1>3
  <2> HIDE DEF n
  <2> QED
    BY <2>1, <1>4 DEF Queues, n
<1>6. ASSUME NEW S
      PROVE  /\ Bytes(t, S) \in Nat /\ Bytes(p, S) = Bytes(t, S) + Weight(x, S)
             /\ Bytes(s, S) \in Nat
             /\ Bytes(Append(s, y), S) = Bytes(s, S) + Weight(y, S)
             /\ Weight(x, S) \in Nat /\ Weight(y, S) \in Nat
             /\ Gains(qu, qv, S, x.out, x.q, Weight(y, S))
  <2>1. Bytes(t, S) \in Nat /\ Bytes(p, S) = Bytes(t, S) + Weight(x, S)
    BY PacketsWeigh, TailBytes DEF t, x
  <2>2. Bytes(s, S) \in Nat /\ Bytes(Append(s, y), S) = Bytes(s, S) + Weight(y, S)
    BY <1>2, <1>3, PacketsWeigh, AppendBytes
  <2>3. Weight(x, S) \in Nat /\ Weight(y, S) \in Nat
    BY <1>1, <1>2, PacketsWeigh DEF Weighed
  <2>4. Gains(qu, qv, S, x.out, x.q, Weight(y, S))
    <3> DEFINE d == Weight(y, S)
    <3>1. d \in Int /\ Bytes(n, S) = Bytes(qu[<<x.out, x.q>>], S) + d
      BY <2>2, <2>3 DEF s
    <3>2. qv = [qu EXCEPT ![<<x.out, x.q>>] = n]
      BY <1>4
    <3> HIDE DEF n, d
    <3>3. Gains(qu, qv, S, x.out, x.q, d)
      BY <1>2, <1>5, <3>1, <3>2, QueueGains
    <3> QED
      BY <3>3 DEF d
  <2> QED
    BY <2>1, <2>2, <2>3, <2>4
<1> SUFFICES ASSUME NEW j \in Ports, NEW k \in Prios
             PROVE  /\ ForQueue(p, qu, j, k) \in Int /\ FromPort(p, qu, j, k) \in Int
                    /\ ForQueue(t, qv, j, k) = ForQueue(p, qu, j, k) + If(j = x.out /\ k = x.q, 0)
                    /\ FromPort(t, qv, j, k) = FromPort(p, qu, j, k) + If(j = x.in /\ k = x.q, 0)
  BY Zenon DEF Shifts, x, t
<1> DEFINE A == BoundFor(j, k)
           B == PipedFrom(j, k)
           F == QueuedFrom(j)
<1>7. /\ Weight(x, A) = If(j = x.out /\ k = x.q, x.size)
      /\ Weight(x, B) = If(j = x.in /\ k = x.q, x.size)
      /\ Weight(y, Entry) = x.size
      /\ Weight(y, F) = If(j = x.in, x.size)
  <2>1. /\ x \in A <=> (j = x.out /\ k = x.q)
        /\ x \in B <=> (j = x.in /\ k = x.q)
        /\ y \in F <=> j = x.in
    BY <1>1, <1>2 DEF BoundFor, PipedFrom, QueuedFrom
  <2> HIDE DEF A, B, F
  <2> QED
    BY <2>1, <1>2 DEF Weight, If
<1>8. /\ ForQueue(p, qu, j, k) = Bytes(p, A) + Bytes(qu[<<j, k>>], Entry)
      /\ ForQueue(t, qv, j, k) = Bytes(t, A) + Bytes(qv[<<j, k>>], Entry)
      /\ FromPort(p, qu, j, k) = Bytes(p, B) + Queued(qu, k, F)
      /\ FromPort(t, qv, j, k) = Bytes(t, B) + Queued(qv, k, F)
  BY Zenon DEF ForQueue, FromPort
<1>9. /\ Bytes(qu[<<j, k>>], Entry) \in Nat
      /\ Bytes(qv[<<j, k>>], Entry)
           = Bytes(qu[<<j, k>>], Entry) + IF <<j, k>> = <<x.out, x.q>> THEN x.size ELSE 0
  <2>1. <<j, k>> \in Classes
    BY DEF Classes
  <2>2. Bytes(qu[<<j, k>>], Entry) \in Nat
    <3>1. qu[<<j, k>>] \in Seq(Entry)
      BY <2>1 DEF Queues
    <3> QED
      BY <3>1, PacketsWeigh, BytesNat
  <2>3. Gains(qu, qv, Entry, x.out, x.q, x.size)
    BY <1>6, <1>7
  <2> QED
    BY <2>1, <2>2, <2>3 DEF Gains
<1>10. /\ Queued(qu, k, F) \in Int
       /\ Queued(qv, k, F) = Queued(qu, k, F) + IF k = x.q THEN Weight(y, F) ELSE 0
  <2> HIDE DEF F
  <2> DEFINE d == Weight(y, F)
  <2>1. d \in Nat /\ Gains(qu, qv, F, x.out, x.q, d)
    BY <1>6
  <2> HIDE DEF d
  <2>2. d \in Int
    BY <2>1
  <2>3. Grows(qu, qv, F, x.q, d, k)
    BY <2>1, <2>2, <1>2, <1>5, QueuedChanges, Zenon
  <2> QED
    BY <2>3 DEF Grows, d
<1>11. /\ Bytes(p, A) \in Nat /\ Bytes(p, A) = Bytes(t, A) + Weight(x, A) /\ Bytes(t, A) \in Nat
       /\ Bytes(p, B) \in Nat /\ Bytes(p, B) = Bytes(t, B) + Weight(x, B) /\ Bytes(t, B) \in Nat
  BY <1>6
<1> HIDE DEF A, B, F
<1>12. /\ ForQueue(p, qu, j, k) \in Int /\ ForQueue(t, qv, j, k) = ForQueue(p, qu, j, k)
  BY <1>2, <1>7, <1>8, <1>9, <1>11 DEF If
<1>13. /\ FromPort(p, qu, j, k) \in Int /\ FromPort(t, qv, j, k) = FromPort(p, qu, j, k)
  BY <1>2, <1>7, <1>8, <1>10, <1>11 DEF If
<1> QED
  BY <1>12, <1>13 DEF If

\* A packet leaves its queue.
LEMMA DepartureShifts ==
  ASSUME NEW p \in Seq(PipeEntry), NEW qu \in Queues, NEW e \in Ports, NEW q \in Prios,
         qu[<<e, q>>] # <<>>, NEW qv, qv = [qu EXCEPT ![<<e, q>>] = Tail(@)]
  PROVE  Shifts(p, qu, p, qv, e, Head(qu[<<e, q>>]).in, q, 0 - Head(qu[<<e, q>>]).size)
<1> DEFINE s == qu[<<e, q>>]
           x == Head(s)
           t == Tail(s)
<1>1. <<e, q>> \in Classes /\ s \in Seq(Entry) /\ s # <<>>
  BY DEF Classes, Queues
<1>2. qv = [qu EXCEPT ![<<e, q>>] = t]
  OBVIOUS
<1> HIDE DEF s
<1>3. x \in Entry /\ t \in Seq(Entry)
  BY <1>1
<1> HIDE DEF x, t
<1>4. x.in \in Ports /\ x.size \in Int /\ qv \in Queues
  <2>1. x.in \in Ports /\ x.size \in Nat
    BY <1>3, SizeAssumption DEF Entry
  <2>2. qv \in Queues
    BY <1>2, <1>3 DEF Queues
  <2> QED
    BY <2>1, <2>2
<1>5. ASSUME NEW S
      PROVE  /\ Weight(x, S) \in Nat
             /\ Gains(qu, qv, S, e, q, 0 - Weight(x, S))
  <2>1. Bytes(t, S) \in Nat /\ Bytes(s, S) = Bytes(t, S) + Weight(x, S)
    BY <1>1, PacketsWeigh, TailBytes DEF t, x
  <2>2. Weight(x, S) \in Nat
    BY <1>3, PacketsWeigh DEF Weighed
  <2> DEFINE d == 0 - Weight(x, S)
  <2>3. d \in Int /\ Bytes(t, S) = Bytes(qu[<<e, q>>], S) + d
    BY <2>1, <2>2 DEF s
  <2> HIDE DEF d
  <2>4. Gains(qu, qv, S, e, q, d)
    BY <1>2, <1>3, <2>3, QueueGains
  <2> QED
    BY <2>2, <2>4 DEF d
<1> DEFINE m == 0 - x.size
<1> SUFFICES ASSUME NEW j \in Ports, NEW k \in Prios
             PROVE  /\ ForQueue(p, qu, j, k) \in Int /\ FromPort(p, qu, j, k) \in Int
                    /\ ForQueue(p, qv, j, k) = ForQueue(p, qu, j, k) + If(j = e /\ k = q, m)
                    /\ FromPort(p, qv, j, k) = FromPort(p, qu, j, k) + If(j = x.in /\ k = q, m)
  BY Zenon DEF Shifts, x, s
<1> DEFINE A == BoundFor(j, k)
           B == PipedFrom(j, k)
           F == QueuedFrom(j)
<1>6. Weight(x, Entry) = x.size /\ Weight(x, F) = If(j = x.in, x.size)
  <2>1. x \in F <=> j = x.in
    BY <1>3 DEF QueuedFrom
  <2> HIDE DEF F
  <2> QED
    BY <2>1, <1>3 DEF Weight, If
<1>7. /\ ForQueue(p, qu, j, k) = Bytes(p, A) + Bytes(qu[<<j, k>>], Entry)
      /\ ForQueue(p, qv, j, k) = Bytes(p, A) + Bytes(qv[<<j, k>>], Entry)
      /\ FromPort(p, qu, j, k) = Bytes(p, B) + Queued(qu, k, F)
      /\ FromPort(p, qv, j, k) = Bytes(p, B) + Queued(qv, k, F)
  BY Zenon DEF ForQueue, FromPort
<1>8. /\ Bytes(qu[<<j, k>>], Entry) \in Nat
      /\ Bytes(qv[<<j, k>>], Entry)
           = Bytes(qu[<<j, k>>], Entry) + IF <<j, k>> = <<e, q>> THEN m ELSE 0
  <2>1. <<j, k>> \in Classes
    BY DEF Classes
  <2>2. Bytes(qu[<<j, k>>], Entry) \in Nat
    <3>1. qu[<<j, k>>] \in Seq(Entry)
      BY <2>1 DEF Queues
    <3> QED
      BY <3>1, PacketsWeigh, BytesNat
  <2>3. Gains(qu, qv, Entry, e, q, m)
    BY <1>5, <1>6
  <2> QED
    BY <2>1, <2>2, <2>3 DEF Gains
<1> DEFINE d == 0 - Weight(x, F)
<1>9. d = If(j = x.in, m) /\ d \in Int /\ m \in Int
  BY <1>4, <1>6 DEF If
<1>10. /\ Queued(qu, k, F) \in Int
       /\ Queued(qv, k, F) = Queued(qu, k, F) + IF k = q THEN d ELSE 0
  <2>1. Gains(qu, qv, F, e, q, d)
    BY <1>5
  <2> HIDE DEF F, d
  <2>2. Grows(qu, qv, F, q, d, k)
    BY <2>1, <1>4, <1>9, QueuedChanges, Zenon
  <2> QED
    BY <2>2 DEF Grows
<1>11. Bytes(p, A) \in Nat /\ Bytes(p, B) \in Nat
  <2> HIDE DEF A, B
  <2> QED
    BY PacketsWeigh, BytesNat
<1> HIDE DEF A, B, F, d, m
<1>12. /\ ForQueue(p, qu, j, k) \in Int
       /\ ForQueue(p, qv, j, k) = ForQueue(p, qu, j, k) + If(j = e /\ k = q, m)
  BY <1>7, <1>8, <1>9, <1>11 DEF If
<1>13. /\ FromPort(p, qu, j, k) \in Int
       /\ FromPort(p, qv, j, k) = FromPort(p, qu, j, k) + If(j = x.in /\ k = q, m)
  BY <1>7, <1>9, <1>10, <1>11 DEF If
<1> QED
  BY <1>12, <1>13

--------------------------------------------------------------------------
(* The ports and the limits                                                *)

Types ==
  /\ ingressShared \in [Classes -> Int]
  /\ ingressHeadroom \in [Classes -> Int]
  /\ totalShared \in Int
  /\ paused \in [Classes -> BOOLEAN]
  /\ pipe \in Seq(PipeEntry)
  /\ queue \in [Classes -> Seq(Entry)]
  /\ servicing \in [Ports -> Prios \cup {Idle}]

SwInv == Types /\ WorkConserving /\ WithinLimits

--------------------------------------------------------------------------
\* The scheduler returns an idle mark exactly if nothing may be sent, and
\* otherwise a class of that port with a packet in its queue.
LEMMA SelectedIsWaiting ==
  ASSUME NEW e \in Ports, NEW queues, NEW pausedBy
  PROVE  LET s == Selected(e, queues, pausedBy)
         IN IF s = Idle THEN Waiting(e, queues, pausedBy) = {}
                        ELSE s \in Prios /\ queues[<<e, s>>] # <<>>
<1> DEFINE w == Waiting(e, queues, pausedBy)
           s == Selected(e, queues, pausedBy)
<1>1. w \subseteq Nat /\ w \subseteq Prios
  BY BufferAssumption DEF Waiting
<1>2. CASE w = {}
  BY <1>2 DEF Selected
<1>3. CASE w # {}
  <2>1. \E q \in w : \A r \in w : q <= r
    <3>1. w \in SUBSET Nat
      BY <1>1
    <3> HIDE DEF w
    <3> QED
      BY <3>1, <1>3, LeastNatural
  <2>2. s \in w
    BY <2>1, <1>3 DEF Selected
  <2>3. s # Idle
    BY <2>2, <1>1 DEF Idle
  <2> QED
    BY <2>2, <2>3 DEF Waiting
<1> QED
  BY <1>2, <1>3

\* What SelectedIsWaiting gives a port that is idle or has just finished.
LEMMA SelectedType ==
  ASSUME NEW e \in Ports, NEW queues, NEW pausedBy
  PROVE  Selected(e, queues, pausedBy) \in Prios \cup {Idle}
BY SelectedIsWaiting

--------------------------------------------------------------------------
(* Buffer arithmetic                                                       *)

\* The shared part of a packet is between nothing and all of it, and fits
\* into the free space.
LEMMA SharedFits ==
  ASSUME Types, NEW i \in Ports, NEW q \in Prios, NEW size \in Nat
  PROVE  LET s == ToShared(i, q, size)
         IN s \in 0 .. size /\ s <= FreeSpace /\ FreeSpace \in Nat
<1>1. FreeSpace \in Nat
  BY BufferAssumption DEF FreeSpace, Types
<1>2. Dyn \in Int
  <2>1. AlphaNum * FreeSpace \in Nat
    BY <1>1, BufferAssumption
  <2> HIDE DEF FreeSpace
  <2> QED
    BY <2>1, BufferAssumption DEF Dyn
<1>3. PauseThreshold \in Int
  BY <1>2, BufferAssumption DEF PauseThreshold, AtLeast
<1>4. ingressShared[<<i, q>>] \in Int
  BY DEF Types, Classes
<1>5. SharedRoom(i, q) \in Nat /\ SharedRoom(i, q) <= FreeSpace
  BY <1>1, <1>3, <1>4 DEF SharedRoom, AtMost, AtLeast
<1> QED
  BY <1>1, <1>5 DEF ToShared, AtMost

\* Admission keeps the limits: the shared part fits into the pool, the rest
\* into the headroom of the port.
LEMMA AdmitKeepsLimits ==
  ASSUME Types, WithinLimits, NEW e \in Ports, NEW i \in Ports, NEW q \in Prios,
         NEW size \in Nat, AdmitPacket(e, q, size, i)
  PROVE  /\ WithinLimits'
         /\ ingressShared' \in [Classes -> Int]
         /\ ingressHeadroom' \in [Classes -> Int]
         /\ totalShared' \in Int
<1> DEFINE s == ToShared(i, q, size)
<1>1. s \in 0 .. size /\ s <= FreeSpace /\ FreeSpace \in Nat
  BY SharedFits
<1>2. /\ ingressShared' = [ingressShared EXCEPT ![<<i, q>>] = @ + s]
      /\ ingressHeadroom' = [ingressHeadroom EXCEPT ![<<i, q>>] = @ + size - s]
      /\ totalShared' = totalShared + s
  BY DEF AdmitPacket, BookIngress
<1>3. size - s = 0 \/ size - s <= HeadroomOf(i, q) - ingressHeadroom[<<i, q>>]
  BY DEF AdmitPacket, Admits
<1> HIDE DEF s
<1>4. /\ ingressShared' \in [Classes -> Int]
      /\ ingressHeadroom' \in [Classes -> Int]
      /\ totalShared' \in Int
  <2>1. <<i, q>> \in Classes
    BY DEF Classes
  <2> QED
    BY <2>1, <1>1, <1>2 DEF Types
<1>5. totalShared' <= SharedCapacity
  BY <1>1, <1>2, BufferAssumption DEF FreeSpace, Types, WithinLimits
<1>6. ASSUME NEW j \in Ports, NEW r \in Prios
      PROVE  ingressHeadroom'[<<j, r>>] \in 0 .. HeadroomOf(j, r)
  <2>1. ingressHeadroom[<<j, r>>] \in 0 .. HeadroomOf(j, r) /\ HeadroomOf(j, r) \in Nat
    BY BufferAssumption DEF WithinLimits, HeadroomOf
  <2>2. <<j, r>> \in Classes /\ <<i, q>> \in Classes
    BY DEF Classes
  <2>3. CASE j = i /\ r = q
    <3>1. ingressHeadroom'[<<j, r>>] = ingressHeadroom[<<j, r>>] + size - s
      BY <1>2, <2>2, <2>3 DEF Types
    <3> QED
      BY <3>1, <2>1, <2>3, <1>1, <1>3
  <2>4. CASE ~(j = i /\ r = q)
    <3>1. ingressHeadroom'[<<j, r>>] = ingressHeadroom[<<j, r>>]
      BY <1>2, <2>2, <2>4 DEF Types
    <3> QED
      BY <3>1, <2>1
  <2> QED
    BY <2>3, <2>4
<1> QED
  BY <1>4, <1>5, <1>6 DEF WithinLimits, HeadroomOf

\* Release keeps them: it never takes more headroom than is there.
LEMMA ReleaseKeepsLimits ==
  ASSUME Types, WithinLimits, NEW e \in Ports, NEW i \in Ports, NEW q \in Prios,
         NEW size \in Nat, ReleasePacket(e, q, size, i)
  PROVE  /\ WithinLimits'
         /\ ingressShared' \in [Classes -> Int]
         /\ ingressHeadroom' \in [Classes -> Int]
         /\ totalShared' \in Int
<1> DEFINE h == FromHeadroom(i, q, size)
<1>1. ingressHeadroom[<<i, q>>] \in Nat
  BY BufferAssumption DEF WithinLimits, HeadroomOf
<1>2. h \in 0 .. size /\ h <= ingressHeadroom[<<i, q>>]
  BY <1>1 DEF FromHeadroom, AtMost
<1>3. /\ ingressShared' = [ingressShared EXCEPT ![<<i, q>>] = @ - (size - h)]
      /\ ingressHeadroom' = [ingressHeadroom EXCEPT ![<<i, q>>] = @ - h]
      /\ totalShared' = totalShared - (size - h)
  BY DEF ReleasePacket
<1> HIDE DEF h
<1>4. /\ ingressShared' \in [Classes -> Int]
      /\ ingressHeadroom' \in [Classes -> Int]
      /\ totalShared' \in Int
  <2>1. <<i, q>> \in Classes
    BY DEF Classes
  <2> QED
    BY <2>1, <1>2, <1>3 DEF Types
<1>5. totalShared' <= SharedCapacity
  BY <1>2, <1>3, BufferAssumption DEF Types, WithinLimits
<1>6. ASSUME NEW j \in Ports, NEW r \in Prios
      PROVE  ingressHeadroom'[<<j, r>>] \in 0 .. HeadroomOf(j, r)
  <2>1. ingressHeadroom[<<j, r>>] \in 0 .. HeadroomOf(j, r) /\ HeadroomOf(j, r) \in Nat
    BY BufferAssumption DEF WithinLimits, HeadroomOf
  <2>2. <<j, r>> \in Classes /\ <<i, q>> \in Classes
    BY DEF Classes
  <2>3. CASE j = i /\ r = q
    <3>1. ingressHeadroom'[<<j, r>>] = ingressHeadroom[<<j, r>>] - h
      BY <1>3, <2>2, <2>3 DEF Types
    <3> QED
      BY <3>1, <2>1, <2>3, <1>2
  <2>4. CASE ~(j = i /\ r = q)
    <3>1. ingressHeadroom'[<<j, r>>] = ingressHeadroom[<<j, r>>]
      BY <1>3, <2>2, <2>4 DEF Types
    <3> QED
      BY <3>1, <2>1
  <2> QED
    BY <2>3, <2>4
<1> QED
  BY <1>4, <1>5, <1>6 DEF WithinLimits, HeadroomOf

--------------------------------------------------------------------------
(* The initial state and the steps                                         *)

\* Only port e changes: it is enough that e itself keeps working.
LEMMA OnePortChanges ==
  ASSUME Types, WorkConserving, NEW e \in Ports, NEW s \in Prios \cup {Idle},
         servicing' = [servicing EXCEPT ![e] = s],
         \A c \in Classes : c[1] # e => queue'[c] = queue[c] /\ paused'[c] = paused[c],
         IF s = Idle THEN Waiting(e, queue', paused') = {} ELSE queue'[<<e, s>>] # <<>>
  PROVE  WorkConserving'
<1> SUFFICES ASSUME NEW p \in Ports
             PROVE  IF servicing'[p] = Idle THEN Waiting(p, queue', paused') = {}
                                            ELSE queue'[<<p, servicing'[p]>>] # <<>>
  BY DEF WorkConserving, Waiting
<1>1. CASE p = e
  <2>1. servicing'[p] = s
    BY <1>1 DEF Types
  <2> QED
    BY <2>1, <1>1
<1>2. CASE p # e
  <2>1. servicing'[p] = servicing[p] /\ servicing[p] \in Prios \cup {Idle}
    BY <1>2 DEF Types
  <2>2. \A q \in Prios : /\ queue'[<<p, q>>] = queue[<<p, q>>]
                         /\ paused'[<<p, q>>] = paused[<<p, q>>]
    <3>1. \A q \in Prios : <<p, q>> \in Classes /\ <<p, q>>[1] # e
      BY <1>2 DEF Classes
    <3> QED
      BY <3>1
  <2>3. Waiting(p, queue', paused') = Waiting(p, queue, paused)
    BY <2>2 DEF Waiting
  <2> QED
    BY <2>1, <2>2, <2>3 DEF WorkConserving
<1> QED
  BY <1>1, <1>2

\* Nothing is queued and nobody is served.
LEMMA InitSwInv == Init => SwInv
<1> SUFFICES ASSUME Init PROVE SwInv
  OBVIOUS
<1>1. Types
  BY DEF Init, BufInit, Types
<1>2. WorkConserving
  <2>1. \A e \in Ports, q \in Prios : <<e, q>> \in Classes
    BY DEF Classes
  <2> QED
    BY <2>1 DEF Init, WorkConserving, Waiting
<1>3. WithinLimits
  <2>1. \A e \in Ports, q \in Prios : <<e, q>> \in Classes /\ HeadroomOf(e, q) \in Nat
    BY BufferAssumption DEF Classes, HeadroomOf
  <2> QED
    BY <2>1, BufferAssumption DEF Init, BufInit, WithinLimits
<1> QED
  BY <1>1, <1>2, <1>3 DEF SwInv

\* A packet arrives: the buffer books it or leaves it out.
LEMMA ReceiveDataSwInv ==
  ASSUME SwInv, NEW i \in Ports, NEW e \in Ports, NEW q \in Prios, NEW size \in Sizes,
         ReceiveData(i, e, q, size)
  PROVE  SwInv'
<1>1. size \in Nat
  BY SizeAssumption
<1>2. queue' = queue /\ paused' = paused /\ servicing' = servicing
  BY DEF ReceiveData
<1>3. WorkConserving'
  BY <1>2 DEF SwInv, WorkConserving, Waiting
<1>4. CASE AdmitPacket(e, q, size, i) /\ pipe' = Append(pipe, [out |-> e, q |-> q, size |-> size, in |-> i])
  <2>1. pipe' \in Seq(PipeEntry)
    <3>1. [out |-> e, q |-> q, size |-> size, in |-> i] \in PipeEntry
      BY DEF PipeEntry
    <3> QED
      BY <3>1, <1>4 DEF SwInv, Types
  <2> QED
    BY <1>1, <1>2, <1>3, <1>4, <2>1, AdmitKeepsLimits DEF SwInv, Types
<1>5. CASE RejectPacket(i, q, size) /\ UNCHANGED pipe
  BY <1>2, <1>3, <1>5 DEF SwInv, Types, WithinLimits, RejectPacket, bufVars
<1> QED
  BY <1>4, <1>5 DEF ReceiveData

\* The pipe hands a packet to its output port, which starts if it was idle.
LEMMA PipeDeliversSwInv ==
  ASSUME SwInv, PipeDelivers
  PROVE  SwInv'
<1> DEFINE x == Head(pipe)
           entry == [size |-> x.size, in |-> x.in]
           s == ServiceAfterEnqueue(x.out, queue')
<1>1. x \in PipeEntry /\ pipe' \in Seq(PipeEntry)
  BY DEF PipeDelivers, SwInv, Types
<1>2. /\ x.out \in Ports /\ x.q \in Prios /\ entry \in Entry
      /\ <<x.out, x.q>> \in Classes
  BY <1>1 DEF PipeEntry, Entry, Classes
<1>3. /\ queue' = [queue EXCEPT ![<<x.out, x.q>>] = Append(@, entry)]
      /\ servicing' = [servicing EXCEPT ![x.out] = s]
      /\ UNCHANGED <<bufVars, paused>>
  BY DEF PipeDelivers
<1> HIDE DEF x, entry
<1>4. queue' \in [Classes -> Seq(Entry)]
  BY <1>2, <1>3 DEF SwInv, Types
<1>5. \A c \in Classes : c # <<x.out, x.q>> => queue'[c] = queue[c]
  BY <1>2, <1>3 DEF SwInv, Types
<1>6. \A c \in Classes : queue[c] # <<>> => queue'[c] # <<>>
  <2>1. queue'[<<x.out, x.q>>] = Append(queue[<<x.out, x.q>>], entry)
    BY <1>2, <1>3 DEF SwInv, Types
  <2>2. queue[<<x.out, x.q>>] \in Seq(Entry)
    BY <1>2 DEF SwInv, Types
  <2>3. queue'[<<x.out, x.q>>] # <<>>
    BY <1>2, <2>1, <2>2
  <2> QED
    BY <1>5, <2>3
<1>7. /\ s \in Prios \cup {Idle}
      /\ IF s = Idle THEN Waiting(x.out, queue', paused') = {}
                     ELSE queue'[<<x.out, s>>] # <<>>
  <2>1. CASE servicing[x.out] # Idle
    <3>1. s = servicing[x.out] /\ s \in Prios
      BY <1>2, <2>1 DEF ServiceAfterEnqueue, SwInv, Types
    <3>2. queue[<<x.out, s>>] # <<>> /\ <<x.out, s>> \in Classes
      BY <1>2, <2>1, <3>1 DEF SwInv, WorkConserving, Classes
    <3> QED
      BY <2>1, <3>1, <3>2, <1>6
  <2>2. CASE servicing[x.out] = Idle
    <3>1. s = Selected(x.out, queue', paused)
      BY <2>2 DEF ServiceAfterEnqueue
    <3> HIDE DEF s
    <3> QED
      BY <3>1, <1>2, <1>3, SelectedIsWaiting
  <2> QED
    BY <2>1, <2>2
<1>8. WorkConserving'
  <2>1. \A c \in Classes : c[1] # x.out => queue'[c] = queue[c] /\ paused'[c] = paused[c]
    BY <1>3, <1>5
  <2> HIDE DEF s
  <2> QED
    BY <2>1, <1>2, <1>3, <1>7, OnePortChanges DEF SwInv
<1>9. servicing' \in [Ports -> Prios \cup {Idle}]
  <2> HIDE DEF s
  <2> QED
    BY <1>2, <1>3, <1>7 DEF SwInv, Types
<1> QED
  BY <1>1, <1>3, <1>4, <1>8, <1>9 DEF SwInv, Types, WithinLimits, bufVars

\* A packet leaves its port, which goes on with the next one it may send.
LEMMA CompleteServiceSwInv ==
  ASSUME SwInv, NEW e \in Ports, CompleteService(e)
  PROVE  SwInv'
<1> DEFINE q == servicing[e]
           x == Head(queue[<<e, q>>])
           s == Selected(e, queue', paused)
<1>1. q \in Prios /\ <<e, q>> \in Classes
  BY DEF CompleteService, SwInv, Types, Classes
<1>2. queue[<<e, q>>] \in Seq(Entry) /\ queue[<<e, q>>] # <<>>
  BY <1>1 DEF CompleteService, SwInv, Types, WorkConserving
<1>3. x \in Entry /\ Tail(queue[<<e, q>>]) \in Seq(Entry)
  BY <1>2
<1>4. x.in \in Ports /\ x.size \in Nat
  BY <1>3, SizeAssumption DEF Entry
<1>5. /\ queue' = [queue EXCEPT ![<<e, q>>] = Tail(@)]
      /\ ReleasePacket(e, q, x.size, x.in)
      /\ servicing' = [servicing EXCEPT ![e] = s]
      /\ UNCHANGED <<paused, pipe>>
  BY DEF CompleteService
<1> HIDE DEF q, x, s
<1>6. /\ WithinLimits'
      /\ ingressShared' \in [Classes -> Int]
      /\ ingressHeadroom' \in [Classes -> Int]
      /\ totalShared' \in Int
  BY <1>1, <1>4, <1>5, ReleaseKeepsLimits DEF SwInv
<1>7. queue' \in [Classes -> Seq(Entry)]
  BY <1>1, <1>3, <1>5 DEF SwInv, Types
<1>8. \A c \in Classes : c[1] # e => queue'[c] = queue[c] /\ paused'[c] = paused[c]
  BY <1>1, <1>5 DEF SwInv, Types
<1>9. /\ s \in Prios \cup {Idle}
      /\ IF s = Idle THEN Waiting(e, queue', paused') = {} ELSE queue'[<<e, s>>] # <<>>
  <2>1. s = Selected(e, queue', paused) /\ paused' = paused
    BY <1>5 DEF s
  <2> QED
    BY <2>1, SelectedIsWaiting
<1>10. WorkConserving'
  BY <1>5, <1>8, <1>9, OnePortChanges DEF SwInv
<1>11. servicing' \in [Ports -> Prios \cup {Idle}]
  BY <1>5, <1>9 DEF SwInv, Types
<1> QED
  BY <1>5, <1>6, <1>7, <1>10, <1>11 DEF SwInv, Types

\* A pause frame leaves an idle port idle and what a busy port serves is
\* served to the end; a resume starts an idle port.
LEMMA ReceivePauseSwInv ==
  ASSUME SwInv, NEW e \in Ports, NEW classes, NEW pause \in BOOLEAN,
         ReceivePause(e, classes, pause)
  PROVE  SwInv'
<1> DEFINE s == ServiceAfterPause(e, paused', pause)
<1>1. /\ paused' = [c \in Classes |-> IF c[1] = e /\ c[2] \in classes THEN pause ELSE paused[c]]
      /\ servicing' = [servicing EXCEPT ![e] = s]
      /\ UNCHANGED <<bufVars, pipe, queue>>
  BY DEF ReceivePause
<1>2. paused' \in [Classes -> BOOLEAN]
  BY <1>1 DEF SwInv, Types
<1>3. \A c \in Classes : c[1] # e => queue'[c] = queue[c] /\ paused'[c] = paused[c]
  BY <1>1
<1>4. /\ s \in Prios \cup {Idle}
      /\ IF s = Idle THEN Waiting(e, queue', paused') = {} ELSE queue'[<<e, s>>] # <<>>
  <2>1. CASE servicing[e] # Idle
    <3>1. s = servicing[e] /\ s \in Prios
      BY <2>1 DEF ServiceAfterPause, SwInv, Types
    <3> QED
      BY <2>1, <3>1, <1>1 DEF SwInv, WorkConserving
  <2>2. CASE servicing[e] = Idle /\ pause
    <3>1. s = Idle
      BY <2>2 DEF ServiceAfterPause
    <3>2. Waiting(e, queue, paused) = {}
      BY <2>2 DEF SwInv, WorkConserving
    <3>3. \A q \in Prios : paused[<<e, q>>] => paused'[<<e, q>>]
      <4>1. \A q \in Prios : <<e, q>> \in Classes
        BY DEF Classes
      <4> QED
        BY <4>1, <1>1, <2>2
    <3>4. Waiting(e, queue', paused') = {}
      BY <1>1, <3>2, <3>3 DEF Waiting
    <3> QED
      BY <3>1, <3>4
  <2>3. CASE servicing[e] = Idle /\ ~pause
    <3>1. s = Selected(e, queue', paused')
      BY <2>3, <1>1 DEF ServiceAfterPause
    <3> HIDE DEF s
    <3> QED
      BY <3>1, SelectedIsWaiting
  <2> QED
    BY <2>1, <2>2, <2>3
<1> HIDE DEF s
<1>5. WorkConserving'
  BY <1>1, <1>3, <1>4, OnePortChanges DEF SwInv
<1>6. servicing' \in [Ports -> Prios \cup {Idle}]
  BY <1>1, <1>4 DEF SwInv, Types
<1> QED
  BY <1>1, <1>2, <1>5, <1>6 DEF SwInv, Types, WithinLimits, bufVars

\* Every step of the switch keeps the invariant.
LEMMA NextSwInv == SwInv /\ [Next]_vars => SwInv'
<1> SUFFICES ASSUME SwInv, [Next]_vars PROVE SwInv'
  OBVIOUS
<1>1. CASE Arrivals
  BY <1>1, ReceiveDataSwInv DEF Arrivals
<1>2. CASE PipeDelivers
  BY <1>2, PipeDeliversSwInv
<1>3. CASE Services
  BY <1>3, CompleteServiceSwInv DEF Services
<1>4. CASE PauseFrames
  BY <1>4, ReceivePauseSwInv DEF PauseFrames
<1>5. CASE UNCHANGED vars
  BY <1>5 DEF SwInv, Types, WorkConserving, Waiting, WithinLimits, vars, swVars, bufVars
<1> QED
  BY <1>1, <1>2, <1>3, <1>4, <1>5 DEF Next

--------------------------------------------------------------------------
(* The books                                                               *)

\* Bytes of packets from a port are never negative.
LEMMA FromPortNat ==
  ASSUME NEW p \in Seq(PipeEntry), NEW qu \in Queues, NEW i \in Ports, NEW r \in Prios
  PROVE  FromPort(p, qu, i, r) \in Nat
<1> DEFINE f == [e \in Ports |-> Bytes(qu[<<e, r>>], QueuedFrom(i))]
<1>1. \A e \in Ports : f[e] \in Nat
  <2> SUFFICES ASSUME NEW e \in Ports PROVE Bytes(qu[<<e, r>>], QueuedFrom(i)) \in Nat
    OBVIOUS
  <2>1. qu[<<e, r>>] \in Seq(Entry)
    BY DEF Queues, Classes
  <2> QED
    BY <2>1, PacketsWeigh, BytesNat
<1>2. Queued(qu, r, QueuedFrom(i)) = SumFunctionOnSet(f, Ports)
  BY Zenon DEF Queued, SumFunction
<1> HIDE DEF f
<1>3. SumFunctionOnSet(f, Ports) \in Nat
  BY <1>1, SumIsNat, FiniteAssumption
<1>4. Bytes(p, PipedFrom(i, r)) \in Nat
  BY PacketsWeigh, BytesNat
<1> QED
  BY <1>2, <1>3, <1>4 DEF FromPort

\* The total of g is that of f and d.
TotalGrows(f, g, d) == SumFunction(f) \in Int /\ SumFunction(g) = SumFunction(f) + d

\* A counter that changes changes the total as much.
LEMMA TotalChanges ==
  ASSUME NEW f \in [Classes -> Int], NEW c \in Classes, NEW d \in Int,
         NEW g, g = [f EXCEPT ![c] = @ + d]
  PROVE  TotalGrows(f, g, d)
<1>1. IsFiniteSet(Classes)
  BY FiniteAssumption, FS_Product DEF Classes
<1>2. DOMAIN f = Classes /\ DOMAIN g = Classes /\ g[c] = f[c] + d
  OBVIOUS
<1>3. /\ \A x \in Classes : f[x] \in Int /\ g[x] \in Int
      /\ \A x \in Classes : x # c => g[x] = f[x]
  OBVIOUS
<1>4. /\ SumFunction(f) = SumFunctionOnSet(f, Classes)
      /\ SumFunction(g) = SumFunctionOnSet(g, Classes)
  BY <1>2, Zenon DEF SumFunction
<1>5. SumsDiffer(Classes, f, g, c)
  <2>1. DifferAt(Classes, f, g, c)
    BY <1>3 DEF DifferAt
  <2> QED
    BY <1>1, <2>1, SumChanges, Zenon
<1>6. g[c] - f[c] = d
  BY <1>2
<1> QED
  BY <1>4, <1>5, <1>6 DEF TotalGrows, SumsDiffer

EgressAgrees == \A e \in Ports, q \in Prios : egressUsed[<<e, q>>] = ForQueue(pipe, queue, e, q)
IngressAgrees ==
  \A i \in Ports, q \in Prios :
    /\ ingressShared[<<i, q>>] + ingressHeadroom[<<i, q>>] = FromPort(pipe, queue, i, q)
    /\ ingressShared[<<i, q>>] >= 0
TotalsAgree ==
  totalUsed = SumFunction(egressUsed) /\ totalShared = SumFunction(ingressShared)

LedgerInv ==
  /\ egressUsed \in [Classes -> Int] /\ totalUsed \in Int
  /\ EgressAgrees /\ IngressAgrees /\ TotalsAgree

\* The parts are the whole.
LEMMA AgreeIs == AccountsAgree <=> EgressAgrees /\ IngressAgrees /\ TotalsAgree
BY Zenon DEF AccountsAgree, EgressAgrees, IngressAgrees, TotalsAgree, ForQueue, FromPort, Queued

\* Every booking: the counters of one egress queue and of one ingress class go
\* with the packets.
Books(e, i, q, s, h) ==
  /\ ingressShared' = [ingressShared EXCEPT ![<<i, q>>] = @ + s]
  /\ ingressHeadroom' = [ingressHeadroom EXCEPT ![<<i, q>>] = @ + h]
  /\ totalShared' = totalShared + s
  /\ egressUsed' = [egressUsed EXCEPT ![<<e, q>>] = @ + (s + h)]
  /\ totalUsed' = totalUsed + (s + h)

\* A booking that goes with the packets keeps the ledger.
LEMMA BooksKeepLedger ==
  ASSUME SwInv, LedgerInv, NEW e \in Ports, NEW i \in Ports, NEW q \in Prios,
         NEW s \in Int, NEW h \in Int, Books(e, i, q, s, h),
         ingressShared[<<i, q>>] + s >= 0,
         Shifts(pipe, queue, pipe', queue', e, i, q, s + h)
  PROVE  LedgerInv'
<1> DEFINE d == s + h
<1>1. /\ ingressShared \in [Classes -> Int] /\ ingressHeadroom \in [Classes -> Int]
      /\ totalShared \in Int /\ egressUsed \in [Classes -> Int] /\ totalUsed \in Int
      /\ d \in Int /\ <<i, q>> \in Classes /\ <<e, q>> \in Classes
  BY DEF SwInv, Types, LedgerInv, Classes
<1>2. /\ ingressShared' = [ingressShared EXCEPT ![<<i, q>>] = @ + s]
      /\ ingressHeadroom' = [ingressHeadroom EXCEPT ![<<i, q>>] = @ + h]
      /\ totalShared' = totalShared + s
      /\ egressUsed' = [egressUsed EXCEPT ![<<e, q>>] = @ + d]
      /\ totalUsed' = totalUsed + d
  BY DEF Books
<1>3. Shifts(pipe, queue, pipe', queue', e, i, q, d)
  OBVIOUS
<1>4. TotalsAgree'
  <2> HIDE DEF d
  <2>1. TotalGrows(egressUsed, egressUsed', d)
    BY <1>1, <1>2, TotalChanges, Zenon
  <2>2. TotalGrows(ingressShared, ingressShared', s)
    BY <1>1, <1>2, TotalChanges, Zenon
  <2> QED
    BY <2>1, <2>2, <1>2 DEF TotalGrows, LedgerInv, TotalsAgree
<1>5. EgressAgrees'
  <2> HIDE DEF d
  <2> SUFFICES ASSUME NEW j \in Ports, NEW k \in Prios
               PROVE  egressUsed'[<<j, k>>] = ForQueue(pipe', queue', j, k)
    BY DEF EgressAgrees
  <2>1. egressUsed[<<j, k>>] = ForQueue(pipe, queue, j, k) /\ <<j, k>> \in Classes
    BY DEF LedgerInv, EgressAgrees, Classes
  <2>2. /\ ForQueue(pipe, queue, j, k) \in Int
        /\ ForQueue(pipe', queue', j, k) = ForQueue(pipe, queue, j, k) + If(j = e /\ k = q, d)
    BY <1>3 DEF Shifts
  <2>3. CASE j = e /\ k = q
    BY <1>1, <1>2, <2>1, <2>2, <2>3 DEF If
  <2>4. CASE ~(j = e /\ k = q)
    <3>1. egressUsed'[<<j, k>>] = egressUsed[<<j, k>>]
      BY <1>1, <1>2, <2>1, <2>4
    <3> QED
      BY <2>1, <2>2, <2>4, <3>1 DEF If
  <2> QED
    BY <2>3, <2>4
<1>6. IngressAgrees'
  <2> SUFFICES ASSUME NEW j \in Ports, NEW k \in Prios
               PROVE  /\ ingressShared'[<<j, k>>] + ingressHeadroom'[<<j, k>>]
                           = FromPort(pipe', queue', j, k)
                      /\ ingressShared'[<<j, k>>] >= 0
    BY DEF IngressAgrees
  <2>1. /\ ingressShared[<<j, k>>] + ingressHeadroom[<<j, k>>] = FromPort(pipe, queue, j, k)
        /\ ingressShared[<<j, k>>] >= 0 /\ <<j, k>> \in Classes
    BY DEF LedgerInv, IngressAgrees, Classes
  <2>2. /\ FromPort(pipe, queue, j, k) \in Int
        /\ FromPort(pipe', queue', j, k) = FromPort(pipe, queue, j, k) + If(j = i /\ k = q, d)
    BY <1>3 DEF Shifts
  <2>3. ingressShared[<<j, k>>] \in Int /\ ingressHeadroom[<<j, k>>] \in Int
    BY <1>1, <2>1
  <2>4. CASE j = i /\ k = q
    <3>1. /\ ingressShared'[<<j, k>>] = ingressShared[<<j, k>>] + s
          /\ ingressHeadroom'[<<j, k>>] = ingressHeadroom[<<j, k>>] + h
      BY <1>1, <1>2, <2>1, <2>4
    <3>2. FromPort(pipe', queue', j, k) = FromPort(pipe, queue, j, k) + (s + h)
      BY <2>2, <2>4 DEF If
    <3> QED
      BY <2>1, <2>2, <2>3, <2>4, <3>1, <3>2
  <2>5. CASE ~(j = i /\ k = q)
    <3>1. /\ ingressShared'[<<j, k>>] = ingressShared[<<j, k>>]
          /\ ingressHeadroom'[<<j, k>>] = ingressHeadroom[<<j, k>>]
      BY <1>1, <1>2, <2>1, <2>5
    <3>2. FromPort(pipe', queue', j, k) = FromPort(pipe, queue, j, k)
      BY <2>2, <2>5 DEF If
    <3> QED
      BY <2>1, <3>1, <3>2
  <2> QED
    BY <2>4, <2>5
<1> QED
  BY <1>1, <1>2, <1>4, <1>5, <1>6 DEF LedgerInv

\* An empty switch has nothing on its books.
LEMMA InitLedger == Init => LedgerInv
<1> SUFFICES ASSUME Init PROVE LedgerInv
  OBVIOUS
<1> DEFINE zero == [c \in Classes |-> 0]
<1>1. /\ egressUsed = zero /\ ingressShared = zero /\ ingressHeadroom = zero
      /\ totalUsed = 0 /\ totalShared = 0 /\ pipe = <<>> /\ queue = [c \in Classes |-> <<>>]
  BY DEF Init, BufInit
<1>2. \A e \in Ports, q \in Prios : <<e, q>> \in Classes
  BY DEF Classes
<1>3. SumFunction(zero) = 0
  <2>1. IsFiniteSet(Classes)
    BY FiniteAssumption, FS_Product DEF Classes
  <2>2. DOMAIN zero = Classes /\ \A c \in Classes : zero[c] = 0
    OBVIOUS
  <2> HIDE DEF zero
  <2>3. SumFunction(zero) = SumFunctionOnSet(zero, Classes)
    BY <2>2, Zenon DEF SumFunction
  <2> QED
    BY <2>1, <2>2, <2>3, SumOfZeroes
<1>4. \A e \in Ports, q \in Prios : queue[<<e, q>>] = <<>> /\ zero[<<e, q>>] = 0
  BY <1>1, <1>2
<1>5. \A S : Bytes(pipe, S) = 0
  BY <1>1, NoBytes
<1>6. \A S : \A e \in Ports, q \in Prios : Bytes(queue[<<e, q>>], S) = 0
  BY <1>4, NoBytes
<1>7. \A S : \A q \in Prios : Queued(queue, q, S) = 0
  <2> SUFFICES ASSUME NEW S, NEW q \in Prios PROVE Queued(queue, q, S) = 0
    OBVIOUS
  <2> DEFINE f == [e \in Ports |-> Bytes(queue[<<e, q>>], S)]
  <2>1. \A e \in Ports : f[e] = 0
    BY <1>6
  <2>2. Queued(queue, q, S) = SumFunctionOnSet(f, Ports)
    BY Zenon DEF Queued, SumFunction
  <2> HIDE DEF f
  <2> QED
    BY <2>1, <2>2, SumOfZeroes, FiniteAssumption
<1>8. \A e \in Ports, q \in Prios :
        ForQueue(pipe, queue, e, q) = 0 /\ FromPort(pipe, queue, e, q) = 0
  <2> SUFFICES ASSUME NEW e \in Ports, NEW q \in Prios
               PROVE  ForQueue(pipe, queue, e, q) = 0 /\ FromPort(pipe, queue, e, q) = 0
    OBVIOUS
  <2>1. Bytes(pipe, BoundFor(e, q)) = 0 /\ Bytes(pipe, PipedFrom(e, q)) = 0
    BY <1>5
  <2>2. Bytes(queue[<<e, q>>], Entry) = 0 /\ Queued(queue, q, QueuedFrom(e)) = 0
    BY <1>6, <1>7
  <2> QED
    BY <2>1, <2>2 DEF ForQueue, FromPort
<1>9. zero \in [Classes -> Int]
  OBVIOUS
<1> HIDE DEF zero
<1> QED
  BY <1>1, <1>3, <1>4, <1>8, <1>9 DEF LedgerInv, EgressAgrees, IngressAgrees, TotalsAgree

\* An admitted packet is on the books from the pipe on; a rejected one never is.
LEMMA ReceiveDataLedger ==
  ASSUME SwInv, LedgerInv, NEW i \in Ports, NEW e \in Ports, NEW q \in Prios,
         NEW size \in Sizes, ReceiveData(i, e, q, size)
  PROVE  LedgerInv'
<1>1. size \in Nat
  BY SizeAssumption
<1>2. queue' = queue
  BY DEF ReceiveData
<1> DEFINE x == [out |-> e, q |-> q, size |-> size, in |-> i]
<1>3. CASE AdmitPacket(e, q, size, i) /\ pipe' = Append(pipe, x)
  <2> DEFINE s == ToShared(i, q, size)
             h == size - s
  <2>1. s \in 0 .. size
    BY <1>1, SharedFits DEF SwInv
  <2>2. /\ ingressShared' = [ingressShared EXCEPT ![<<i, q>>] = @ + s]
        /\ ingressHeadroom' = [ingressHeadroom EXCEPT ![<<i, q>>] = @ + size - s]
        /\ totalShared' = totalShared + s
        /\ egressUsed' = [egressUsed EXCEPT ![<<e, q>>] = @ + size]
        /\ totalUsed' = totalUsed + size
    BY <1>3 DEF AdmitPacket, BookIngress
  <2> HIDE DEF s
  <2>3. s \in Int /\ h \in Int /\ s + h = size
    BY <1>1, <2>1
  <2>4. /\ ingressHeadroom[<<i, q>>] \in Int /\ ingressShared[<<i, q>>] \in Int
        /\ ingressShared[<<i, q>>] >= 0
    BY DEF SwInv, Types, Classes, LedgerInv, IngressAgrees
  <2>5. ingressHeadroom[<<i, q>>] + size - s = ingressHeadroom[<<i, q>>] + h
    BY <1>1, <2>1, <2>4
  <2>6. Books(e, i, q, s, h)
    <3> HIDE DEF h
    <3> QED
      BY <2>2, <2>3, <2>5 DEF Books
  <2>7. Shifts(pipe, queue, pipe', queue', e, i, q, s + h)
    <3>1. x \in PipeEntry /\ x.out = e /\ x.in = i /\ x.q = q /\ x.size = size
      BY DEF PipeEntry
    <3>2. pipe \in Seq(PipeEntry) /\ queue \in Queues
      BY DEF SwInv, Types, Queues
    <3> HIDE DEF x, h
    <3>3. Shifts(pipe, queue, Append(pipe, x), queue, x.out, x.in, x.q, x.size)
      BY <3>1, <3>2, ArrivalShifts, Zenon
    <3> QED
      BY <3>1, <3>3, <1>2, <1>3, <2>3
  <2>8. ingressShared[<<i, q>>] + s >= 0
    BY <2>1, <2>4
  <2> HIDE DEF h
  <2> QED
    BY <2>3, <2>6, <2>7, <2>8, BooksKeepLedger
<1>4. CASE RejectPacket(i, q, size) /\ UNCHANGED pipe
  BY <1>2, <1>4 DEF LedgerInv, EgressAgrees, IngressAgrees, TotalsAgree, RejectPacket, bufVars
<1> QED
  BY <1>3, <1>4 DEF ReceiveData

\* The books do not tell the pipe from the queues.
LEMMA PipeDeliversLedger ==
  ASSUME SwInv, LedgerInv, PipeDelivers
  PROVE  LedgerInv'
<1>1. /\ pipe # <<>> /\ pipe' = Tail(pipe) /\ UNCHANGED bufVars
      /\ queue' = [queue EXCEPT ![<<Head(pipe).out, Head(pipe).q>>]
                     = Append(@, [size |-> Head(pipe).size, in |-> Head(pipe).in])]
  BY DEF PipeDelivers
<1>2. pipe \in Seq(PipeEntry) /\ queue \in Queues
  BY DEF SwInv, Types, Queues
<1>3. Shifts(pipe, queue, pipe', queue', Head(pipe).out, Head(pipe).in, Head(pipe).q, 0)
  BY <1>1, <1>2, DeliveryShifts
<1>4. \A j \in Ports, k \in Prios : /\ ForQueue(pipe', queue', j, k) = ForQueue(pipe, queue, j, k)
                                    /\ FromPort(pipe', queue', j, k) = FromPort(pipe, queue, j, k)
  <2> DEFINE x == Head(pipe)
  <2> HIDE DEF x
  <2>1. Shifts(pipe, queue, pipe', queue', x.out, x.in, x.q, 0)
    BY <1>3 DEF x
  <2> QED
    BY <2>1 DEF Shifts, If
<1> QED
  BY <1>1, <1>4 DEF LedgerInv, EgressAgrees, IngressAgrees, TotalsAgree, bufVars

\* What leaves is taken off: first from the headroom, and what is left from the
\* shared pool, which has at least that.
LEMMA CompleteServiceLedger ==
  ASSUME SwInv, LedgerInv, NEW e \in Ports, CompleteService(e)
  PROVE  LedgerInv'
<1> DEFINE q == servicing[e]
           x == Head(queue[<<e, q>>])
           i == x.in
           size == x.size
           h == FromHeadroom(i, q, size)
<1>1. q \in Prios /\ <<e, q>> \in Classes
  BY DEF CompleteService, SwInv, Types, Classes
<1>2. queue[<<e, q>>] \in Seq(Entry) /\ queue[<<e, q>>] # <<>> /\ queue \in Queues
      /\ pipe \in Seq(PipeEntry) /\ pipe' = pipe
  BY <1>1 DEF CompleteService, SwInv, Types, WorkConserving, Queues
<1>3. i \in Ports /\ size \in Nat
  <2>1. x \in Entry
    BY <1>2
  <2> QED
    BY <2>1, SizeAssumption DEF Entry
<1>4. queue' = [queue EXCEPT ![<<e, q>>] = Tail(@)] /\ ReleasePacket(e, q, size, i)
  BY DEF CompleteService
<1>5. Shifts(pipe, queue, pipe, queue', e, i, q, 0 - size)
  <2> HIDE DEF q
  <2> QED
    BY <1>1, <1>2, <1>4, DepartureShifts, Zenon
<1>6. /\ egressUsed' = [egressUsed EXCEPT ![<<e, q>>] = @ - size]
      /\ totalUsed' = totalUsed - size
      /\ ingressHeadroom' = [ingressHeadroom EXCEPT ![<<i, q>>] = @ - h]
      /\ ingressShared' = [ingressShared EXCEPT ![<<i, q>>] = @ - (size - h)]
      /\ totalShared' = totalShared - (size - h)
  <2> HIDE DEF q, x
  <2> QED
    BY <1>4 DEF ReleasePacket
<1> HIDE DEF q, x, i, size
<1>7. /\ ingressHeadroom[<<i, q>>] \in 0 .. HeadroomOf(i, q) /\ HeadroomOf(i, q) \in Nat
      /\ ingressShared[<<i, q>>] \in Int /\ ingressShared[<<i, q>>] >= 0
      /\ ingressShared[<<i, q>>] + ingressHeadroom[<<i, q>>] = FromPort(pipe, queue, i, q)
      /\ q \notin PfcPrios => HeadroomOf(i, q) = 0
  BY <1>1, <1>3, BufferAssumption DEF SwInv, Types, WithinLimits, Classes, LedgerInv,
                                      IngressAgrees, HeadroomOf
<1>8. FromPort(pipe, queue, i, q) >= size
  <2>1. FromPort(pipe, queue', i, q) \in Nat
    <3>1. queue' \in Queues
      <4>1. Tail(queue[<<e, q>>]) \in Seq(Entry)
        BY <1>2
      <4> QED
        BY <1>2, <1>4, <4>1 DEF Queues
    <3> QED
      BY <1>1, <1>2, <1>3, <3>1, FromPortNat
  <2>2. /\ FromPort(pipe, queue, i, q) \in Int
        /\ FromPort(pipe, queue', i, q) = FromPort(pipe, queue, i, q) + If(i = i /\ q = q, 0 - size)
    BY <1>1, <1>3, <1>5, Zenon DEF Shifts
  <2>3. FromPort(pipe, queue', i, q) = FromPort(pipe, queue, i, q) + (0 - size)
    BY <2>2 DEF If
  <2> QED
    BY <1>3, <2>1, <2>2, <2>3
<1>9. h \in 0 .. size /\ (h = size \/ h = ingressHeadroom[<<i, q>>])
  BY <1>3, <1>7 DEF FromHeadroom, AtMost
<1> HIDE DEF h
<1> DEFINE s == h - size
           g == 0 - h
<1>10. /\ s \in Int /\ g \in Int /\ s + g = 0 - size
       /\ ingressShared[<<i, q>>] + s >= 0
  BY <1>3, <1>7, <1>8, <1>9
<1>11. Books(e, i, q, s, g)
  <2>1. /\ egressUsed \in [Classes -> Int] /\ totalUsed \in Int /\ totalShared \in Int
        /\ ingressShared \in [Classes -> Int] /\ ingressHeadroom \in [Classes -> Int]
        /\ <<e, q>> \in Classes /\ <<i, q>> \in Classes
    BY <1>1, <1>3 DEF SwInv, Types, LedgerInv, Classes
  <2>2. /\ egressUsed[<<e, q>>] - size = egressUsed[<<e, q>>] + (s + g)
        /\ totalUsed - size = totalUsed + (s + g)
        /\ totalShared - (size - h) = totalShared + s
        /\ ingressShared[<<i, q>>] - (size - h) = ingressShared[<<i, q>>] + s
        /\ ingressHeadroom[<<i, q>>] - h = ingressHeadroom[<<i, q>>] + g
    BY <1>3, <1>9, <1>10, <2>1
  <2> HIDE DEF s, g
  <2> QED
    BY <1>6, <2>2 DEF Books
<1>12. Shifts(pipe, queue, pipe', queue', e, i, q, s + g)
  <2> HIDE DEF s, g
  <2> QED
    BY <1>2, <1>5, <1>10
<1> HIDE DEF s, g
<1> QED
  BY <1>1, <1>3, <1>10, <1>11, <1>12, BooksKeepLedger

\* Every step of the switch keeps the books.
LEMMA NextLedger == SwInv /\ LedgerInv /\ [Next]_vars => LedgerInv'
<1> SUFFICES ASSUME SwInv, LedgerInv, [Next]_vars PROVE LedgerInv'
  OBVIOUS
<1>1. CASE Arrivals
  BY <1>1, ReceiveDataLedger DEF Arrivals
<1>2. CASE PipeDelivers
  BY <1>2, PipeDeliversLedger
<1>3. CASE Services
  BY <1>3, CompleteServiceLedger DEF Services
<1>4. CASE PauseFrames \/ UNCHANGED vars
  <2>1. UNCHANGED <<bufVars, pipe, queue>>
    BY <1>4 DEF PauseFrames, ReceivePause, vars, swVars
  <2> QED
    BY <2>1 DEF LedgerInv, EgressAgrees, IngressAgrees, TotalsAgree, bufVars
<1> QED
  BY <1>1, <1>2, <1>3, <1>4 DEF Next

--------------------------------------------------------------------------
(* Theorems                                                                *)

\* The inductive invariant of the switch.
THEOREM SwitchInvariant == Spec => []SwInv
  BY InitSwInv, NextSwInv, PTL DEF Spec

\* However enqueues, pauses, resumes and completions interleave, no output
\* port sleeps while it has a packet of a class that is not paused, and no
\* port serves a queue that is empty (sing_switch_output_port.cpp:94-149).
THEOREM PortsConserveWork == Spec => []WorkConserving
  BY SwitchInvariant, PTL DEF SwInv

\* The shared pool is never overdrawn, and no port uses more headroom than
\* it was given, whatever the dynamic threshold does while packets are in the
\* buffer (the assertions of sing_switch_buffer_manager.cpp:135 and :185).
THEOREM BufferWithinLimits == Spec => []WithinLimits
  BY SwitchInvariant, PTL DEF SwInv

\* Each counter of the buffer manager is always the bytes of the packets it
\* stands for, in the pipe and in the queues: a release, which does not know how
\* the packet was split between the shared pool and the headroom, never takes
\* more from either than is there (sing_switch_buffer_manager.cpp:116-185).
THEOREM BooksAlwaysAgree == Spec => []AccountsAgree
<1>1. Init => LedgerInv
  BY InitLedger
<1>2. SwInv /\ SwInv' /\ LedgerInv /\ [Next]_vars => LedgerInv'
  BY NextLedger
<1>3. LedgerInv => AccountsAgree
  BY AgreeIs DEF LedgerInv
<1> QED
  BY <1>1, <1>2, <1>3, SwitchInvariant, PTL DEF Spec
==========================================================================
