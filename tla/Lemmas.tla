-------------------------------- MODULE Lemmas ---------------------------------
(***************************************************************************)
(* Facts the other proofs share: positions of a ring of N slots, where     *)
(* position p lives in slot p % N; least elements, from which inductions   *)
(* are made; sums over finite sets.                                        *)
(***************************************************************************)
EXTENDS Integers, FiniteSets, Functions, FiniteSetTheorems, WellFoundedInduction, TLAPS

(* Two numbers less than N apart fall into different slots of a ring of N. *)
LEMMA SlotsDiffer ==
  ASSUME NEW N \in Nat \ {0}, NEW a \in Nat, NEW b \in Nat, a < b, b - a < N
  PROVE  a % N # b % N
<1> DEFINE qa == a \div N
           qb == b \div N
<1>1. /\ qa \in Int /\ qb \in Int
      /\ a = N * qa + (a % N)
      /\ b = N * qb + (b % N)
  OBVIOUS
<1>2. SUFFICES ASSUME a % N = b % N PROVE FALSE
  OBVIOUS
<1>3. b - a = N * (qb - qa)
  BY <1>1, <1>2
<1>4. CASE qb - qa <= 0
  BY <1>1, <1>3, <1>4
<1>5. CASE qb - qa >= 1
  BY <1>1, <1>3, <1>5
<1>6. QED
  BY <1>1, <1>4, <1>5

LEMMA SlotInRange ==
  ASSUME NEW N \in Nat \ {0}, NEW a \in Nat
  PROVE  a % N \in 0..N-1
  OBVIOUS

(* A position and the position one lap later share a slot.                 *)
LEMMA SlotWraps ==
  ASSUME NEW N \in Nat \ {0}, NEW a \in Nat
  PROVE  (a + N) % N = a % N
<1> DEFINE q == a \div N
           w == (a + N) \div N
<1>1. /\ q \in Int /\ w \in Int
      /\ a = N * q + (a % N) /\ a % N \in 0..N-1
      /\ a + N = N * w + ((a + N) % N) /\ (a + N) % N \in 0..N-1
  OBVIOUS
<1>2. ((a + N) % N) - (a % N) = N * (q + 1 - w)
  BY <1>1
<1>3. CASE q + 1 - w >= 1
  BY <1>1, <1>2, <1>3
<1>4. CASE q + 1 - w <= -1
  BY <1>1, <1>2, <1>4
<1>5. CASE q + 1 - w = 0
  BY <1>1, <1>2, <1>5
<1>6. QED
  BY <1>1, <1>3, <1>4, <1>5

(* The slot after the slot of a position is the slot of the next position. *)
LEMMA SlotFollows ==
  ASSUME NEW N \in Nat \ {0}, NEW a \in Nat
  PROVE  ((a % N) + 1) % N = (a + 1) % N
<1> DEFINE q == a \div N
           r == a % N
           w == (r + 1) \div N
           v == (a + 1) \div N
<1>1. /\ q \in Int /\ w \in Int /\ v \in Int /\ r \in 0..N-1
      /\ a = N * q + r
      /\ r + 1 = N * w + ((r + 1) % N) /\ (r + 1) % N \in 0..N-1
      /\ a + 1 = N * v + ((a + 1) % N) /\ (a + 1) % N \in 0..N-1
  OBVIOUS
<1>2. ((a + 1) % N) - ((r + 1) % N) = N * (q + w - v)
  BY <1>1
<1>3. CASE q + w - v >= 1
  BY <1>1, <1>2, <1>3
<1>4. CASE q + w - v <= -1
  BY <1>1, <1>2, <1>4
<1>5. CASE q + w - v = 0
  BY <1>1, <1>2, <1>5
<1>6. QED
  BY <1>1, <1>3, <1>4, <1>5

(* Whole turns and what is left: for any integer, and below zero too.     *)
LEMMA QuotientSign ==
  ASSUME NEW N \in Nat \ {0}, NEW a \in Nat, NEW q \in Int, NEW r \in 0..(N - 1), a = N * q + r
  PROVE  q \in Nat
<1>1. ASSUME q <= -1 PROVE FALSE
  <2>1. N * q <= -N
    BY <1>1
  <2>2. N * q \in Int
    OBVIOUS
  <2>3. QED
    BY <2>1, <2>2
<1>2. QED
  BY <1>1

LEMMA DivMod ==
  ASSUME NEW N \in Nat \ {0}, NEW a \in Int
  PROVE  /\ a \div N \in Int /\ a % N \in 0..(N - 1)
         /\ a = (a \div N) * N + (a % N)
         /\ a \in Nat => a \div N \in Nat
<1>1. a \div N \in Int /\ a % N \in 0..(N - 1) /\ a = N * (a \div N) + (a % N)
  OBVIOUS
<1>2. N * (a \div N) = (a \div N) * N
  BY <1>1
<1>3. a = (a \div N) * N + (a % N)
  BY <1>1, <1>2
<1>4. a \in Nat => a \div N \in Nat
  BY <1>1, QuotientSign
<1>5. QED
  BY <1>1, <1>3, <1>4

-------------------------------------------------------------------------------

Less == {ss \in Nat \X Nat : ss[1] < ss[2]}

(* A set of naturals that is not empty has a least element.  A statement   *)
(* about every natural is proved from it as an induction: the least number *)
(* it would fail for has a predecessor it holds for.                       *)
LEMMA NatLeast == ASSUME NEW T \in SUBSET Nat, T # {} PROVE \E m \in T : \A n \in T : m <= n
<1>1. IsWellFoundedOn(Less, Nat)
  BY NatLessThanWellFounded DEF OpToRel, Less
<1>2. \E x \in T : \A y \in T : ~(<<y, x>> \in Less)
  BY <1>1, WFMin
<1>3. \A x, y \in Nat : <<y, x>> \in Less <=> y < x
  BY DEF Less
<1>4. PICK x \in T : \A y \in T : ~(<<y, x>> \in Less)
  BY <1>2
<1>5. \A y \in T : x <= y
  <2>1. SUFFICES ASSUME NEW y \in T PROVE x <= y
    OBVIOUS
  <2>2. x \in Nat /\ y \in Nat
    OBVIOUS
  <2>3. ~(y < x)
    BY <1>3, <1>4, <2>2
  <2>4. QED
    BY <2>2, <2>3
<1>6. QED
  BY <1>5

(* Of the finite sets of a collection that is not empty, one is smallest.  *)
LEMMA SmallestSet ==
  ASSUME NEW C, C # {}, \A s \in C : IsFiniteSet(s)
  PROVE  \E s \in C : \A r \in C : Cardinality(s) <= Cardinality(r)
<1> DEFINE T == {Cardinality(s) : s \in C}
<1>1. \A s \in C : Cardinality(s) \in Nat
  BY FS_CardinalityType
<1>2. T \in SUBSET Nat /\ T # {}
  BY <1>1
<1> HIDE DEF T
<1>3. PICK m \in T : \A n \in T : m <= n
  BY <1>2, NatLeast
<1>4. PICK s \in C : m = Cardinality(s)
  BY <1>3 DEF T
<1>5. \A r \in C : Cardinality(s) <= Cardinality(r)
  BY <1>3, <1>4 DEF T
<1>6. QED
  BY <1>5

-------------------------------------------------------------------------------
(* Sums.  SumFunctionOnSet(f, S) is defined by recursion over the subsets  *)
(* of S, taking away the element CHOOSE picks; the lemmas say that any     *)
(* element may be taken away.                                              *)

SumStep(f, g, s) ==
  IF s = {} THEN 0 ELSE f[CHOOSE x \in s : TRUE] + g[s \ {CHOOSE x \in s : TRUE}]

IsSum(f, g, S) == g = [s \in SUBSET S |-> SumStep(f, g, s)]

LEMMA SumUnfold ==
  ASSUME NEW f, NEW S
  PROVE  SumFunctionOnSet(f, S) = (CHOOSE g : IsSum(f, g, S))[S]
BY DEF SumFunctionOnSet, FoldFunctionOnSet, MapThenFoldSet, IsSum, SumStep

LEMMA ChosenElement ==
  ASSUME NEW S, IsFiniteSet(S), NEW s \in SUBSET S, s # {}
  PROVE  /\ (CHOOSE x \in s : TRUE) \in s
         /\ IsFiniteSet(s) /\ Cardinality(s) \in Nat \ {0}
         /\ \A x \in s : s \ {x} \in SUBSET S /\ Cardinality(s \ {x}) = Cardinality(s) - 1
<1>1. IsFiniteSet(s)
  BY FS_Subset
<1>2. Cardinality(s) \in Nat
  BY <1>1, FS_CardinalityType
<1>3. Cardinality(s) # 0
  BY <1>1, FS_EmptySet
<1>4. \A x \in s : Cardinality(s \ {x}) = Cardinality(s) - 1
  BY <1>1, FS_RemoveElement
<1>5. QED
  BY <1>1, <1>2, <1>3, <1>4

SumUpTo(f, g, S, k) ==
  /\ g \in [SUBSET S -> Int]
  /\ \A s \in SUBSET S : Cardinality(s) <= k => g[s] = SumStep(f, g, s)

LEMMA SumExtends ==
  ASSUME NEW S, IsFiniteSet(S), NEW f, \A x \in S : f[x] \in Int,
         NEW k \in Nat, NEW g, SumUpTo(f, g, S, k)
  PROVE  \E h : SumUpTo(f, h, S, k + 1)
<1> DEFINE h == [s \in SUBSET S |-> IF Cardinality(s) = k + 1 THEN SumStep(f, g, s) ELSE g[s]]
<1>1. ASSUME NEW s \in SUBSET S, Cardinality(s) <= k + 1
      PROVE  SumStep(f, h, s) = SumStep(f, g, s)
  <2>1. CASE s = {}
    BY <2>1 DEF SumStep
  <2>2. CASE s # {}
    <3> DEFINE x == CHOOSE x \in s : TRUE
    <3>1. x \in s /\ Cardinality(s) \in Nat
      BY <2>2, ChosenElement
    <3>2. s \ {x} \in SUBSET S /\ Cardinality(s \ {x}) = Cardinality(s) - 1
      BY <2>2, <3>1, ChosenElement
    <3>3. Cardinality(s \ {x}) # k + 1
      BY <1>1, <3>1, <3>2
    <3>4. h[s \ {x}] = g[s \ {x}]
      BY <3>2, <3>3
    <3>5. QED
      BY <3>4 DEF SumStep
  <2>3. QED
    BY <2>1, <2>2
<1>2. \A s \in SUBSET S : SumStep(f, g, s) \in Int
  <2> SUFFICES ASSUME NEW s \in SUBSET S, s # {} PROVE SumStep(f, g, s) \in Int
    BY DEF SumStep
  <2>1. (CHOOSE x \in s : TRUE) \in s
    BY ChosenElement
  <2>2. g[s \ {CHOOSE x \in s : TRUE}] \in Int /\ f[CHOOSE x \in s : TRUE] \in Int
    BY <2>1 DEF SumUpTo
  <2>3. QED
    BY <2>2 DEF SumStep
<1>3. h \in [SUBSET S -> Int]
  BY <1>2 DEF SumUpTo
<1>4. ASSUME NEW s \in SUBSET S, Cardinality(s) <= k + 1
      PROVE  h[s] = SumStep(f, h, s)
  <2>1. Cardinality(s) \in Nat
    BY FS_Subset, FS_CardinalityType
  <2>2. CASE Cardinality(s) = k + 1
    BY <1>1, <1>4, <2>2
  <2>3. CASE Cardinality(s) <= k
    <3>1. g[s] = SumStep(f, g, s)
      BY <2>3 DEF SumUpTo
    <3>2. h[s] = g[s]
      BY <2>1, <2>3
    <3>3. QED
      BY <1>1, <1>4, <3>1, <3>2
  <2>4. QED
    BY <1>4, <2>1, <2>2, <2>3
<1>5. SumUpTo(f, h, S, k + 1)
  BY <1>3, <1>4 DEF SumUpTo
<1>6. QED
  BY <1>5

LEMMA SumUpToAny ==
  ASSUME NEW S, IsFiniteSet(S), NEW f, \A x \in S : f[x] \in Int, NEW n \in Nat
  PROVE  \E g : SumUpTo(f, g, S, n)
<1> DEFINE T == {k \in Nat : ~ \E g : SumUpTo(f, g, S, k)}
<1>1. 0 \notin T
  <2> DEFINE z == [s \in SUBSET S |-> 0]
  <2>1. ASSUME NEW s \in SUBSET S, Cardinality(s) <= 0 PROVE s = {}
    BY <2>1, ChosenElement
  <2>2. \A s \in SUBSET S : Cardinality(s) <= 0 => z[s] = SumStep(f, z, s)
    BY <2>1 DEF SumStep
  <2>3. SumUpTo(f, z, S, 0)
    BY <2>2 DEF SumUpTo
  <2>4. QED
    BY <2>3
<1>2. \A k \in Nat : k \notin T => k + 1 \notin T
  BY SumExtends
<1> HIDE DEF T
<1>3. ASSUME T # {} PROVE FALSE
  <2>0. T \in SUBSET Nat
    BY DEF T
  <2>1. PICK m \in T : \A j \in T : m <= j
    BY <1>3, <2>0, NatLeast
  <2>2. m \in Nat /\ m # 0
    BY <1>1, <2>0, <2>1
  <2>3. m - 1 \in Nat /\ m - 1 \notin T
    BY <2>0, <2>1, <2>2
  <2>4. (m - 1) + 1 \notin T
    BY <1>2, <2>3
  <2>5. QED
    BY <2>1, <2>2, <2>4
<1>4. QED
  BY <1>3 DEF T

LEMMA SumExists ==
  ASSUME NEW S, IsFiniteSet(S), NEW f, \A x \in S : f[x] \in Int
  PROVE  \E g \in [SUBSET S -> Int] : IsSum(f, g, S)
<1>1. Cardinality(S) \in Nat
  BY FS_CardinalityType
<1>2. PICK g : SumUpTo(f, g, S, Cardinality(S))
  BY <1>1, SumUpToAny
<1>3. \A s \in SUBSET S : Cardinality(s) <= Cardinality(S)
  BY FS_Subset
<1>4. g \in [SUBSET S -> Int] /\ \A s \in SUBSET S : g[s] = SumStep(f, g, s)
  BY <1>2, <1>3 DEF SumUpTo
<1>5. IsSum(f, g, S)
  BY <1>4 DEF IsSum
<1>6. QED
  BY <1>4, <1>5

(* Two sums of functions that agree, over two sets, agree on the subsets   *)
(* that both have.                                                         *)
LEMMA SumsAgree ==
  ASSUME NEW S, IsFiniteSet(S), NEW T, NEW f, NEW h,
         \A x \in S \cap T : f[x] = h[x],
         NEW g, IsSum(f, g, S), NEW k, IsSum(h, k, T)
  PROVE  \A s \in SUBSET (S \cap T) : g[s] = k[s]
<1> DEFINE C == {s \in SUBSET (S \cap T) : g[s] # k[s]}
<1>1. ASSUME C # {} PROVE FALSE
  <2>1. \A s \in C : IsFiniteSet(s)
    BY FS_Subset
  <2>2. PICK s \in C : \A r \in C : Cardinality(s) <= Cardinality(r)
    BY <1>1, <2>1, SmallestSet, Zenon
  <2>3. g[s] = SumStep(f, g, s) /\ k[s] = SumStep(h, k, s)
    BY DEF IsSum
  <2>4. s # {}
    BY <2>3 DEF SumStep
  <2> DEFINE x == CHOOSE x \in s : TRUE
  <2>5. x \in s /\ Cardinality(s) \in Nat /\ s \ {x} \in SUBSET (S \cap T)
    BY <2>4, ChosenElement
  <2>6. Cardinality(s \ {x}) = Cardinality(s) - 1
    BY <2>4, <2>5, ChosenElement
  <2>7. s \ {x} \notin C
    <3>1. ~(Cardinality(s) <= Cardinality(s \ {x}))
      BY <2>5, <2>6
    <3>2. QED
      BY <2>2, <3>1
  <2>8. g[s \ {x}] = k[s \ {x}] /\ f[x] = h[x]
    BY <2>5, <2>7
  <2>9. g[s] = k[s]
    BY <2>3, <2>4, <2>8 DEF SumStep
  <2>10. QED
    BY <2>2, <2>9
<1>2. QED
  BY <1>1

(* One function gives the sums over all the subsets of a finite set.       *)
IsSumTable(f, g, S) ==
  /\ g \in [SUBSET S -> Int] /\ IsSum(f, g, S)
  /\ \A s \in SUBSET S : SumFunctionOnSet(f, s) = g[s]

LEMMA SumTable ==
  ASSUME NEW S, IsFiniteSet(S), NEW f, \A x \in S : f[x] \in Int
  PROVE  \E g : IsSumTable(f, g, S)
<1>1. PICK g \in [SUBSET S -> Int] : IsSum(f, g, S)
  BY SumExists
<1>2. ASSUME NEW s \in SUBSET S PROVE SumFunctionOnSet(f, s) = g[s]
  <2>1. IsFiniteSet(s)
    BY FS_Subset
  <2>2. \E k : IsSum(f, k, s)
    BY <2>1, SumExists
  <2>3. IsSum(f, CHOOSE k : IsSum(f, k, s), s)
    BY <2>2
  <2>4. \A r \in SUBSET (S \cap s) : g[r] = (CHOOSE k : IsSum(f, k, s))[r]
    BY <1>1, <2>3, SumsAgree
  <2>5. g[s] = (CHOOSE k : IsSum(f, k, s))[s]
    BY <2>4
  <2>6. QED
    BY <2>5, SumUnfold
<1>3. QED
  BY <1>1, <1>2 DEF IsSumTable

LEMMA SumType ==
  ASSUME NEW S, IsFiniteSet(S), NEW f, \A x \in S : f[x] \in Int
  PROVE  SumFunctionOnSet(f, S) \in Int
<1>1. PICK g : IsSumTable(f, g, S)
  BY SumTable
<1>2. QED
  BY <1>1 DEF IsSumTable

LEMMA SumEmpty == ASSUME NEW f PROVE SumFunctionOnSet(f, {}) = 0
<1>1. IsFiniteSet({})
  BY FS_EmptySet
<1>2. PICK g : IsSumTable(f, g, {})
  BY <1>1, SumTable
<1>3. g[{}] = SumStep(f, g, {}) /\ SumFunctionOnSet(f, {}) = g[{}]
  BY <1>2 DEF IsSumTable, IsSum
<1>4. QED
  BY <1>3 DEF SumStep

(* Functions that agree on a set have the same sum over it.                *)
LEMMA SumCong ==
  ASSUME NEW S, IsFiniteSet(S), NEW f, NEW h, \A x \in S : f[x] \in Int /\ f[x] = h[x]
  PROVE  SumFunctionOnSet(f, S) = SumFunctionOnSet(h, S)
<1>1. PICK g : IsSumTable(f, g, S)
  BY SumTable
<1>2. PICK k : IsSumTable(h, k, S)
  BY SumTable
<1>3. \A s \in SUBSET (S \cap S) : g[s] = k[s]
  BY <1>1, <1>2, SumsAgree DEF IsSumTable
<1>4. QED
  BY <1>1, <1>2, <1>3 DEF IsSumTable

LEMMA SumRemove ==
  ASSUME NEW S, IsFiniteSet(S), NEW f, \A x \in S : f[x] \in Int, NEW x \in S
  PROVE  SumFunctionOnSet(f, S) = f[x] + SumFunctionOnSet(f, S \ {x})
<1>1. PICK g : IsSumTable(f, g, S)
  BY SumTable
<1> DEFINE C == {s \in SUBSET S : \E y \in s : g[s] # f[y] + g[s \ {y}]}
<1>2. ASSUME C # {} PROVE FALSE
  <2>1. \A s \in C : IsFiniteSet(s)
    BY FS_Subset
  <2>2. PICK s \in C : \A r \in C : Cardinality(s) <= Cardinality(r)
    BY <1>2, <2>1, SmallestSet, Zenon
  <2>3. PICK y \in s : g[s] # f[y] + g[s \ {y}]
    OBVIOUS
  <2> DEFINE c == CHOOSE z \in s : TRUE
  <2>4. /\ s # {} /\ s \in SUBSET S /\ c \in s /\ Cardinality(s) \in Nat
    BY ChosenElement
  <2>5. g[s] = f[c] + g[s \ {c}]
    BY <1>1, <2>4 DEF IsSumTable, IsSum, SumStep
  <2>6. c # y
    BY <2>3, <2>5
  <2>7. ASSUME NEW z \in s PROVE \A w \in s \ {z} : g[s \ {z}] = f[w] + g[(s \ {z}) \ {w}]
    <3>1. Cardinality(s \ {z}) = Cardinality(s) - 1 /\ s \ {z} \in SUBSET S
      BY <2>4, ChosenElement
    <3>2. ~(Cardinality(s) <= Cardinality(s \ {z}))
      BY <2>4, <3>1
    <3>3. s \ {z} \notin C
      BY <2>2, <3>2
    <3>4. QED
      BY <3>1, <3>3
  <2>8. g[s \ {c}] = f[y] + g[(s \ {c}) \ {y}]
    BY <2>4, <2>6, <2>7
  <2>9. g[s \ {y}] = f[c] + g[(s \ {y}) \ {c}]
    BY <2>4, <2>6, <2>7
  <2>10. (s \ {c}) \ {y} = (s \ {y}) \ {c}
    OBVIOUS
  <2>11. f[c] \in Int /\ f[y] \in Int /\ g[(s \ {y}) \ {c}] \in Int
    BY <1>1, <2>4 DEF IsSumTable
  <2> DEFINE rest == g[(s \ {y}) \ {c}]
  <2>12. g[s] = f[c] + (f[y] + rest) /\ g[s \ {y}] = f[c] + rest
    BY <2>5, <2>8, <2>9, <2>10
  <2>13. rest \in Int
    BY <2>11
  <2> HIDE DEF rest, c
  <2>14. g[s] = f[y] + (f[c] + rest)
    BY <2>11, <2>12, <2>13
  <2>15. QED
    BY <2>3, <2>12, <2>14
<1>3. S \notin C
  BY <1>2
<1>4. g[S] = f[x] + g[S \ {x}]
  BY <1>3
<1>5. QED
  BY <1>1, <1>4 DEF IsSumTable

LEMMA SumAdd ==
  ASSUME NEW S, IsFiniteSet(S), NEW f, NEW x, x \notin S, \A y \in S \cup {x} : f[y] \in Int
  PROVE  SumFunctionOnSet(f, S \cup {x}) = f[x] + SumFunctionOnSet(f, S)
<1>1. IsFiniteSet(S \cup {x})
  BY FS_AddElement
<1>2. SumFunctionOnSet(f, S \cup {x}) = f[x] + SumFunctionOnSet(f, (S \cup {x}) \ {x})
  BY <1>1, SumRemove
<1>3. (S \cup {x}) \ {x} = S
  OBVIOUS
<1>4. QED
  BY <1>2, <1>3

\* Terms that are no larger make a sum that is no larger.
LEMMA SumOrdered ==
  ASSUME NEW S, IsFiniteSet(S), NEW f, NEW h,
         \A x \in S : f[x] \in Int /\ h[x] \in Int /\ f[x] <= h[x]
  PROVE  SumFunctionOnSet(f, S) <= SumFunctionOnSet(h, S)
<1> DEFINE C == {s \in SUBSET S : ~(SumFunctionOnSet(f, s) <= SumFunctionOnSet(h, s))}
<1>1. ASSUME C # {} PROVE FALSE
  <2>1. \A s \in C : IsFiniteSet(s)
    BY FS_Subset
  <2>2. PICK s \in C : \A r \in C : Cardinality(s) <= Cardinality(r)
    BY <1>1, <2>1, SmallestSet, Zenon
  <2>3. s # {}
    BY SumEmpty
  <2>4. PICK x \in s : TRUE
    BY <2>3
  <2>5. /\ IsFiniteSet(s) /\ Cardinality(s) \in Nat
        /\ s \ {x} \in SUBSET S /\ Cardinality(s \ {x}) = Cardinality(s) - 1
    BY <2>3, <2>4, ChosenElement
  <2>6. ~(Cardinality(s) <= Cardinality(s \ {x}))
    BY <2>5
  <2>7. SumFunctionOnSet(f, s \ {x}) <= SumFunctionOnSet(h, s \ {x})
    BY <2>2, <2>5, <2>6
  <2>8. IsFiniteSet(s \ {x})
    BY <2>5, FS_Subset
  <2>9. SumFunctionOnSet(f, s \ {x}) \in Int /\ SumFunctionOnSet(h, s \ {x}) \in Int
    BY <2>5, <2>8, SumType
  <2>10. /\ SumFunctionOnSet(f, s) = f[x] + SumFunctionOnSet(f, s \ {x})
         /\ SumFunctionOnSet(h, s) = h[x] + SumFunctionOnSet(h, s \ {x})
    BY <2>4, <2>5, SumRemove
  <2>11. SumFunctionOnSet(f, s) <= SumFunctionOnSet(h, s)
    BY <2>4, <2>7, <2>9, <2>10
  <2>12. QED
    BY <2>2, <2>11
<1>2. QED
  BY <1>1

\* A factor that all terms have.
LEMMA SumScaled ==
  ASSUME NEW S, IsFiniteSet(S), NEW f, NEW h, NEW c \in Int,
         \A x \in S : f[x] \in Int /\ h[x] = c * f[x]
  PROVE  SumFunctionOnSet(h, S) = c * SumFunctionOnSet(f, S)
<1> DEFINE C == {s \in SUBSET S : SumFunctionOnSet(h, s) # c * SumFunctionOnSet(f, s)}
<1>1. ASSUME C # {} PROVE FALSE
  <2>1. \A s \in C : IsFiniteSet(s)
    BY FS_Subset
  <2>2. PICK s \in C : \A r \in C : Cardinality(s) <= Cardinality(r)
    BY <1>1, <2>1, SmallestSet, Zenon
  <2>3. s # {}
    <3>1. c * 0 = 0
      OBVIOUS
    <3>2. QED
      BY <3>1, SumEmpty
  <2>4. PICK x \in s : TRUE
    BY <2>3
  <2>5. /\ IsFiniteSet(s) /\ Cardinality(s) \in Nat
        /\ s \ {x} \in SUBSET S /\ Cardinality(s \ {x}) = Cardinality(s) - 1
    BY <2>3, <2>4, ChosenElement
  <2>6. ~(Cardinality(s) <= Cardinality(s \ {x}))
    BY <2>5
  <2> DEFINE a == SumFunctionOnSet(f, s \ {x})
  <2>7. SumFunctionOnSet(h, s \ {x}) = c * a
    BY <2>2, <2>5, <2>6
  <2>8. IsFiniteSet(s \ {x})
    BY <2>5, FS_Subset
  <2>9. a \in Int /\ f[x] \in Int
    BY <2>4, <2>5, <2>8, SumType
  <2>10. \A y \in s : h[y] \in Int
    OBVIOUS
  <2>11. SumFunctionOnSet(f, s) = f[x] + a /\ SumFunctionOnSet(h, s) = c * f[x] + c * a
    BY <2>4, <2>5, <2>7, <2>10, SumRemove
  <2> HIDE DEF a
  <2>12. c * (f[x] + a) = c * f[x] + c * a
    BY <2>9
  <2>13. QED
    BY <2>2, <2>11, <2>12
<1>2. QED
  BY <1>1

\* Terms of zero may be left out, and terms that are not negative only add.
LEMMA SumOverPart ==
  ASSUME NEW S, IsFiniteSet(S), NEW T \in SUBSET S, NEW f, \A x \in S : f[x] \in Nat
  PROVE  /\ SumFunctionOnSet(f, T) <= SumFunctionOnSet(f, S)
         /\ (\A x \in S \ T : f[x] = 0) => SumFunctionOnSet(f, T) = SumFunctionOnSet(f, S)
<1> DEFINE Good(s) ==
             /\ SumFunctionOnSet(f, T) <= SumFunctionOnSet(f, s)
             /\ (\A x \in s \ T : f[x] = 0) => SumFunctionOnSet(f, T) = SumFunctionOnSet(f, s)
           C == {s \in SUBSET S : T \subseteq s /\ ~Good(s)}
<1>1. ASSUME C # {} PROVE FALSE
  <2>1. \A s \in C : IsFiniteSet(s)
    BY FS_Subset
  <2>2. PICK s \in C : \A r \in C : Cardinality(s) <= Cardinality(r)
    BY <1>1, <2>1, SmallestSet, Zenon
  <2>3. IsFiniteSet(T) /\ SumFunctionOnSet(f, T) \in Int
    <3>1. IsFiniteSet(T)
      BY FS_Subset
    <3>2. \A y \in T : f[y] \in Int
      OBVIOUS
    <3>3. QED
      BY <3>1, <3>2, SumType
  <2>4. T # s
    <3>1. SumFunctionOnSet(f, T) <= SumFunctionOnSet(f, T)
      BY <2>3
    <3>2. Good(T)
      BY <3>1, Zenon
    <3>3. ~Good(s)
      BY Zenon
    <3> HIDE DEF Good
    <3>4. QED
      BY <3>2, <3>3
  <2>5. PICK x \in s : x \notin T
    BY <2>2, <2>4
  <2>6. /\ IsFiniteSet(s) /\ Cardinality(s) \in Nat
        /\ s \ {x} \in SUBSET S /\ Cardinality(s \ {x}) = Cardinality(s) - 1
    BY <2>5, ChosenElement
  <2>7. ~(Cardinality(s) <= Cardinality(s \ {x}))
    BY <2>6
  <2>8. Good(s \ {x})
    BY <2>2, <2>5, <2>6, <2>7
  <2>9. IsFiniteSet(s \ {x}) /\ \A y \in s : f[y] \in Int
    BY <2>6, FS_Subset
  <2>10. SumFunctionOnSet(f, s \ {x}) \in Int
    BY <2>9, SumType
  <2>11. SumFunctionOnSet(f, s) = f[x] + SumFunctionOnSet(f, s \ {x}) /\ f[x] \in Nat
    BY <2>5, <2>6, <2>9, SumRemove
  <2>12. SumFunctionOnSet(f, T) <= SumFunctionOnSet(f, s)
    BY <2>3, <2>8, <2>10, <2>11
  <2>13. ASSUME \A y \in s \ T : f[y] = 0 PROVE SumFunctionOnSet(f, T) = SumFunctionOnSet(f, s)
    <3>1. f[x] = 0 /\ \A y \in (s \ {x}) \ T : f[y] = 0
      BY <2>5, <2>13
    <3>2. SumFunctionOnSet(f, T) = SumFunctionOnSet(f, s \ {x})
      BY <2>8, <3>1
    <3>3. QED
      BY <2>10, <2>11, <3>1, <3>2
  <2>14. Good(s)
    BY <2>12, <2>13, Zenon
  <2>15. QED
    BY <2>2, <2>14
<1>2. QED
  BY <1>1
===============================================================================
