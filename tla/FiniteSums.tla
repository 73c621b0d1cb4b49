----------------------------- MODULE FiniteSums -----------------------------
(***************************************************************************)
(* Sums over finite sets, for the proofs: what MapThenSumSet of the        *)
(* community modules adds up to when a set grows, shrinks or is divided.   *)
(*                                                                         *)
(* A sum is defined by recursion over subsets, so its laws need induction  *)
(* over finite sets.  Here an induction is a smallest counterexample: the  *)
(* cardinalities of the sets a law fails for have a least one, since < is  *)
(* well-founded on the natural numbers (NatLessThanWellFounded, WFMin).    *)
(***************************************************************************)
EXTENDS Integers, FiniteSets, FiniteSetsExt, FiniteSetTheorems, WellFoundedInduction, TLAPS

\* What the members of S amount to under f.
SumOver(f, S) == MapThenSumSet(LAMBDA x : f[x], S)

\* The less-than of the natural numbers as a set of pairs, well-founded.
LEMMA LessThanIsARelation ==
    \E R : IsWellFoundedOn(R, Nat) /\ \A m, n \in Nat : m < n => <<m, n>> \in R
<1>1. \A m, n \in Nat : m < n => <<m, n>> \in OpToRel(<, Nat)
  BY DEF OpToRel
<1> QED BY <1>1, NatLessThanWellFounded

\* A set of natural numbers has a least one.
LEMMA LeastNumber ==
    ASSUME NEW T, T \subseteq Nat, T # {}
    PROVE  \E n \in T : \A m \in T : n <= m
<1>1. PICK R : IsWellFoundedOn(R, Nat) /\ \A m, n \in Nat : m < n => <<m, n>> \in R
  BY LessThanIsARelation
<1>2. IsWellFoundedOn(R, Nat)
  BY <1>1
<1>3. \E n \in T : \A m \in T : ~ (<<m, n>> \in R)
  BY <1>2, WFMin
<1>4. PICK n \in T : \A m \in T : ~ (<<m, n>> \in R)
  BY <1>3
<1>5. \A m \in T : ~ m < n
  BY <1>1, <1>4
<1> QED BY <1>5

\* Induction over finite sets: if a claim fails for the sets of C, it fails for
\* one that it holds for as soon as any element is taken away.
LEMMA SmallestSet ==
    ASSUME NEW C, C # {}, \A S \in C : IsFiniteSet(S)
    PROVE  \E S \in C : \A x \in S : S \ {x} \notin C
<1> DEFINE T == {Cardinality(S) : S \in C}
<1>1. T \subseteq Nat /\ T # {}
  BY FS_CardinalityType
<1> HIDE DEF T
<1>2. PICK n \in T : \A m \in T : n <= m
  BY <1>1, LeastNumber
<1>3. PICK S \in C : n = Cardinality(S)
  BY DEF T
<1>4. ASSUME NEW x \in S, S \ {x} \in C PROVE FALSE
  <2>1. Cardinality(S \ {x}) = n - 1
    BY <1>3, FS_RemoveElement
  <2>2. Cardinality(S \ {x}) \in T
    BY <1>4 DEF T
  <2> QED BY <1>1, <1>2, <2>1, <2>2
<1> QED BY <1>4
-----------------------------------------------------------------------------
\* The element the recursion takes out of S.
Chosen(S) == CHOOSE x \in S : TRUE

\* It is one of S, if S has any.
LEMMA ChosenIsIn == ASSUME NEW S, S # {} PROVE Chosen(S) \in S
BY DEF Chosen

\* On the sets of D, h obeys the recursion of the sum of f.
Sums(f, h, D) ==
    \A s \in D : h[s] = IF s = {} THEN 0 ELSE f[Chosen(s)] + h[s \ {Chosen(s)}]

\* Subsets of A with at most n elements.
Small(A, n) == {s \in SUBSET A : Cardinality(s) <= n}

\* The recursion has a solution, whatever the size it stops at.
LEMMA SmallSums ==
    ASSUME NEW f, NEW A, IsFiniteSet(A), NEW n \in Nat
    PROVE  \E h : h = [s \in Small(A, n) |-> h[s]] /\ Sums(f, h, Small(A, n))
<1> DEFINE Good(m) == \E h : h = [s \in Small(A, m) |-> h[s]] /\ Sums(f, h, Small(A, m))
           Bad == {m \in Nat : ~ Good(m)}
<1> SUFFICES ASSUME Bad # {} PROVE FALSE
  OBVIOUS
<1>0. \A s \in SUBSET A : IsFiniteSet(s) /\ Cardinality(s) \in Nat
  BY FS_Subset, FS_CardinalityType
<1>1. PICK m \in Bad : \A k \in Bad : m <= k
  <2>1. Bad \subseteq Nat
    OBVIOUS
  <2> HIDE DEF Bad
  <2> QED BY <2>1, LeastNumber
<1>2. m \in Nat /\ ~ Good(m)
  OBVIOUS
<1>3. CASE m = 0
  <2> DEFINE h == [s \in Small(A, m) |-> 0]
  <2>1. \A s \in Small(A, m) : s = {}
    BY <1>0, <1>3, FS_EmptySet DEF Small
  <2>2. h = [s \in Small(A, m) |-> h[s]] /\ Sums(f, h, Small(A, m))
    BY <2>1 DEF Sums
  <2> QED BY <1>2, <2>2
<1>4. CASE m # 0
  <2>1. m - 1 \in Nat /\ m - 1 \notin Bad
    BY <1>1, <1>2, <1>4
  <2>2. PICK g : g = [s \in Small(A, m - 1) |-> g[s]] /\ Sums(f, g, Small(A, m - 1))
    BY <2>1
  <2> DEFINE h == [s \in Small(A, m) |->
                      IF s = {} THEN 0 ELSE f[Chosen(s)] + g[s \ {Chosen(s)}]]
  <2>3. \A s \in Small(A, m) : s # {} => s \ {Chosen(s)} \in Small(A, m - 1)
    <3> TAKE s \in Small(A, m)
    <3> HAVE s # {}
    <3>1. Chosen(s) \in s
      BY ChosenIsIn
    <3>2. IsFiniteSet(s) /\ s \in SUBSET A /\ Cardinality(s) \in Nat /\ Cardinality(s) <= m
      BY <1>0 DEF Small
    <3>3. Cardinality(s \ {Chosen(s)}) = Cardinality(s) - 1
      BY <3>1, <3>2, FS_RemoveElement
    <3> QED BY <1>2, <3>2, <3>3 DEF Small
  <2>4. \A s \in Small(A, m - 1) : s \in Small(A, m) /\ g[s] = h[s]
    BY <1>0, <1>2, <2>2 DEF Small, Sums
  <2>5. h = [s \in Small(A, m) |-> h[s]] /\ Sums(f, h, Small(A, m))
    BY <2>3, <2>4 DEF Sums
  <2> QED BY <1>2, <2>5
<1> QED BY <1>3, <1>4

\* The function MapThenFoldSet chooses to sum f over S.
Iter(f, S) ==
    CHOOSE iter : iter = [s \in SUBSET S |-> IF s = {} THEN 0
                            ELSE f[CHOOSE x \in s : TRUE] + iter[s \ {CHOOSE x \in s : TRUE}]]

\* The sum is its value at the whole set.
LEMMA SumIsIter == ASSUME NEW f, NEW S PROVE SumOver(f, S) = Iter(f, S)[S]
BY DEF SumOver, Iter, MapThenSumSet, MapThenFoldSet

\* It obeys the recursion.
LEMMA IterSums ==
    ASSUME NEW f, NEW S, IsFiniteSet(S)
    PROVE  Sums(f, Iter(f, S), SUBSET S)
<1> DEFINE Eq(h) == h = [s \in SUBSET S |-> IF s = {} THEN 0
                            ELSE f[CHOOSE x \in s : TRUE] + h[s \ {CHOOSE x \in s : TRUE}]]
<1>1. Cardinality(S) \in Nat /\ Small(S, Cardinality(S)) = SUBSET S
  BY FS_Subset, FS_CardinalityType DEF Small
<1> DEFINE n == Cardinality(S)
<1>2. PICK h : h = [s \in SUBSET S |-> h[s]] /\ Sums(f, h, SUBSET S)
  <2> HIDE DEF n
  <2>1. \E h : h = [s \in Small(S, n) |-> h[s]] /\ Sums(f, h, Small(S, n))
    BY <1>1, SmallSums DEF n
  <2> QED BY <1>1, <2>1 DEF n
<1>3. Eq(h)
  <2>1. h = [s \in SUBSET S |-> IF s = {} THEN 0 ELSE f[Chosen(s)] + h[s \ {Chosen(s)}]]
    BY <1>2 DEF Sums
  <2> QED BY <2>1 DEF Chosen
<1>4. Eq(Iter(f, S))
  BY <1>3 DEF Iter
<1> QED BY <1>4 DEF Sums, Chosen

\* Which set the recursion began with does not matter.
LEMMA IterAgrees ==
    ASSUME NEW f, NEW S, IsFiniteSet(S), NEW U, U \subseteq S
    PROVE  Iter(f, S)[U] = SumOver(f, U)
<1> DEFINE Bad == {s \in SUBSET U : Iter(f, S)[s] # Iter(f, U)[s]}
<1> SUFFICES Bad = {}
  BY SumIsIter
<1> SUFFICES ASSUME Bad # {} PROVE FALSE
  OBVIOUS
<1>1. IsFiniteSet(U) /\ \A s \in SUBSET U : IsFiniteSet(s) /\ Cardinality(s) \in Nat
  BY FS_Subset, FS_CardinalityType
<1>2. Sums(f, Iter(f, S), SUBSET S) /\ Sums(f, Iter(f, U), SUBSET U)
  BY <1>1, IterSums
<1>3. PICK s \in Bad : \A x \in s : s \ {x} \notin Bad
  <2>1. \A t \in Bad : IsFiniteSet(t)
    BY <1>1
  <2> HIDE DEF Bad
  <2> QED BY <2>1, SmallestSet
<1>4. s # {}
  BY <1>2 DEF Sums
<1> DEFINE x == Chosen(s)
           r == s \ {x}
<1>5. x \in s
  BY <1>4, ChosenIsIn
<1>6. r \notin Bad
  BY <1>3, <1>5
<1>7. Iter(f, S)[r] = Iter(f, U)[r]
  BY <1>6
<1> QED BY <1>2, <1>4, <1>7 DEF Sums

\* The sum over a set that is not empty: the chosen element and the rest.
LEMMA SumStep ==
    ASSUME NEW f, NEW S, IsFiniteSet(S), S # {}
    PROVE  SumOver(f, S) = f[Chosen(S)] + SumOver(f, S \ {Chosen(S)})
<1>1. SumOver(f, S) = f[Chosen(S)] + Iter(f, S)[S \ {Chosen(S)}]
  BY SumIsIter, IterSums DEF Sums
<1>2. Iter(f, S)[S \ {Chosen(S)}] = SumOver(f, S \ {Chosen(S)})
  BY IterAgrees
<1> QED BY <1>1, <1>2

\* The empty sum.
LEMMA SumOfNothing == ASSUME NEW f PROVE SumOver(f, {}) = 0
BY SumIsIter, IterSums, FS_EmptySet DEF Sums

\* Integers have an integer sum.
LEMMA SumIsWhole ==
    ASSUME NEW f, NEW S, IsFiniteSet(S), \A x \in S : f[x] \in Int
    PROVE  SumOver(f, S) \in Int
<1> DEFINE Bad == {s \in SUBSET S : SumOver(f, s) \notin Int}
<1> SUFFICES ASSUME Bad # {} PROVE FALSE
  OBVIOUS
<1>1. \A s \in SUBSET S : IsFiniteSet(s)
  BY FS_Subset
<1>2. PICK s \in Bad : \A x \in s : s \ {x} \notin Bad
  <2>1. \A t \in Bad : IsFiniteSet(t)
    BY <1>1
  <2> HIDE DEF Bad
  <2> QED BY <2>1, SmallestSet
<1>3. s # {}
  BY SumOfNothing
<1>4. Chosen(s) \in s
  BY <1>3, ChosenIsIn
<1>5. s \ {Chosen(s)} \notin Bad
  BY <1>2, <1>4
<1>6. SumOver(f, s \ {Chosen(s)}) \in Int /\ f[Chosen(s)] \in Int
  BY <1>4, <1>5
<1>7. SumOver(f, s) = f[Chosen(s)] + SumOver(f, s \ {Chosen(s)})
  BY <1>1, <1>3, SumStep
<1> QED BY <1>6, <1>7

\* Any element may be taken out.
LEMMA SumWithout ==
    ASSUME NEW f, NEW S, IsFiniteSet(S), \A x \in S : f[x] \in Int, NEW y \in S
    PROVE  SumOver(f, S) = f[y] + SumOver(f, S \ {y})
<1> DEFINE Wrong(s) == \E z \in s : SumOver(f, s) # f[z] + SumOver(f, s \ {z})
           Bad == {s \in SUBSET S : Wrong(s)}
<1> SUFFICES ASSUME Bad # {} PROVE FALSE
  OBVIOUS
<1>1. \A s \in SUBSET S : IsFiniteSet(s)
  BY FS_Subset
<1>2. PICK s \in Bad : \A x \in s : s \ {x} \notin Bad
  <2>1. \A t \in Bad : IsFiniteSet(t)
    BY <1>1
  <2> HIDE DEF Bad
  <2> QED BY <2>1, SmallestSet
<1>3. PICK z \in s : SumOver(f, s) # f[z] + SumOver(f, s \ {z})
  OBVIOUS
<1> DEFINE x == Chosen(s)
<1>4. x \in s /\ s \in SUBSET S
  BY <1>3, ChosenIsIn
<1>5. SumOver(f, s) = f[x] + SumOver(f, s \ {x})
  BY <1>1, <1>3, SumStep
<1>6. x # z
  BY <1>3, <1>5
<1> HIDE DEF x
<1>7. \A u \in s : s \ {u} \notin Bad
  BY <1>2
<1>8. SumOver(f, s \ {x}) = f[z] + SumOver(f, (s \ {x}) \ {z})
  BY <1>4, <1>6, <1>7
<1>9. SumOver(f, s \ {z}) = f[x] + SumOver(f, (s \ {z}) \ {x})
  BY <1>4, <1>6, <1>7
<1>10. (s \ {x}) \ {z} = (s \ {z}) \ {x}
  OBVIOUS
<1>11. f[x] \in Int /\ f[z] \in Int /\ SumOver(f, (s \ {x}) \ {z}) \in Int
  BY <1>1, <1>4, SumIsWhole
<1> DEFINE rest == SumOver(f, (s \ {x}) \ {z})
<1>12. SumOver(f, s) = f[x] + (f[z] + rest) /\ SumOver(f, s \ {z}) = f[x] + rest
  BY <1>5, <1>8, <1>9, <1>10
<1>13. f[x] + (f[z] + rest) = f[z] + (f[x] + rest)
  <2> HIDE DEF rest
  <2> QED BY <1>11 DEF rest
<1> QED BY <1>3, <1>12, <1>13

\* Any new element may be put in.
LEMMA SumWith ==
    ASSUME NEW f, NEW S, IsFiniteSet(S), \A x \in S : f[x] \in Int,
           NEW y, y \notin S, f[y] \in Int
    PROVE  SumOver(f, S \cup {y}) = f[y] + SumOver(f, S)
<1>1. IsFiniteSet(S \cup {y}) /\ (S \cup {y}) \ {y} = S
  BY FS_AddElement
<1> QED BY <1>1, SumWithout
-----------------------------------------------------------------------------
\* Disjoint sets add up.
LEMMA SumOfUnion ==
    ASSUME NEW f, NEW S, NEW U, IsFiniteSet(S), IsFiniteSet(U), S \cap U = {},
           \A x \in S \cup U : f[x] \in Int
    PROVE  SumOver(f, S \cup U) = SumOver(f, S) + SumOver(f, U)
<1> DEFINE Bad == {v \in SUBSET U : SumOver(f, S \cup v) # SumOver(f, S) + SumOver(f, v)}
<1> SUFFICES ASSUME Bad # {} PROVE FALSE
  OBVIOUS
<1>1. \A v \in SUBSET U : IsFiniteSet(v) /\ IsFiniteSet(S \cup v)
  BY FS_Subset, FS_Union
<1>2. PICK v \in Bad : \A x \in v : v \ {x} \notin Bad
  <2>1. \A t \in Bad : IsFiniteSet(t)
    BY <1>1
  <2> HIDE DEF Bad
  <2> QED BY <2>1, SmallestSet
<1>3. v \in SUBSET U /\ SumOver(f, S \cup v) # SumOver(f, S) + SumOver(f, v)
  OBVIOUS
<1>4. SumOver(f, S) \in Int
  BY SumIsWhole
<1>5. PICK x \in v : TRUE
  <2>1. v # {}
    BY <1>3, <1>4, SumOfNothing
  <2> QED BY <2>1
<1>6. SumOver(f, S \cup (v \ {x})) = SumOver(f, S) + SumOver(f, v \ {x})
  BY <1>2, <1>3
<1> HIDE DEF Bad
<1>7. SumOver(f, S \cup v) = f[x] + SumOver(f, S \cup (v \ {x}))
  <2>1. (S \cup v) \ {x} = S \cup (v \ {x})
    BY <1>3
  <2>2. x \in S \cup v /\ IsFiniteSet(S \cup v) /\ \A y \in S \cup v : f[y] \in Int
    BY <1>1, <1>3
  <2> QED BY <2>1, <2>2, SumWithout
<1>8. SumOver(f, v) = f[x] + SumOver(f, v \ {x})
  BY <1>1, <1>3, SumWithout
<1>9. f[x] \in Int /\ SumOver(f, v \ {x}) \in Int
  BY <1>1, <1>3, SumIsWhole
<1> QED BY <1>3, <1>4, <1>6, <1>7, <1>8, <1>9

\* A sum depends on the amounts of the members only.
LEMMA SumOfEquals ==
    ASSUME NEW f, NEW g, NEW S, IsFiniteSet(S), \A x \in S : f[x] = g[x]
    PROVE  SumOver(f, S) = SumOver(g, S)
<1> DEFINE Bad == {s \in SUBSET S : SumOver(f, s) # SumOver(g, s)}
<1> SUFFICES ASSUME Bad # {} PROVE FALSE
  OBVIOUS
<1>1. \A s \in SUBSET S : IsFiniteSet(s)
  BY FS_Subset
<1>2. PICK s \in Bad : \A x \in s : s \ {x} \notin Bad
  <2>1. \A t \in Bad : IsFiniteSet(t)
    BY <1>1
  <2> HIDE DEF Bad
  <2> QED BY <2>1, SmallestSet
<1>3. s # {} /\ s \in SUBSET S
  BY SumOfNothing
<1>4. Chosen(s) \in s
  BY <1>3, ChosenIsIn
<1>5. SumOver(f, s \ {Chosen(s)}) = SumOver(g, s \ {Chosen(s)})
  BY <1>2, <1>3, <1>4
<1>6. /\ SumOver(f, s) = f[Chosen(s)] + SumOver(f, s \ {Chosen(s)})
      /\ SumOver(g, s) = g[Chosen(s)] + SumOver(g, s \ {Chosen(s)})
  BY <1>1, <1>3, SumStep
<1> QED BY <1>3, <1>4, <1>5, <1>6

\* Natural numbers have a natural sum.
LEMMA SumIsNatural ==
    ASSUME NEW f, NEW S, IsFiniteSet(S), \A x \in S : f[x] \in Nat
    PROVE  SumOver(f, S) \in Nat
<1> DEFINE Bad == {s \in SUBSET S : SumOver(f, s) \notin Nat}
<1> SUFFICES ASSUME Bad # {} PROVE FALSE
  OBVIOUS
<1>1. \A s \in SUBSET S : IsFiniteSet(s)
  BY FS_Subset
<1>2. PICK s \in Bad : \A x \in s : s \ {x} \notin Bad
  <2>1. \A t \in Bad : IsFiniteSet(t)
    BY <1>1
  <2> HIDE DEF Bad
  <2> QED BY <2>1, SmallestSet
<1>3. s # {} /\ s \in SUBSET S
  BY SumOfNothing
<1>4. Chosen(s) \in s
  BY <1>3, ChosenIsIn
<1>5. SumOver(f, s \ {Chosen(s)}) \in Nat /\ f[Chosen(s)] \in Nat
  BY <1>2, <1>3, <1>4
<1>6. SumOver(f, s) = f[Chosen(s)] + SumOver(f, s \ {Chosen(s)})
  BY <1>1, <1>3, SumStep
<1>7. SumOver(f, s) \in Nat
  BY <1>5, <1>6
<1> QED BY <1>7

\* A part of natural numbers sums to no more than all of them.
LEMMA SumOfPart ==
    ASSUME NEW f, NEW S, IsFiniteSet(S), NEW U, U \subseteq S, \A x \in S : f[x] \in Nat
    PROVE  /\ SumOver(f, U) \in Nat /\ SumOver(f, S) \in Nat
           /\ SumOver(f, U) <= SumOver(f, S)
<1>1. IsFiniteSet(U) /\ IsFiniteSet(S \ U)
  BY FS_Subset
<1>2. S = U \cup (S \ U) /\ U \cap (S \ U) = {}
  OBVIOUS
<1>3. \A x \in U \cup (S \ U) : f[x] \in Int
  BY <1>2
<1>4. SumOver(f, S) = SumOver(f, U) + SumOver(f, S \ U)
  <2>1. SumOver(f, U \cup (S \ U)) = SumOver(f, U) + SumOver(f, S \ U)
    BY <1>1, <1>2, <1>3, SumOfUnion
  <2> QED BY <1>2, <2>1
<1>5. SumOver(f, U) \in Nat /\ SumOver(f, S \ U) \in Nat
  BY <1>1, SumIsNatural
<1> QED BY <1>4, <1>5

\* Where one amount changes, the sum changes by as much.
LEMMA SumChanged ==
    ASSUME NEW f, NEW g, NEW S, IsFiniteSet(S), \A x \in S : f[x] \in Int /\ g[x] \in Int,
           NEW y \in S, \A x \in S \ {y} : g[x] = f[x]
    PROVE  SumOver(g, S) = SumOver(f, S) + g[y] - f[y]
<1> DEFINE rest == SumOver(f, S \ {y})
<1>1. IsFiniteSet(S \ {y})
  BY FS_Subset
<1>2. SumOver(g, S \ {y}) = rest
  BY <1>1, SumOfEquals
<1>3. rest \in Int
  BY <1>1, SumIsWhole
<1>4. SumOver(f, S) = f[y] + rest /\ SumOver(g, S) = g[y] + SumOver(g, S \ {y})
  BY SumWithout
<1> HIDE DEF rest
<1> QED BY <1>2, <1>3, <1>4

\* Nothing but zeros.
LEMMA SumOfZeros ==
    ASSUME NEW f, NEW S, IsFiniteSet(S), \A x \in S : f[x] = 0
    PROVE  SumOver(f, S) = 0
<1> DEFINE Bad == {s \in SUBSET S : SumOver(f, s) # 0}
<1> SUFFICES ASSUME Bad # {} PROVE FALSE
  OBVIOUS
<1>1. \A s \in SUBSET S : IsFiniteSet(s)
  BY FS_Subset
<1>2. PICK s \in Bad : \A x \in s : s \ {x} \notin Bad
  <2>1. \A t \in Bad : IsFiniteSet(t)
    BY <1>1
  <2> HIDE DEF Bad
  <2> QED BY <2>1, SmallestSet
<1>3. s # {} /\ s \in SUBSET S
  BY SumOfNothing
<1>4. Chosen(s) \in s
  BY <1>3, ChosenIsIn
<1>5. SumOver(f, s \ {Chosen(s)}) = 0 /\ f[Chosen(s)] = 0
  BY <1>2, <1>3, <1>4
<1>6. SumOver(f, s) = f[Chosen(s)] + SumOver(f, s \ {Chosen(s)})
  BY <1>1, <1>3, SumStep
<1>7. SumOver(f, s) = 0
  BY <1>5, <1>6
<1> QED BY <1>7

\* A finite set of natural numbers that is not empty has a greatest one.
LEMMA GreatestNumber ==
    ASSUME NEW T, IsFiniteSet(T), T \subseteq Nat, T # {}
    PROVE  \E m \in T : \A n \in T : m >= n
<1> DEFINE HasOne(s) == \E m \in s : \A n \in s : m >= n
           Bad == {s \in SUBSET T : s # {} /\ ~ HasOne(s)}
<1> SUFFICES ASSUME Bad # {} PROVE FALSE
  OBVIOUS
<1>1. \A s \in SUBSET T : IsFiniteSet(s)
  BY FS_Subset
<1>2. PICK s \in Bad : \A x \in s : s \ {x} \notin Bad
  <2>1. \A t \in Bad : IsFiniteSet(t)
    BY <1>1
  <2> HIDE DEF Bad
  <2> QED BY <2>1, SmallestSet
<1>3. s \subseteq Nat /\ s # {} /\ ~ HasOne(s)
  OBVIOUS
<1>4. PICK x \in s : TRUE
  BY <1>3
<1>5. CASE s \ {x} = {}
  <2>1. \A n \in s : x >= n
    BY <1>3, <1>5
  <2> QED BY <1>3, <2>1
<1>6. CASE s \ {x} # {}
  <2>1. s \ {x} \in SUBSET T /\ s \ {x} \notin Bad
    BY <1>2
  <2>2. HasOne(s \ {x})
    BY <1>6, <2>1
  <2>3. PICK m \in s \ {x} : \A n \in s \ {x} : m >= n
    BY <2>2
  <2>4. x \in Nat /\ m \in Nat
    BY <1>3
  <2>5. CASE m >= x
    <3>1. \A n \in s : m >= n
      BY <2>3, <2>5
    <3> QED BY <1>3, <3>1
  <2>6. CASE x > m
    <3>1. \A n \in s : x >= n
      <4> TAKE n \in s
      <4>1. n \in Nat
        BY <1>3
      <4>2. CASE n = x
        BY <4>1, <4>2
      <4>3. CASE n # x
        BY <2>3, <2>4, <2>6, <4>1, <4>3
      <4> QED BY <4>2, <4>3
    <3> QED BY <1>3, <3>1
  <2> QED BY <2>4, <2>5, <2>6
<1> QED BY <1>5, <1>6

\* What is no more of each member is no more of all.
LEMMA SumAtMost ==
    ASSUME NEW f, NEW g, NEW S, IsFiniteSet(S), \A x \in S : f[x] \in Int /\ g[x] \in Int,
           \A x \in S : f[x] <= g[x]
    PROVE  SumOver(f, S) <= SumOver(g, S)
<1> DEFINE Bad == {s \in SUBSET S : ~ SumOver(f, s) <= SumOver(g, s)}
<1> SUFFICES ASSUME Bad # {} PROVE FALSE
  OBVIOUS
<1>1. \A s \in SUBSET S : IsFiniteSet(s)
  BY FS_Subset
<1>2. PICK s \in Bad : \A x \in s : s \ {x} \notin Bad
  <2>1. \A t \in Bad : IsFiniteSet(t)
    BY <1>1
  <2> HIDE DEF Bad
  <2> QED BY <2>1, SmallestSet
<1>3. s # {} /\ s \in SUBSET S
  BY SumOfNothing
<1> DEFINE x == Chosen(s)
<1>4. x \in s
  BY <1>3, ChosenIsIn
<1>5. SumOver(f, s \ {x}) <= SumOver(g, s \ {x}) /\ f[x] <= g[x]
  BY <1>2, <1>3, <1>4
<1>6. /\ SumOver(f, s) = f[x] + SumOver(f, s \ {x})
      /\ SumOver(g, s) = g[x] + SumOver(g, s \ {x})
  BY <1>1, <1>3, SumStep
<1>7. f[x] \in Int /\ g[x] \in Int
  BY <1>3, <1>4
<1>8. SumOver(f, s \ {x}) \in Int /\ SumOver(g, s \ {x}) \in Int
  <2>1. IsFiniteSet(s \ {x}) /\ \A y \in s \ {x} : f[y] \in Int /\ g[y] \in Int
    BY <1>1, <1>3
  <2> QED BY <2>1, SumIsWhole
<1>9. SumOver(f, s) <= SumOver(g, s)
  <2> HIDE DEF x
  <2> QED BY <1>5, <1>6, <1>7, <1>8
<1> QED BY <1>9

\* Where all amounts are the same, the sum is their number times the amount.
LEMMA SumOfSame ==
    ASSUME NEW f, NEW S, IsFiniteSet(S), NEW r \in Int, \A x \in S : f[x] = r
    PROVE  SumOver(f, S) = Cardinality(S) * r
<1> DEFINE Bad == {s \in SUBSET S : SumOver(f, s) # Cardinality(s) * r}
<1> SUFFICES ASSUME Bad # {} PROVE FALSE
  OBVIOUS
<1>1. \A s \in SUBSET S : IsFiniteSet(s) /\ Cardinality(s) \in Nat
  BY FS_Subset, FS_CardinalityType
<1>2. PICK s \in Bad : \A x \in s : s \ {x} \notin Bad
  <2>1. \A t \in Bad : IsFiniteSet(t)
    BY <1>1
  <2> HIDE DEF Bad
  <2> QED BY <2>1, SmallestSet
<1>3. s # {} /\ s \in SUBSET S
  BY SumOfNothing, FS_EmptySet
<1> DEFINE x == Chosen(s)
           n == Cardinality(s)
<1>4. x \in s
  BY <1>3, ChosenIsIn
<1>5. SumOver(f, s \ {x}) = Cardinality(s \ {x}) * r /\ f[x] = r
  BY <1>2, <1>3, <1>4
<1>6. Cardinality(s \ {x}) = n - 1 /\ n \in Nat
  BY <1>1, <1>3, <1>4, FS_RemoveElement
<1>7. SumOver(f, s) = f[x] + SumOver(f, s \ {x})
  BY <1>1, <1>3, SumStep
<1>8. r + (n - 1) * r = n * r
  <2> HIDE DEF n
  <2> QED BY <1>6
<1>9. SumOver(f, s) = n * r
  BY <1>5, <1>6, <1>7, <1>8
<1> QED BY <1>9

\* Sums of groups add up to the sum of all: k sends x to the group P[k[x]].
LEMMA SumByGroups ==
    ASSUME NEW f, NEW S, IsFiniteSet(S), \A x \in S : f[x] \in Int,
           NEW k, NEW G, IsFiniteSet(G), \A x \in S : k[x] \in G,
           NEW P, \A y \in G : P[y] \subseteq S,
           \A x \in S : \A y \in G : x \in P[y] <=> k[x] = y,
           NEW h, \A y \in G : h[y] = SumOver(f, P[y])
    PROVE  SumOver(h, G) = SumOver(f, S)
<1> DEFINE Of(D) == {x \in S : k[x] \in D}
           Bad   == {D \in SUBSET G : SumOver(h, D) # SumOver(f, Of(D))}
<1>1. Bad = {}
  <2> SUFFICES ASSUME Bad # {} PROVE FALSE
    OBVIOUS
  <2>1. \A D \in SUBSET G : IsFiniteSet(D)
    BY FS_Subset
  <2>2. PICK D \in Bad : \A y \in D : D \ {y} \notin Bad
    <3>1. \A t \in Bad : IsFiniteSet(t)
      BY <2>1
    <3> HIDE DEF Bad
    <3> QED BY <3>1, SmallestSet
  <2>3. D \in SUBSET G /\ IsFiniteSet(D) /\ SumOver(h, D) # SumOver(f, Of(D))
    BY <2>1
  <2>4. D # {}
    <3>1. Of({}) = {} /\ SumOver(h, {}) = 0 /\ SumOver(f, {}) = 0
      BY SumOfNothing
    <3> QED BY <2>3, <3>1
  <2>5. PICK y \in D : TRUE
    BY <2>4
  <2>6. SumOver(h, D \ {y}) = SumOver(f, Of(D \ {y}))
    BY <2>2, <2>3
  <2>7. \A z \in D : h[z] \in Int
    <3> TAKE z \in D
    <3>1. IsFiniteSet(P[z]) /\ \A x \in P[z] : f[x] \in Int
      BY <2>3, FS_Subset
    <3>2. SumOver(f, P[z]) \in Int
      BY <3>1, SumIsWhole
    <3> QED BY <2>3, <3>2
  <2>8. SumOver(h, D) = h[y] + SumOver(h, D \ {y})
    BY <2>3, <2>7, SumWithout
  <2> DEFINE One  == P[y]
             Rest == Of(D \ {y})
  <2>9. SumOver(f, One \cup Rest) = SumOver(f, One) + SumOver(f, Rest)
    <3>1. IsFiniteSet(One) /\ IsFiniteSet(Rest)
      BY <2>3, FS_Subset
    <3>2. One \cap Rest = {} /\ \A x \in One \cup Rest : f[x] \in Int
      BY <2>3
    <3> HIDE DEF One, Rest
    <3> QED BY <3>1, <3>2, SumOfUnion
  <2>10. One \cup Rest = Of(D)
    BY <2>3, <2>5
  <2>11. h[y] = SumOver(f, One)
    BY <2>3
  <2> QED BY <2>3, <2>6, <2>8, <2>9, <2>10, <2>11
<1>2. Of(G) = S
  OBVIOUS
<1>3. SumOver(h, G) = SumOver(f, Of(G))
  BY <1>1
<1> QED BY <1>2, <1>3
=============================================================================
