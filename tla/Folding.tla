------------------------------ MODULE Folding ------------------------------
(***************************************************************************)
(* Lemmas about operators of the community modules that are defined by     *)
(* recursion over data, for any specification that uses them.              *)
(*                                                                         *)
(* Induction over the natural numbers is stated for sets, since the        *)
(* provers cannot instantiate a lemma about any operator.  For the same    *)
(* reason what is summed is a function (where a specification sums an      *)
(* operator, SumOf of the function that has its values is the same by the  *)
(* definitions), and what is folded is a constant of this module, of which *)
(* a module has an instance for every operator that it folds.              *)
(***************************************************************************)
EXTENDS Integers, Sequences, FiniteSetsExt, FiniteSetTheorems, WellFoundedInduction, TLAPS

\* Op(e, m, x): what the fold comes to at the element x where it was m; e is what the
\* operator needs besides, the same at each element.
CONSTANT Op(_, _, _)

-----------------------------------------------------------------------------
(* Induction *)

\* A set of natural numbers that is not empty has a least element.
LEMMA LeastOfSet ==
  ASSUME NEW T, T \subseteq Nat, T # {}
  PROVE  \E n \in T : \A m \in T : n <= m
<1>1. IsWellFoundedOn(OpToRel(<, Nat), Nat)
  BY NatLessThanWellFounded
<1> DEFINE R == OpToRel(<, Nat)
<1>2. IsWellFoundedOn(R, Nat)
  BY <1>1
<1>3. \A x \in Nat, y \in Nat : y < x => <<y, x>> \in R
  BY DEF OpToRel
<1> HIDE DEF R
<1>4. PICK n \in T : \A y \in T : ~ (<<y, n>> \in R)
  BY <1>2, WFMin
<1>5. ASSUME NEW m \in T PROVE n <= m
  <2>1. ~ (m < n)
    BY <1>3, <1>4
  <2>2. n \in Nat /\ m \in Nat
    OBVIOUS
  <2>3. QED
    BY <2>1, <2>2
<1>6. QED
  BY <1>5

\* A set that has 0, and with every number the next, has all natural numbers.
LEMMA Inductive ==
  ASSUME NEW P, 0 \in P, \A n \in Nat : n \in P => n + 1 \in P
  PROVE  Nat \subseteq P
<1> DEFINE T == Nat \ P
<1> SUFFICES ASSUME T # {} PROVE FALSE
  OBVIOUS
<1>1. PICK n \in T : \A m \in T : n <= m
  BY LeastOfSet
<1>2. n # 0
  OBVIOUS
<1>3. n - 1 \in Nat /\ ~ (n <= n - 1)
  BY <1>2
<1>4. n - 1 \in P
  BY <1>1, <1>3
<1>5. (n - 1) + 1 \in P
  BY <1>3, <1>4
<1>6. QED
  BY <1>5

-----------------------------------------------------------------------------
(* Sums over finite sets (MapThenSumSet), in whatever order the elements are taken *)

Some(s) == CHOOSE x \in s : TRUE
Rest(s) == s \ {Some(s)}

\* What is the sum of s by the table g of the sums of smaller sets.
SumBy(f, g, s) == IF s = {} THEN 0 ELSE f[Some(s)] + g[Rest(s)]
SumTable(f, S) == CHOOSE g : g = [s \in SUBSET S |-> SumBy(f, g, s)]

SumOf(f, S) == MapThenSumSet(LAMBDA x : f[x], S)

LEMMA SumByTable ==
  ASSUME NEW f, NEW S
  PROVE  SumOf(f, S) = SumTable(f, S)[S]
  BY DEF SumOf, MapThenSumSet, MapThenFoldSet, SumTable, SumBy, Some, Rest

LEMMA RestFacts ==
  ASSUME NEW s, IsFiniteSet(s), s # {}
  PROVE  /\ Some(s) \in s /\ Rest(s) \subseteq s
         /\ IsFiniteSet(Rest(s))
         /\ Cardinality(s) \in Nat \ {0}
         /\ Cardinality(Rest(s)) = Cardinality(s) - 1
<1>1. Some(s) \in s /\ Rest(s) \subseteq s
  BY DEF Some, Rest
<1>2. Cardinality(s) \in Nat /\ Cardinality(s) # 0
  BY FS_CardinalityType, FS_EmptySet
<1>3. IsFiniteSet(Rest(s)) /\ Cardinality(Rest(s)) = Cardinality(s) - 1
  BY <1>1, FS_RemoveElement DEF Rest
<1>4. QED
  BY <1>1, <1>2, <1>3

\* There is such a table: it is built for sets of one element more at a time.
LEMMA TableExists ==
  ASSUME NEW f, NEW S, IsFiniteSet(S)
  PROVE  SumTable(f, S) = [s \in SUBSET S |-> SumBy(f, SumTable(f, S), s)]
<1> DEFINE Upto(n) == {s \in SUBSET S : Cardinality(s) <= n}
           Tabled(g, n) == \A s \in Upto(n) : g[s] = SumBy(f, g, s)
           P == {n \in Nat : \E g : Tabled(g, n)}
<1>1. \A s \in SUBSET S : IsFiniteSet(s) /\ Cardinality(s) \in Nat
  BY FS_Subset, FS_CardinalityType
<1>2. 0 \in P
  <2>1. \A s \in Upto(0) : s = {}
    BY <1>1, FS_EmptySet
  <2>2. Tabled([s \in Upto(0) |-> 0], 0)
    BY <2>1 DEF SumBy
  <2>3. QED
    BY <2>2
<1>3. ASSUME NEW n \in Nat, n \in P PROVE n + 1 \in P
  <2>1. PICK g : Tabled(g, n)
    BY <1>3
  <2> DEFINE h == [s \in Upto(n + 1) |-> IF s \in Upto(n) THEN g[s] ELSE SumBy(f, g, s)]
  <2>2. ASSUME NEW s \in Upto(n + 1) PROVE h[s] = SumBy(f, h, s)
    <3>1. CASE s = {}
      <4>1. s \in Upto(n) \/ s \notin Upto(n)
        OBVIOUS
      <4>2. s \in Upto(n) => g[s] = 0
        BY <2>1, <3>1 DEF SumBy
      <4>3. QED
        BY <4>1, <4>2, <3>1 DEF SumBy
    <3>2. CASE s # {}
      <4>1. Rest(s) \in Upto(n)
        BY <1>1, <3>2, RestFacts
      <4>2. h[Rest(s)] = g[Rest(s)]
        <5>1. Rest(s) \in Upto(n + 1)
          BY <1>1, <4>1
        <5>2. QED
          BY <4>1, <5>1
      <4>3. SumBy(f, h, s) = SumBy(f, g, s)
        BY <3>2, <4>2 DEF SumBy
      <4>4. h[s] = SumBy(f, g, s)
        BY <2>1
      <4>5. QED
        BY <4>3, <4>4
    <3>3. QED
      BY <3>1, <3>2
  <2> HIDE DEF h
  <2>3. \E k : Tabled(k, n + 1)
    BY <2>2
  <2>4. QED
    BY <2>3
<1>4. Cardinality(S) \in P
  <2> HIDE DEF P
  <2>1. QED
    BY <1>1, <1>2, <1>3, Inductive
<1>5. PICK g : Tabled(g, Cardinality(S))
  BY <1>4
<1>6. \A s \in SUBSET S : s \in Upto(Cardinality(S))
  BY <1>1, FS_Subset
<1> DEFINE h == [s \in SUBSET S |-> g[s]]
<1>7. ASSUME NEW s \in SUBSET S PROVE h[s] = SumBy(f, h, s)
  <2>1. g[s] = SumBy(f, g, s)
    BY <1>5, <1>6
  <2>2. s # {} => Rest(s) \in SUBSET S
    BY DEF Rest
  <2>3. QED
    BY <2>1, <2>2 DEF SumBy
<1>8. h = [s \in SUBSET S |-> SumBy(f, h, s)]
  BY <1>7
<1> HIDE DEF h
<1>9. QED
  BY <1>8 DEF SumTable

LEMMA TableFacts ==
  ASSUME NEW f, NEW S, IsFiniteSet(S), NEW s \in SUBSET S
  PROVE  SumTable(f, S)[s] = SumBy(f, SumTable(f, S), s)
<1> DEFINE t == SumTable(f, S)
<1>1. t = [r \in SUBSET S |-> SumBy(f, t, r)]
  BY TableExists
<1> HIDE DEF t
<1>2. t[s] = SumBy(f, t, s)
  BY <1>1
<1>3. QED
  BY <1>2 DEF t

\* Tables of two functions that agree, for sets that both have, agree.
LEMMA TablesAgree ==
  ASSUME NEW f, NEW g, NEW S, IsFiniteSet(S), NEW T, IsFiniteSet(T),
         NEW s \in SUBSET (S \cap T), \A x \in s : f[x] = g[x]
  PROVE  SumTable(f, S)[s] = SumTable(g, T)[s]
<1> DEFINE Agree(r) == SumTable(f, S)[r] = SumTable(g, T)[r]
           P == {n \in Nat : \A r \in SUBSET s : Cardinality(r) = n => Agree(r)}
<1>1. \A r \in SUBSET s : IsFiniteSet(r) /\ Cardinality(r) \in Nat
  BY FS_Subset, FS_CardinalityType
<1>2. ASSUME NEW r \in SUBSET s
      PROVE  /\ SumTable(f, S)[r] = SumBy(f, SumTable(f, S), r)
             /\ SumTable(g, T)[r] = SumBy(g, SumTable(g, T), r)
  BY TableFacts
<1>3. 0 \in P
  <2>1. ASSUME NEW r \in SUBSET s, Cardinality(r) = 0 PROVE Agree(r)
    <3>1. r = {}
      BY <1>1, <2>1, FS_EmptySet
    <3>2. QED
      BY <1>2, <3>1 DEF SumBy
  <2>2. QED
    BY <2>1
<1>4. ASSUME NEW n \in Nat, n \in P PROVE n + 1 \in P
  <2>1. ASSUME NEW r \in SUBSET s, Cardinality(r) = n + 1 PROVE Agree(r)
    <3>1. r # {}
      BY <2>1, FS_EmptySet
    <3>2. /\ Some(r) \in r
          /\ Rest(r) \in SUBSET s
          /\ Cardinality(Rest(r)) = n
      BY <1>1, <2>1, <3>1, RestFacts
    <3>3. Agree(Rest(r))
      BY <1>4, <3>2
    <3>4. f[Some(r)] = g[Some(r)]
      BY <3>2
    <3>5. QED
      BY <1>2, <3>1, <3>3, <3>4 DEF SumBy
  <2>2. QED
    BY <2>1
<1>5. Cardinality(s) \in P
  <2> HIDE DEF P
  <2>1. QED
    BY <1>1, <1>3, <1>4, Inductive
<1>6. QED
  BY <1>5

-----------------------------------------------------------------------------
(* Sums *)

LEMMA SumEmpty == ASSUME NEW f PROVE SumOf(f, {}) = 0
<1>1. SumTable(f, {})[{}] = SumBy(f, SumTable(f, {}), {})
  BY TableFacts, FS_EmptySet
<1>2. QED
  BY <1>1, SumByTable DEF SumBy

\* What a sum is depends on the values of its elements only.
LEMMA SumSame ==
  ASSUME NEW f, NEW g, NEW S, IsFiniteSet(S), \A x \in S : f[x] = g[x]
  PROVE  SumOf(f, S) = SumOf(g, S)
  BY SumByTable, TablesAgree

LEMMA SumStep ==
  ASSUME NEW f, NEW S, IsFiniteSet(S), S # {}
  PROVE  SumOf(f, S) = f[Some(S)] + SumOf(f, Rest(S))
<1>1. SumTable(f, S)[S] = f[Some(S)] + SumTable(f, S)[Rest(S)]
  BY TableFacts DEF SumBy
<1>2. IsFiniteSet(Rest(S)) /\ Rest(S) \in SUBSET (S \cap Rest(S))
  BY RestFacts
<1>3. SumTable(f, S)[Rest(S)] = SumTable(f, Rest(S))[Rest(S)]
  BY <1>2, TablesAgree
<1>4. QED
  BY <1>1, <1>3, SumByTable

LEMMA SumInt ==
  ASSUME NEW f, NEW S, IsFiniteSet(S), \A x \in S : f[x] \in Int
  PROVE  SumOf(f, S) \in Int
<1> DEFINE P == {n \in Nat : \A r \in SUBSET S : Cardinality(r) = n => SumOf(f, r) \in Int}
<1>1. \A r \in SUBSET S : IsFiniteSet(r) /\ Cardinality(r) \in Nat
  BY FS_Subset, FS_CardinalityType
<1>2. 0 \in P
  <2>1. ASSUME NEW r \in SUBSET S, Cardinality(r) = 0 PROVE SumOf(f, r) \in Int
    <3>1. r = {}
      BY <1>1, <2>1, FS_EmptySet
    <3>2. QED
      BY <3>1, SumEmpty
  <2>2. QED
    BY <2>1
<1>3. ASSUME NEW n \in Nat, n \in P PROVE n + 1 \in P
  <2>1. ASSUME NEW r \in SUBSET S, Cardinality(r) = n + 1 PROVE SumOf(f, r) \in Int
    <3>1. r # {}
      BY <2>1, FS_EmptySet
    <3>2. /\ Some(r) \in r
          /\ Rest(r) \in SUBSET S
          /\ Cardinality(Rest(r)) = n
      BY <1>1, <2>1, <3>1, RestFacts
    <3>3. SumOf(f, Rest(r)) \in Int /\ f[Some(r)] \in Int
      BY <1>3, <3>2
    <3>4. SumOf(f, r) = f[Some(r)] + SumOf(f, Rest(r))
      BY <1>1, <3>1, SumStep
    <3>5. QED
      BY <3>3, <3>4
  <2>2. QED
    BY <2>1
<1>4. Cardinality(S) \in P
  <2> HIDE DEF P
  <2>1. QED
    BY <1>1, <1>2, <1>3, Inductive
<1>5. QED
  BY <1>4

\* One element more: by induction, taking out the same element of both sets.
LEMMA SumMore ==
  ASSUME NEW f, NEW S, IsFiniteSet(S), NEW x, x \notin S,
         \A y \in S \cup {x} : f[y] \in Int
  PROVE  SumOf(f, S \cup {x}) = f[x] + SumOf(f, S)
<1> DEFINE U == S \cup {x}
           More(r, y) == SumOf(f, r \cup {y}) = f[y] + SumOf(f, r)
           P == {n \in Nat : \A r \in SUBSET U : Cardinality(r) = n => \A y \in U \ r : More(r, y)}
<1>1. \A r \in SUBSET U : IsFiniteSet(r) /\ Cardinality(r) \in Nat
  BY FS_AddElement, FS_Subset, FS_CardinalityType
<1>2. \A r \in SUBSET U : SumOf(f, r) \in Int
  BY <1>1, SumInt
<1>3. ASSUME NEW r \in SUBSET U, NEW y \in U \ r, Some(r \cup {y}) = y PROVE More(r, y)
  <2>1. r \cup {y} \in SUBSET U /\ r \cup {y} # {}
    OBVIOUS
  <2>2. Rest(r \cup {y}) = r
    BY <1>3 DEF Rest
  <2>3. QED
    BY <1>1, <1>3, <2>1, <2>2, SumStep
<1>4. 0 \in P
  <2>1. ASSUME NEW r \in SUBSET U, Cardinality(r) = 0, NEW y \in U \ r PROVE More(r, y)
    <3>1. r = {}
      BY <1>1, <2>1, FS_EmptySet
    <3>2. Some(r \cup {y}) = y
      BY <3>1 DEF Some
    <3>3. QED
      BY <1>3, <3>2
  <2>2. QED
    BY <2>1
<1>5. ASSUME NEW n \in Nat, n \in P PROVE n + 1 \in P
  <2>1. ASSUME NEW r \in SUBSET U, Cardinality(r) = n + 1, NEW y \in U \ r PROVE More(r, y)
    <3> DEFINE q == r \cup {y}
               p == Some(q)
               o == r \ {p}
    <3>1. CASE p = y
      BY <1>3, <3>1
    <3>2. CASE p # y
      <4>1. q \in SUBSET U /\ q # {} /\ IsFiniteSet(q)
        BY <1>1
      <4>2. p \in q
        BY <4>1, RestFacts
      <4>3. p \in r /\ o \in SUBSET U /\ y \in U \ o /\ p \in U \ o
        BY <4>2, <3>2
      <4>4. Cardinality(o) = n
        <5>1. Cardinality(o) = Cardinality(r) - 1
          BY <1>1, <4>3, FS_RemoveElement
        <5>2. QED
          BY <2>1, <5>1
      <4>5. Rest(q) = o \cup {y} /\ r = o \cup {p}
        BY <4>3, <3>2 DEF Rest
      <4>6. SumOf(f, o \cup {y}) = f[y] + SumOf(f, o)
        BY <1>5, <4>3, <4>4
      <4>7. SumOf(f, o \cup {p}) = f[p] + SumOf(f, o)
        BY <1>5, <4>3, <4>4
      <4>8. SumOf(f, q) = f[p] + SumOf(f, Rest(q))
        BY <4>1, SumStep
      <4>9. f[p] \in Int /\ f[y] \in Int /\ SumOf(f, o) \in Int
        BY <1>2, <4>3
      <4>10. SumOf(f, q) = f[y] + SumOf(f, r)
        <5> HIDE DEF q, p, o
        <5>1. QED
          BY <4>5, <4>6, <4>7, <4>8, <4>9
      <4>11. QED
        BY <4>10
    <3>3. QED
      BY <3>1, <3>2
  <2>2. QED
    BY <2>1
<1>6. Cardinality(S) \in P
  <2> HIDE DEF P
  <2>1. Cardinality(S) \in Nat
    BY <1>1
  <2>2. QED
    BY <2>1, <1>4, <1>5, Inductive
<1>7. S \in SUBSET U /\ x \in U \ S
  OBVIOUS
<1>8. QED
  BY <1>6, <1>7

-----------------------------------------------------------------------------
(* Left folds over sequences (FoldLeft): the last of a row of values *)

\* The table of the folds of the parts of s, as the definition of FoldLeft has it, and
\* what such a table has for one part.
FoldBy(e, base, s, g, p) == IF p = {} THEN base ELSE LET x == Max(p) IN Op(e, g[p \ {x}], s[x])
IsTable(e, base, s, g) == g = [p \in SUBSET DOMAIN s |-> FoldBy(e, base, s, g, p)]
FoldTable(e, base, s) == CHOOSE g : IsTable(e, base, s, g)

\* The values of the fold on the way.
Steps(e, h, base, s, n) == h[0] = base /\ \A k \in 1..n : h[k] = Op(e, h[k - 1], s[k])

LEMMA GreatestOf ==
  ASSUME NEW n \in Nat, NEW p, p \subseteq 1..n, p # {}
  PROVE  Max(p) \in p
<1> DEFINE T == {n - x : x \in p}
<1>1. T \subseteq Nat /\ T # {}
  <2>1. \A x \in p : x \in Nat /\ n - x \in Nat
    OBVIOUS
  <2>2. QED
    BY <2>1
<1>2. PICK m \in T : \A y \in T : m <= y
  <2> HIDE DEF T
  <2>1. QED
    BY <1>1, LeastOfSet
<1>3. PICK x \in p : m = n - x
  OBVIOUS
<1>4. \A y \in p : x >= y
  <2>1. ASSUME NEW y \in p PROVE x >= y
    <3>1. n - x <= n - y
      BY <1>2, <1>3
    <3>2. QED
      BY <3>1
  <2>2. QED
    BY <2>1
<1>5. QED
  BY <1>4 DEF Max

\* There is such a table: it is built for parts of one element more at a time.
LEMMA FoldTableExists ==
  ASSUME NEW e, NEW base, NEW s, NEW n \in Nat, DOMAIN s = 1..n
  PROVE  IsTable(e, base, s, FoldTable(e, base, s))
<1> DEFINE S == 1..n
           Upto(m) == {p \in SUBSET S : Cardinality(p) <= m}
           Tabled(g, m) == \A p \in Upto(m) : g[p] = FoldBy(e, base, s, g, p)
           P == {m \in Nat : \E g : Tabled(g, m)}
<1>1. IsFiniteSet(S) /\ \A p \in SUBSET S : IsFiniteSet(p) /\ Cardinality(p) \in Nat
  <2>1. IsFiniteSet(S)
    BY FS_Interval
  <2> HIDE DEF S
  <2>2. QED
    BY <2>1, FS_Subset, FS_CardinalityType
<1>2. ASSUME NEW p \in SUBSET S, p # {}
      PROVE  /\ Max(p) \in p /\ p \ {Max(p)} \in SUBSET S
             /\ Cardinality(p \ {Max(p)}) = Cardinality(p) - 1
  <2>1. Max(p) \in p
    BY <1>2, GreatestOf
  <2>2. Cardinality(p \ {Max(p)}) = Cardinality(p) - 1
    BY <1>1, <2>1, FS_RemoveElement
  <2>3. QED
    BY <2>1, <2>2
<1>3. 0 \in P
  <2>1. \A p \in Upto(0) : p = {}
    BY <1>1, FS_EmptySet
  <2>2. Tabled([p \in Upto(0) |-> base], 0)
    BY <2>1 DEF FoldBy
  <2>3. QED
    BY <2>2
<1>4. ASSUME NEW m \in Nat, m \in P PROVE m + 1 \in P
  <2>1. PICK g : Tabled(g, m)
    BY <1>4
  <2> DEFINE h == [p \in Upto(m + 1) |-> IF p \in Upto(m) THEN g[p] ELSE FoldBy(e, base, s, g, p)]
  <2>2. ASSUME NEW p \in Upto(m + 1) PROVE h[p] = FoldBy(e, base, s, h, p)
    <3>1. h[p] = FoldBy(e, base, s, g, p)
      BY <2>1
    <3>2. CASE p = {}
      BY <3>1, <3>2 DEF FoldBy
    <3>3. CASE p # {}
      <4>1. p \ {Max(p)} \in Upto(m) /\ p \ {Max(p)} \in Upto(m + 1)
        <5>1. p \in SUBSET S /\ Cardinality(p) <= m + 1 /\ Cardinality(p) \in Nat
          BY <1>1
        <5>2. /\ p \ {Max(p)} \in SUBSET S
              /\ Cardinality(p \ {Max(p)}) = Cardinality(p) - 1
          BY <1>2, <3>3, <5>1
        <5> HIDE DEF S
        <5>3. Cardinality(p) - 1 <= m /\ Cardinality(p) - 1 <= m + 1
          BY <5>1
        <5>4. QED
          BY <5>2, <5>3
      <4>2. h[p \ {Max(p)}] = g[p \ {Max(p)}]
        BY <4>1
      <4>3. FoldBy(e, base, s, h, p) = FoldBy(e, base, s, g, p)
        <5> HIDE DEF h
        <5>1. QED
          BY <3>3, <4>2 DEF FoldBy
      <4>4. QED
        BY <3>1, <4>3
    <3>4. QED
      BY <3>2, <3>3
  <2> HIDE DEF h
  <2>3. \E k : Tabled(k, m + 1)
    BY <2>2
  <2>4. QED
    BY <2>3
<1>5. n \in P
  <2> HIDE DEF P
  <2>1. QED
    BY <1>3, <1>4, Inductive
<1>6. PICK g : Tabled(g, n)
  BY <1>5
<1>7. \A p \in SUBSET S : p \in Upto(n)
  <2>1. Cardinality(S) = n
    BY FS_Interval
  <2>2. \A p \in SUBSET S : Cardinality(p) <= Cardinality(S)
    BY <1>1, FS_Subset
  <2>3. QED
    BY <2>1, <2>2
<1> DEFINE h == [p \in SUBSET S |-> g[p]]
<1>8. ASSUME NEW p \in SUBSET S PROVE h[p] = FoldBy(e, base, s, h, p)
  <2>1. g[p] = FoldBy(e, base, s, g, p) /\ h[p] = g[p]
    BY <1>6, <1>7
  <2>2. p # {} => h[p \ {Max(p)}] = g[p \ {Max(p)}]
    BY <1>2
  <2> HIDE DEF h
  <2>3. QED
    BY <2>1, <2>2 DEF FoldBy
<1>9. IsTable(e, base, s, h)
  BY <1>8 DEF IsTable
<1> HIDE DEF h
<1>10. QED
  BY <1>9 DEF FoldTable

\* The fold of a sequence is the last of its steps.
LEMMA FoldSteps ==
  ASSUME NEW e, NEW base, NEW s, NEW n \in Nat, DOMAIN s = 1..n
  PROVE  \E h : Steps(e, h, base, s, n) /\ FoldTable(e, base, s)[DOMAIN s] = h[n]
<1>0. IsTable(e, base, s, FoldTable(e, base, s))
  BY FoldTableExists
<1> DEFINE t == FoldTable(e, base, s)
           h == [k \in 0..n |-> t[1..k]]
<1>1. \A p \in SUBSET (1..n) : t[p] = FoldBy(e, base, s, t, p)
  <2>1. t = [p \in SUBSET DOMAIN s |-> FoldBy(e, base, s, t, p)]
    BY <1>0 DEF IsTable
  <2> HIDE DEF t
  <2>2. QED
    BY <2>1
<1> HIDE DEF t
<1>2. h[0] = base
  <2>1. 1..0 = {} /\ {} \in SUBSET (1..n) /\ 0 \in 0..n
    OBVIOUS
  <2>2. t[{}] = base
    BY <1>1, <2>1 DEF FoldBy
  <2>3. QED
    BY <2>1, <2>2
<1>3. ASSUME NEW k \in 1..n PROVE h[k] = Op(e, h[k - 1], s[k])
  <2>1. /\ 1..k \in SUBSET (1..n) /\ 1..k # {} /\ k \in 0..n /\ k - 1 \in 0..n
        /\ (1..k) \ {k} = 1..(k - 1)
    <3>1. k \in Nat \ {0} /\ k <= n
      OBVIOUS
    <3>2. k \in 1..k /\ \A x \in 1..k : x \in 1..n
      BY <3>1
    <3>3. (1..k) \ {k} = 1..(k - 1)
      BY <3>1
    <3>4. QED
      BY <3>1, <3>2, <3>3
  <2>2. Max(1..k) = k
    BY DEF Max
  <2>3. t[1..k] = Op(e, t[1..(k - 1)], s[k])
    BY <1>1, <2>1, <2>2 DEF FoldBy
  <2>4. QED
    BY <2>1, <2>3
<1>4. h[n] = t[DOMAIN s]
  OBVIOUS
<1> HIDE DEF h
<1>5. Steps(e, h, base, s, n)
  BY <1>2, <1>3 DEF Steps
<1>6. QED
  BY <1>4, <1>5 DEF t
=============================================================================
