---------------------------------- MODULE Sums ----------------------------------
(***************************************************************************)
(* Induction over finite sets and numbers, what the sums of Functions and  *)
(* the products of FiniteSetsExt are worth, and the places in an order: the*)
(* lemmas the proofs about quantities and sorted lists rest on.            *)
(*                                                                         *)
(* The library states induction for a predicate, which the provers cannot  *)
(* instantiate; here the predicate is the set of the values that have it.  *)
(***************************************************************************)
EXTENDS Integers, Sequences, FiniteSets, FiniteSetsExt, Functions, FiniteSetTheorems, TLAPS

------------------------------------------------------------------------------
(***************************************************************************)
(* Induction.                                                              *)
(***************************************************************************)
\* A set of natural numbers has a least element.
LEMMA LeastNat ==
    ASSUME NEW S \in SUBSET Nat, S # {}
    PROVE  \E x \in S : \A y \in S : x <= y
<1> DEFINE R == {ss \in Nat \X Nat : ss[1] < ss[2]}
<1>1. IsWellFoundedOn(R, Nat)
  BY NatLessThanWellFounded DEF OpToRel
<1>2. \A x, y \in Nat : <<y, x>> \notin R => x <= y
  OBVIOUS
<1> HIDE DEF R
<1>3. \E x \in S : \A y \in S : <<y, x>> \notin R
  BY <1>1, WFMin
<1> QED
  BY <1>2, <1>3

\* Induction over the natural numbers.
LEMMA NatInduct ==
    ASSUME NEW Good, 0 \in Good, \A n \in Nat : n \in Good => n + 1 \in Good
    PROVE  \A n \in Nat : n \in Good
<1> SUFFICES ASSUME NEW m \in Nat, m \notin Good PROVE FALSE
  OBVIOUS
<1> DEFINE Bad == Nat \ Good
<1>1. PICK x \in Bad : \A y \in Bad : x <= y
  <2>1. Bad \in SUBSET Nat /\ Bad # {}
    OBVIOUS
  <2> HIDE DEF Bad
  <2> QED
    BY <2>1, LeastNat
<1>2. x # 0 /\ x \in Nat
  OBVIOUS
<1>3. x - 1 \in Nat /\ (x - 1) + 1 = x /\ x - 1 < x
  BY <1>2
<1>4. x - 1 \notin Bad
  BY <1>1, <1>3
<1> QED
  BY <1>3, <1>4

\* Induction up to n.
Inductive(Good, n) == 0 \in Good /\ \A b \in 1..n : b - 1 \in Good => b \in Good

LEMMA Along ==
    ASSUME NEW n \in Nat, NEW Good, Inductive(Good, n)
    PROVE  0..n \subseteq Good
<1>0. 0 \in Good /\ \A b \in 1..n : b - 1 \in Good => b \in Good
  BY DEF Inductive
<1> DEFINE Below == {m \in Nat : m <= n => m \in Good}
<1>1. 0 \in Below
  BY <1>0
<1>2. \A m \in Nat : m \in Below => m + 1 \in Below
  <2> SUFFICES ASSUME NEW m \in Nat, m \in Below, m + 1 <= n PROVE m + 1 \in Good
    OBVIOUS
  <2>1. m + 1 \in 1..n /\ (m + 1) - 1 = m /\ m <= n
    OBVIOUS
  <2> QED
    BY <1>0, <2>1
<1> HIDE DEF Below
<1>3. \A m \in Nat : m \in Below
  BY <1>1, <1>2, NatInduct
<1> QED
  BY <1>3 DEF Below

\* What step gives for t, with values in V, depends on what comes before t only.
Causal(step, n, V) ==
    /\ \A t \in 0..n : \A f \in [0..n -> V] : step[<<t, f>>] \in V
    /\ \A t \in 0..n : \A f, g \in [0..n -> V] :
          (\A j \in 0..n : j < t => f[j] = g[j]) => step[<<t, f>>] = step[<<t, g>>]

Solves(f, step, n) == \A t \in 0..n : f[t] = step[<<t, f>>]

\* Then a recursive function over 0..n has a solution.
LEMMA Recursion ==
    ASSUME NEW V, NEW v \in V, NEW n \in Nat, NEW step, Causal(step, n, V)
    PROVE  \E f \in [0..n -> V] : Solves(f, step, n)
<1>c. /\ \A t \in 0..n : \A f \in [0..n -> V] : step[<<t, f>>] \in V
      /\ \A t \in 0..n : \A f, g \in [0..n -> V] :
            (\A j \in 0..n : j < t => f[j] = g[j]) => step[<<t, f>>] = step[<<t, g>>]
  BY DEF Causal
<1> DEFINE Good == {m \in Nat : m <= n + 1 =>
               \E f \in [0..n -> V] : \A t \in 0..n : t < m => f[t] = step[<<t, f>>]}
<1>1. 0 \in Good
  <2>1. [t \in 0..n |-> v] \in [0..n -> V]
    OBVIOUS
  <2>2. \A t \in 0..n : ~(t < 0)
    OBVIOUS
  <2> QED
    BY <2>1, <2>2
<1>2. ASSUME NEW m \in Nat, m \in Good
      PROVE  m + 1 \in Good
  <2> SUFFICES ASSUME m <= n
               PROVE  \E g \in [0..n -> V] : \A t \in 0..n : t < m + 1 => g[t] = step[<<t, g>>]
    OBVIOUS
  <2>1. PICK f \in [0..n -> V] : \A t \in 0..n : t < m => f[t] = step[<<t, f>>]
    BY <1>2
  <2> PICK w \in V : w = step[<<m, f>>]
    BY <1>c
  <2>2. PICK g \in [0..n -> V] : g[m] = w /\ \A j \in 0..n : j # m => g[j] = f[j]
    <3> DEFINE h == [f EXCEPT ![m] = w]
    <3>1. h \in [0..n -> V] /\ h[m] = w /\ \A j \in 0..n : j # m => h[j] = f[j]
      OBVIOUS
    <3> HIDE DEF h
    <3> QED
      BY <3>1
  <2>3. ASSUME NEW t \in 0..n, t < m + 1 PROVE g[t] = step[<<t, g>>]
    <3>1. \A j \in 0..n : j < t => f[j] = g[j]
      BY <2>2, <2>3
    <3>2. step[<<t, f>>] = step[<<t, g>>]
      BY <1>c, <3>1
    <3>3. CASE t = m
      BY <2>2, <3>2, <3>3
    <3>4. CASE t # m
      <4>1. t < m
        BY <2>3, <3>4
      <4> QED
        BY <2>1, <2>2, <3>2, <3>4, <4>1
    <3> QED
      BY <3>3, <3>4
  <2> QED
    BY <2>2, <2>3
<1> HIDE DEF Good
<1>3. \A m \in Nat : m \in Good
  BY <1>1, <1>2, NatInduct
<1>4. n + 1 \in Good /\ \A t \in 0..n : t < n + 1
  BY <1>3
<1> QED
  BY <1>4 DEF Good, Solves

\* The same, one step from the other.
Stepping(step, n, V) == \A b \in 1..n : \A x \in V : step[<<b, x>>] \in V

Walks(f, step, v, n) == f[0] = v /\ \A b \in 1..n : f[b] = step[<<b, f[b - 1]>>]

LEMMA Walk ==
    ASSUME NEW V, NEW v \in V, NEW n \in Nat, NEW step, Stepping(step, n, V)
    PROVE  \E f \in [0..n -> V] : Walks(f, step, v, n)
<1>s. \A b \in 1..n : \A x \in V : step[<<b, x>>] \in V
  BY DEF Stepping
<1>0. PICK next : next = [p \in (0..n) \X [0..n -> V] |->
                       IF p[1] = 0 THEN v ELSE step[<<p[1], p[2][p[1] - 1]>>]]
  OBVIOUS
<1>1. \A f \in [0..n -> V] : next[<<0, f>>] = v
  BY <1>0
<1>2. \A b \in 0..n : \A f \in [0..n -> V] : b # 0 => next[<<b, f>>] = step[<<b, f[b - 1]>>]
  BY <1>0
<1>3. \A b \in 0..n : b # 0 => b \in 1..n /\ b - 1 \in 0..n /\ b - 1 < b
  OBVIOUS
<1>4. \A b \in 0..n : \A f \in [0..n -> V] : next[<<b, f>>] \in V
  <2> TAKE b \in 0..n
  <2> TAKE f \in [0..n -> V]
  <2>1. CASE b = 0
    BY <1>1, <2>1
  <2>2. CASE b # 0
    <3>1. f[b - 1] \in V
      BY <1>3, <2>2
    <3> QED
      BY <1>2, <1>3, <1>s, <2>2, <3>1
  <2> QED
    BY <2>1, <2>2
<1>5. \A b \in 0..n : \A f, g \in [0..n -> V] :
        (\A j \in 0..n : j < b => f[j] = g[j]) => next[<<b, f>>] = next[<<b, g>>]
  <2> SUFFICES ASSUME NEW b \in 0..n, NEW f \in [0..n -> V], NEW g \in [0..n -> V],
                      \A j \in 0..n : j < b => f[j] = g[j]
               PROVE  next[<<b, f>>] = next[<<b, g>>]
    OBVIOUS
  <2>1. CASE b = 0
    BY <1>1, <2>1
  <2>2. CASE b # 0
    <3>1. f[b - 1] = g[b - 1]
      BY <1>3, <2>2
    <3> QED
      BY <1>2, <2>2, <3>1
  <2> QED
    BY <2>1, <2>2
<1>c. Causal(next, n, V)
  BY <1>4, <1>5 DEF Causal
<1>r. PICK f \in [0..n -> V] : Solves(f, next, n)
  BY <1>c, Recursion
<1>6. \A b \in 0..n : f[b] = next[<<b, f>>]
  BY <1>r DEF Solves
<1>7. f[0] = v
  <2>1. 0 \in 0..n
    OBVIOUS
  <2> QED
    BY <1>1, <1>6, <2>1
<1>8. ASSUME NEW b \in 1..n PROVE f[b] = step[<<b, f[b - 1]>>]
  <2>1. b \in 0..n /\ b # 0
    OBVIOUS
  <2> QED
    BY <1>2, <1>6, <2>1
<1> QED
  BY <1>7, <1>8 DEF Walks

\* Induction over the subsets of a finite set: what holds of a set if it holds
\* without any one of the elements, holds of all of them.
LEMMA ShrinkInduct ==
    ASSUME NEW S, IsFiniteSet(S), NEW Good,
           \A T \in SUBSET S : (\A x \in T : T \ {x} \in Good) => T \in Good
    PROVE  \A T \in SUBSET S : T \in Good
<1> DEFINE All == {n \in Nat : \A T \in SUBSET S : Cardinality(T) = n => T \in Good}
<1>1. 0 \in All
  <2> SUFFICES ASSUME NEW T \in SUBSET S, Cardinality(T) = 0 PROVE T \in Good
    OBVIOUS
  <2>1. IsFiniteSet(T)
    BY FS_Subset
  <2>2. T = {}
    BY <2>1, FS_EmptySet
  <2> QED
    BY <2>2
<1>2. ASSUME NEW n \in Nat, n \in All
      PROVE  n + 1 \in All
  <2> SUFFICES ASSUME NEW T \in SUBSET S, Cardinality(T) = n + 1 PROVE T \in Good
    OBVIOUS
  <2>1. IsFiniteSet(T)
    BY FS_Subset
  <2>2. ASSUME NEW x \in T PROVE T \ {x} \in Good
    <3>1. Cardinality(T \ {x}) = Cardinality(T) - 1
      BY <2>1, FS_RemoveElement
    <3>2. Cardinality(T \ {x}) = n
      BY <3>1
    <3> QED
      BY <3>2, <1>2
  <2> QED
    BY <2>2
<1> HIDE DEF All
<1>3. \A n \in Nat : n \in All
  BY <1>1, <1>2, NatInduct
<1> SUFFICES ASSUME NEW T \in SUBSET S PROVE T \in Good
  OBVIOUS
<1>4. Cardinality(T) \in Nat
  BY FS_Subset, FS_CardinalityType
<1> QED
  BY <1>3, <1>4 DEF All

------------------------------------------------------------------------------
(***************************************************************************)
(* The recursion behind a sum has exactly one solution.                    *)
(***************************************************************************)
\* g sums f over the subsets of S, an element chosen at a time.
IsSum(f, S, g) ==
    g = [s \in SUBSET S |->
            IF s = {} THEN 0
            ELSE LET x == CHOOSE x \in s : TRUE IN f[x] + g[s \ {x}]]

\* The library's sum is that solution.
LEMMA SumUnfold ==
    ASSUME NEW f, NEW S
    PROVE  SumFunctionOnSet(f, S) = (CHOOSE g : IsSum(f, S, g))[S]
BY DEF SumFunctionOnSet, FoldFunctionOnSet, MapThenFoldSet, IsSum

LEMMA SumsStep ==
    ASSUME NEW f, NEW S, NEW g, IsSum(f, S, g), NEW T \in SUBSET S, T # {}
    PROVE  /\ (CHOOSE x \in T : TRUE) \in T
           /\ g[T] = f[CHOOSE x \in T : TRUE] + g[T \ {CHOOSE x \in T : TRUE}]
<1>1. (CHOOSE x \in T : TRUE) \in T
  OBVIOUS
<1> DEFINE h == [s \in SUBSET S |->
            IF s = {} THEN 0
            ELSE LET x == CHOOSE x \in s : TRUE IN f[x] + g[s \ {x}]]
<1>2. g = h
  BY DEF IsSum
<1>3. h[T] = f[CHOOSE x \in T : TRUE] + g[T \ {CHOOSE x \in T : TRUE}]
  OBVIOUS
<1> HIDE DEF h
<1> QED
  BY <1>1, <1>2, <1>3

LEMMA SumsUnique ==
    ASSUME NEW f, NEW S, IsFiniteSet(S), NEW g, IsSum(f, S, g),
           NEW R \in SUBSET S, NEW h, IsSum(f, R, h)
    PROVE  \A T \in SUBSET R : g[T] = h[T]
<1> DEFINE Good == {T \in SUBSET R : g[T] = h[T]}
<1>1. IsFiniteSet(R)
  BY FS_Subset
<1>2. ASSUME NEW T \in SUBSET R, \A x \in T : T \ {x} \in Good
      PROVE  T \in Good
  <2>1. CASE T = {}
    <3>1. g[{}] = 0 /\ h[{}] = 0
      BY Zenon DEF IsSum
    <3> QED
      BY <3>1, <2>1
  <2>2. CASE T # {}
    <3> PICK c \in T : c = CHOOSE x \in T : TRUE
      BY <2>2
    <3>1. g[T] = f[c] + g[T \ {c}]
      BY <2>2, SumsStep
    <3>2. h[T] = f[c] + h[T \ {c}]
      BY <2>2, SumsStep
    <3> QED
      BY <1>2, <3>1, <3>2
  <2> QED
    BY <2>1, <2>2
<1> HIDE DEF Good
<1>3. \A T \in SUBSET R : T \in Good
  BY <1>1, <1>2, ShrinkInduct
<1> QED
  BY <1>3 DEF Good

\* One step of the sum, as long as the recursion has solutions.
LEMMA SumOnce ==
    ASSUME NEW f, NEW S, IsFiniteSet(S), S # {},
           \E g : IsSum(f, S, g),
           \E g : IsSum(f, S \ {CHOOSE x \in S : TRUE}, g)
    PROVE  LET x == CHOOSE x \in S : TRUE
           IN SumFunctionOnSet(f, S) = f[x] + SumFunctionOnSet(f, S \ {x})
<1> PICK c \in S : c = CHOOSE x \in S : TRUE
  OBVIOUS
<1> PICK g : g = CHOOSE k : IsSum(f, S, k)
  OBVIOUS
<1> PICK h : h = CHOOSE k : IsSum(f, S \ {c}, k)
  OBVIOUS
<1>1. IsSum(f, S, g)
  BY Zenon
<1>2. IsSum(f, S \ {c}, h)
  BY Zenon
<1>3. SumFunctionOnSet(f, S) = g[S]
  BY SumUnfold
<1>4. SumFunctionOnSet(f, S \ {c}) = h[S \ {c}]
  BY SumUnfold
<1>5. g[S] = f[c] + g[S \ {c}]
  BY <1>1, SumsStep
<1>6. g[S \ {c}] = h[S \ {c}]
  <2>1. S \ {c} \in SUBSET S /\ S \ {c} \in SUBSET (S \ {c})
    OBVIOUS
  <2> QED
    BY <1>1, <1>2, <2>1, SumsUnique
<1> QED
  BY <1>3, <1>4, <1>5, <1>6

LEMMA SumOfNone ==
    ASSUME NEW f
    PROVE  /\ \E g : IsSum(f, {}, g)
           /\ SumFunctionOnSet(f, {}) = 0
<1> DEFINE z == [s \in SUBSET {} |-> 0]
<1>1. IsSum(f, {}, z)
  BY DEF IsSum
<1> PICK g : g = CHOOSE k : IsSum(f, {}, k)
  OBVIOUS
<1>2. IsSum(f, {}, g)
  BY <1>1, Zenon
<1>3. g[{}] = 0
  BY <1>2 DEF IsSum
<1> QED
  BY <1>1, <1>3, SumUnfold

LEMMA SumsExist ==
    ASSUME NEW f, NEW S, IsFiniteSet(S)
    PROVE  \A T \in SUBSET S : \E g : IsSum(f, T, g)
<1> DEFINE Good == {T \in SUBSET S : \A U \in SUBSET T : \E g : IsSum(f, U, g)}
<1>1. ASSUME NEW T \in SUBSET S, \A x \in T : T \ {x} \in Good
      PROVE  T \in Good
  <2>1. \A U \in SUBSET T : U # T => \E g : IsSum(f, U, g)
    <3> SUFFICES ASSUME NEW U \in SUBSET T, U # T PROVE \E g : IsSum(f, U, g)
      OBVIOUS
    <3> PICK x \in T : x \notin U
      OBVIOUS
    <3>1. T \ {x} \in Good /\ U \in SUBSET (T \ {x})
      BY <1>1
    <3> QED
      BY <3>1
  <2>2. \E g : IsSum(f, T, g)
    <3>1. CASE T = {}
      BY <3>1, SumOfNone
    <3>2. CASE T # {}
      <4> DEFINE V(s) == IF s = T THEN f[CHOOSE x \in T : TRUE]
                                         + SumFunctionOnSet(f, T \ {CHOOSE x \in T : TRUE})
                         ELSE SumFunctionOnSet(f, s)
                 G == [s \in SUBSET T |-> V(s)]
      <4>1. ASSUME NEW s \in SUBSET T
            PROVE  V(s) = IF s = {} THEN 0
                          ELSE LET x == CHOOSE x \in s : TRUE IN f[x] + G[s \ {x}]
        <5>1. CASE s = {}
          BY <5>1, <3>2, SumOfNone
        <5>2. CASE s # {}
          <6> PICK c \in s : c = CHOOSE x \in s : TRUE
            BY <5>2
          <6>1. s \ {c} \in SUBSET T /\ s \ {c} # T
            OBVIOUS
          <6>2. G[s \ {c}] = SumFunctionOnSet(f, s \ {c})
            BY <6>1
          <6>3. CASE s = T
            BY <6>2, <6>3, <3>2
          <6>4. CASE s # T
            <7>1. IsFiniteSet(s)
              BY FS_Subset
            <7>2. SumFunctionOnSet(f, s) = f[c] + SumFunctionOnSet(f, s \ {c})
              <8>1. (\E g : IsSum(f, s, g)) /\ (\E g : IsSum(f, s \ {c}, g))
                BY <2>1, <6>1, <6>4
              <8> QED
                BY <7>1, <8>1, <5>2, SumOnce
            <7> QED
              BY <6>2, <6>4, <7>2, <5>2
          <6> QED
            BY <6>3, <6>4
        <5> QED
          BY <5>1, <5>2
      <4>2. \A s \in SUBSET T : G[s] = V(s)
        OBVIOUS
      <4> HIDE DEF V
      <4>3. G = [s \in SUBSET T |->
                   IF s = {} THEN 0
                   ELSE LET x == CHOOSE x \in s : TRUE IN f[x] + G[s \ {x}]]
        BY <4>1
      <4> HIDE DEF G
      <4>4. IsSum(f, T, G)
        BY <4>3 DEF IsSum
      <4> QED
        BY <4>4
    <3> QED
      BY <3>1, <3>2
  <2> QED
    BY <2>1, <2>2
<1> HIDE DEF Good
<1>2. \A T \in SUBSET S : T \in Good
  BY <1>1, ShrinkInduct
<1> QED
  BY <1>2 DEF Good

------------------------------------------------------------------------------
(***************************************************************************)
(* The laws of sums.                                                       *)
(***************************************************************************)
\* The hypotheses of the laws, named so that a proof can cite them unexpanded.
IntOn(f, S) == \A x \in S : f[x] \in Int
NatOn(f, S) == \A x \in S : f[x] \in Nat
Agree(f, g, S) == \A x \in S : f[x] = g[x]

LEMMA SumEmpty ==
    ASSUME NEW f
    PROVE  SumFunctionOnSet(f, {}) = 0
BY SumOfNone

\* The element the sum takes first.
LEMMA SumFirst ==
    ASSUME NEW f, NEW S, IsFiniteSet(S), S # {}
    PROVE  \E c \in S : SumFunctionOnSet(f, S) = f[c] + SumFunctionOnSet(f, S \ {c})
<1> PICK c \in S : c = CHOOSE x \in S : TRUE
  OBVIOUS
<1>1. (\E g : IsSum(f, S, g)) /\ (\E g : IsSum(f, S \ {c}, g))
  BY SumsExist
<1> QED
  BY <1>1, SumOnce

\* A sum of integers is one, and one of naturals.
LEMMA SumInt ==
    ASSUME NEW f, NEW S, IsFiniteSet(S), IntOn(f, S)
    PROVE  /\ SumFunctionOnSet(f, S) \in Int
           /\ NatOn(f, S) => SumFunctionOnSet(f, S) \in Nat
<1> USE DEF IntOn, NatOn, Agree
<1> DEFINE Good == {T \in SUBSET S :
                      /\ SumFunctionOnSet(f, T) \in Int
                      /\ (\A x \in S : f[x] >= 0) => SumFunctionOnSet(f, T) \in Nat}
<1>1. ASSUME NEW T \in SUBSET S, \A x \in T : T \ {x} \in Good
      PROVE  T \in Good
  <2>1. CASE T = {}
    BY <2>1, SumEmpty
  <2>2. CASE T # {}
    <3>1. IsFiniteSet(T)
      BY FS_Subset
    <3> PICK c \in T : SumFunctionOnSet(f, T) = f[c] + SumFunctionOnSet(f, T \ {c})
      BY <3>1, <2>2, SumFirst
    <3> QED
      BY <1>1
  <2> QED
    BY <2>1, <2>2
<1> HIDE DEF Good
<1>2. \A T \in SUBSET S : T \in Good
  BY <1>1, ShrinkInduct
<1> QED
  BY <1>2 DEF Good

\* Any element can be taken first.
LEMMA SumRemove ==
    ASSUME NEW f, NEW S, IsFiniteSet(S), IntOn(f, S), NEW y \in S
    PROVE  SumFunctionOnSet(f, S) = f[y] + SumFunctionOnSet(f, S \ {y})
<1> USE DEF IntOn, NatOn, Agree
<1> DEFINE Good == {T \in SUBSET S : \A x \in T :
                      SumFunctionOnSet(f, T) = f[x] + SumFunctionOnSet(f, T \ {x})}
<1>1. ASSUME NEW T \in SUBSET S, \A x \in T : T \ {x} \in Good
      PROVE  T \in Good
  <2> SUFFICES ASSUME NEW x \in T
               PROVE  SumFunctionOnSet(f, T) = f[x] + SumFunctionOnSet(f, T \ {x})
    OBVIOUS
  <2>1. IsFiniteSet(T)
    BY FS_Subset
  <2> PICK c \in T : SumFunctionOnSet(f, T) = f[c] + SumFunctionOnSet(f, T \ {c})
    BY <2>1, SumFirst
  <2>2. CASE c = x
    BY <2>2
  <2>3. CASE c # x
    <3>1. SumFunctionOnSet(f, T \ {c}) = f[x] + SumFunctionOnSet(f, (T \ {c}) \ {x})
      BY <1>1, <2>3
    <3>2. SumFunctionOnSet(f, T \ {x}) = f[c] + SumFunctionOnSet(f, (T \ {x}) \ {c})
      BY <1>1, <2>3
    <3>3. (T \ {c}) \ {x} = (T \ {x}) \ {c}
      OBVIOUS
    <3> PICK rest : rest = SumFunctionOnSet(f, (T \ {x}) \ {c})
      OBVIOUS
    <3>4. rest \in Int /\ f[c] \in Int /\ f[x] \in Int
      <4>1. IsFiniteSet((T \ {x}) \ {c}) /\ \A u \in (T \ {x}) \ {c} : f[u] \in Int
        BY FS_Subset
      <4> QED
        BY <4>1, SumInt
    <3>5. f[c] + (f[x] + rest) = f[x] + (f[c] + rest)
      BY <3>4
    <3> QED
      BY <3>1, <3>2, <3>3, <3>5, Zenon
  <2> QED
    BY <2>2, <2>3
<1> HIDE DEF Good
<1>2. \A T \in SUBSET S : T \in Good
  BY <1>1, ShrinkInduct
<1> QED
  BY <1>2 DEF Good

\* One more element.
LEMMA SumAdd ==
    ASSUME NEW f, NEW S, IsFiniteSet(S), NEW y, y \notin S,
           IntOn(f, S \cup {y})
    PROVE  SumFunctionOnSet(f, S \cup {y}) = f[y] + SumFunctionOnSet(f, S)
<1> USE DEF IntOn, NatOn, Agree
<1>1. IsFiniteSet(S \cup {y})
  BY FS_AddElement
<1>2. (S \cup {y}) \ {y} = S
  OBVIOUS
<1>3. y \in S \cup {y}
  OBVIOUS
<1>4. SumFunctionOnSet(f, S \cup {y}) = f[y] + SumFunctionOnSet(f, (S \cup {y}) \ {y})
  BY <1>1, <1>3, SumRemove
<1> QED
  BY <1>2, <1>4

\* A sum depends on the values only, and grows with them.
LEMMA SumSame ==
    ASSUME NEW f, NEW g, NEW S, IsFiniteSet(S), Agree(f, g, S)
    PROVE  SumFunctionOnSet(f, S) = SumFunctionOnSet(g, S)
<1> USE DEF IntOn, NatOn, Agree
<1> DEFINE Good == {T \in SUBSET S : SumFunctionOnSet(f, T) = SumFunctionOnSet(g, T)}
<1>1. ASSUME NEW T \in SUBSET S, \A x \in T : T \ {x} \in Good
      PROVE  T \in Good
  <2>1. CASE T = {}
    BY <2>1, SumEmpty
  <2>2. CASE T # {}
    <3>1. IsFiniteSet(T)
      BY FS_Subset
    <3> PICK c \in T : c = CHOOSE x \in T : TRUE
      BY <2>2
    <3>2. /\ \E k : IsSum(f, T, k)
          /\ \E k : IsSum(f, T \ {c}, k)
          /\ \E k : IsSum(g, T, k)
          /\ \E k : IsSum(g, T \ {c}, k)
      BY <3>1, SumsExist
    <3>3. SumFunctionOnSet(f, T) = f[c] + SumFunctionOnSet(f, T \ {c})
      BY <3>1, <3>2, <2>2, SumOnce
    <3>4. SumFunctionOnSet(g, T) = g[c] + SumFunctionOnSet(g, T \ {c})
      BY <3>1, <3>2, <2>2, SumOnce
    <3>5. SumFunctionOnSet(f, T \ {c}) = SumFunctionOnSet(g, T \ {c}) /\ f[c] = g[c]
      BY <1>1
    <3> QED
      BY <3>3, <3>4, <3>5
  <2> QED
    BY <2>1, <2>2
<1> HIDE DEF Good
<1>2. \A T \in SUBSET S : T \in Good
  BY <1>1, ShrinkInduct
<1> QED
  BY <1>2 DEF Good

LEMMA SumMonotone ==
    ASSUME NEW f, NEW g, NEW S, IsFiniteSet(S),
           IntOn(f, S), IntOn(g, S), \A x \in S : f[x] <= g[x]
    PROVE  SumFunctionOnSet(f, S) <= SumFunctionOnSet(g, S)
<1> USE DEF IntOn, NatOn, Agree
<1> DEFINE Good == {T \in SUBSET S : SumFunctionOnSet(f, T) <= SumFunctionOnSet(g, T)}
<1>1. ASSUME NEW T \in SUBSET S, \A x \in T : T \ {x} \in Good
      PROVE  T \in Good
  <2>1. CASE T = {}
    BY <2>1, SumEmpty
  <2>2. CASE T # {}
    <3>1. IsFiniteSet(T)
      BY FS_Subset
    <3> PICK c \in T : TRUE
      BY <2>2
    <3>2. SumFunctionOnSet(f, T) = f[c] + SumFunctionOnSet(f, T \ {c})
      BY <3>1, SumRemove
    <3>3. SumFunctionOnSet(g, T) = g[c] + SumFunctionOnSet(g, T \ {c})
      BY <3>1, SumRemove
    <3>4. SumFunctionOnSet(f, T \ {c}) <= SumFunctionOnSet(g, T \ {c})
      BY <1>1
    <3>5. SumFunctionOnSet(f, T \ {c}) \in Int /\ SumFunctionOnSet(g, T \ {c}) \in Int
      <4>1. IsFiniteSet(T \ {c}) /\ \A u \in T \ {c} : f[u] \in Int /\ g[u] \in Int
        BY FS_Subset
      <4> QED
        BY <4>1, SumInt
    <3> QED
      BY <3>2, <3>3, <3>4, <3>5
  <2> QED
    BY <2>1, <2>2
<1> HIDE DEF Good
<1>2. \A T \in SUBSET S : T \in Good
  BY <1>1, ShrinkInduct
<1> QED
  BY <1>2 DEF Good

\* A sum of sums is the sum of both.
LEMMA SumPlus ==
    ASSUME NEW f, NEW g, NEW h, NEW S, IsFiniteSet(S),
           IntOn(f, S), IntOn(g, S), \A x \in S : h[x] = f[x] + g[x]
    PROVE  SumFunctionOnSet(h, S) = SumFunctionOnSet(f, S) + SumFunctionOnSet(g, S)
<1> USE DEF IntOn, NatOn, Agree
<1> DEFINE Good == {T \in SUBSET S : SumFunctionOnSet(h, T) =
                        SumFunctionOnSet(f, T) + SumFunctionOnSet(g, T)}
<1>1. ASSUME NEW T \in SUBSET S, \A x \in T : T \ {x} \in Good
      PROVE  T \in Good
  <2>1. CASE T = {}
    BY <2>1, SumEmpty
  <2>2. CASE T # {}
    <3>1. IsFiniteSet(T)
      BY FS_Subset
    <3>0. \A u \in T : f[u] \in Int /\ g[u] \in Int /\ h[u] \in Int
      OBVIOUS
    <3> PICK c \in T : TRUE
      BY <2>2
    <3>2. SumFunctionOnSet(f, T) = f[c] + SumFunctionOnSet(f, T \ {c})
      BY <3>0, <3>1, SumRemove
    <3>3. SumFunctionOnSet(g, T) = g[c] + SumFunctionOnSet(g, T \ {c})
      BY <3>0, <3>1, SumRemove
    <3>4. SumFunctionOnSet(h, T) = h[c] + SumFunctionOnSet(h, T \ {c})
      BY <3>0, <3>1, SumRemove
    <3>5. SumFunctionOnSet(f, T \ {c}) \in Int /\ SumFunctionOnSet(g, T \ {c}) \in Int
      <4>1. IsFiniteSet(T \ {c}) /\ \A u \in T \ {c} : f[u] \in Int /\ g[u] \in Int
        BY FS_Subset
      <4> QED
        BY <4>1, SumInt
    <3>6. SumFunctionOnSet(h, T \ {c}) =
              SumFunctionOnSet(f, T \ {c}) + SumFunctionOnSet(g, T \ {c})
      BY <1>1
    <3> QED
      BY <3>2, <3>3, <3>4, <3>5, <3>6
  <2> QED
    BY <2>1, <2>2
<1> HIDE DEF Good
<1>2. \A T \in SUBSET S : T \in Good
  BY <1>1, ShrinkInduct
<1> QED
  BY <1>2 DEF Good

\* Two sums over different elements.
LEMMA SumUnion ==
    ASSUME NEW f, NEW S, NEW R, IsFiniteSet(S), IsFiniteSet(R), S \cap R = {},
           IntOn(f, S \cup R)
    PROVE  SumFunctionOnSet(f, S \cup R) = SumFunctionOnSet(f, S) + SumFunctionOnSet(f, R)
<1> USE DEF IntOn, NatOn, Agree
<1> DEFINE Good == {T \in SUBSET R : SumFunctionOnSet(f, S \cup T) =
                        SumFunctionOnSet(f, S) + SumFunctionOnSet(f, T)}
<1>0. SumFunctionOnSet(f, S) \in Int
  BY SumInt
<1>1. ASSUME NEW T \in SUBSET R, \A x \in T : T \ {x} \in Good
      PROVE  T \in Good
  <2>1. CASE T = {}
    <3>1. S \cup T = S
      BY <2>1
    <3> QED
      BY <2>1, <3>1, <1>0, SumEmpty
  <2>2. CASE T # {}
    <3>1. IsFiniteSet(T) /\ IsFiniteSet(S \cup T)
      BY FS_Subset, FS_Union
    <3> PICK c \in T : TRUE
      BY <2>2
    <3>2. SumFunctionOnSet(f, T) = f[c] + SumFunctionOnSet(f, T \ {c})
      BY <3>1, SumRemove
    <3>3. SumFunctionOnSet(f, S \cup T) = f[c] + SumFunctionOnSet(f, (S \cup T) \ {c})
      BY <3>1, SumRemove
    <3>4. (S \cup T) \ {c} = S \cup (T \ {c})
      OBVIOUS
    <3>5. SumFunctionOnSet(f, S \cup (T \ {c})) =
              SumFunctionOnSet(f, S) + SumFunctionOnSet(f, T \ {c})
      BY <1>1
    <3>6. SumFunctionOnSet(f, T \ {c}) \in Int /\ f[c] \in Int
      <4>1. IsFiniteSet(T \ {c}) /\ \A u \in T \ {c} : f[u] \in Int
        BY FS_Subset
      <4> QED
        BY <4>1, SumInt
    <3> PICK a \in Int, b \in Int, e \in Int :
             a = SumFunctionOnSet(f, S) /\ b = SumFunctionOnSet(f, T \ {c}) /\ e = f[c]
      BY <1>0, <3>6
    <3>7. e + (a + b) = a + (e + b)
      OBVIOUS
    <3>8. SumFunctionOnSet(f, S \cup T) = e + (a + b)
      BY <3>3, <3>4, <3>5, Zenon
    <3> QED
      BY <3>2, <3>7, <3>8, Zenon
  <2> QED
    BY <2>1, <2>2
<1> HIDE DEF Good
<1>2. \A T \in SUBSET R : T \in Good
  BY <1>1, ShrinkInduct
<1> QED
  BY <1>2 DEF Good

\* One value changes.
LEMMA SumChange ==
    ASSUME NEW f, NEW g, NEW S, IsFiniteSet(S), NEW y \in S,
           IntOn(f, S), IntOn(g, S), Agree(f, g, S \ {y})
    PROVE  SumFunctionOnSet(g, S) = SumFunctionOnSet(f, S) + (g[y] - f[y])
<1> USE DEF IntOn, NatOn, Agree
<1>1. IsFiniteSet(S \ {y})
  BY FS_Subset
<1>2. SumFunctionOnSet(f, S) = f[y] + SumFunctionOnSet(f, S \ {y})
  BY SumRemove
<1>3. SumFunctionOnSet(g, S) = g[y] + SumFunctionOnSet(g, S \ {y})
  BY SumRemove
<1>4. SumFunctionOnSet(f, S \ {y}) = SumFunctionOnSet(g, S \ {y})
  BY <1>1, SumSame
<1>5. SumFunctionOnSet(f, S \ {y}) \in Int
  BY <1>1, SumInt
<1> QED
  BY <1>2, <1>3, <1>4, <1>5

\* A common factor.
LEMMA SumScale ==
    ASSUME NEW f, NEW g, NEW S, IsFiniteSet(S), NEW c \in Int,
           IntOn(f, S), \A x \in S : g[x] = c * f[x]
    PROVE  SumFunctionOnSet(g, S) = c * SumFunctionOnSet(f, S)
<1> USE DEF IntOn, NatOn, Agree
<1> DEFINE Good == {T \in SUBSET S : SumFunctionOnSet(g, T) = c * SumFunctionOnSet(f, T)}
<1>1. ASSUME NEW T \in SUBSET S, \A x \in T : T \ {x} \in Good
      PROVE  T \in Good
  <2>1. CASE T = {}
    BY <2>1, SumEmpty
  <2>2. CASE T # {}
    <3>1. IsFiniteSet(T)
      BY FS_Subset
    <3>0. \A u \in T : f[u] \in Int /\ g[u] \in Int
      OBVIOUS
    <3> PICK y \in T : TRUE
      BY <2>2
    <3>2. SumFunctionOnSet(f, T) = f[y] + SumFunctionOnSet(f, T \ {y})
      BY <3>0, <3>1, SumRemove
    <3>3. SumFunctionOnSet(g, T) = g[y] + SumFunctionOnSet(g, T \ {y})
      BY <3>0, <3>1, SumRemove
    <3>4. SumFunctionOnSet(g, T \ {y}) = c * SumFunctionOnSet(f, T \ {y})
      BY <1>1
    <3>5. SumFunctionOnSet(f, T \ {y}) \in Int
      <4>1. IsFiniteSet(T \ {y}) /\ \A u \in T \ {y} : f[u] \in Int
        BY FS_Subset
      <4> QED
        BY <4>1, SumInt
    <3> PICK p \in Int, q \in Int : p = f[y] /\ q = SumFunctionOnSet(f, T \ {y})
      BY <3>5
    <3>6. c * (p + q) = c * p + c * q
      OBVIOUS
    <3>7. g[y] = c * p
      OBVIOUS
    <3> QED
      BY <3>2, <3>3, <3>4, <3>6, <3>7
  <2> QED
    BY <2>1, <2>2
<1> HIDE DEF Good
<1>2. \A T \in SUBSET S : T \in Good
  BY <1>1, ShrinkInduct
<1> QED
  BY <1>2 DEF Good

\* A sum of zeros is zero.
LEMMA SumOfZeros ==
    ASSUME NEW f, NEW S, IsFiniteSet(S), \A x \in S : f[x] = 0
    PROVE  SumFunctionOnSet(f, S) = 0
<1> DEFINE Good == {T \in SUBSET S : SumFunctionOnSet(f, T) = 0}
<1>1. ASSUME NEW T \in SUBSET S, \A x \in T : T \ {x} \in Good
      PROVE  T \in Good
  <2>1. CASE T = {}
    BY <2>1, SumEmpty
  <2>2. CASE T # {}
    <3>1. IsFiniteSet(T)
      BY FS_Subset
    <3> PICK c \in T : SumFunctionOnSet(f, T) = f[c] + SumFunctionOnSet(f, T \ {c})
      BY <3>1, <2>2, SumFirst
    <3> QED
      BY <1>1
  <2> QED
    BY <2>1, <2>2
<1> HIDE DEF Good
<1>2. \A T \in SUBSET S : T \in Good
  BY <1>1, ShrinkInduct
<1> QED
  BY <1>2 DEF Good

\* A sum of ones counts.
LEMMA SumOfOnes ==
    ASSUME NEW f, NEW S, IsFiniteSet(S), \A x \in S : f[x] = 1
    PROVE  SumFunctionOnSet(f, S) = Cardinality(S)
<1> DEFINE Good == {T \in SUBSET S : SumFunctionOnSet(f, T) = Cardinality(T)}
<1>1. ASSUME NEW T \in SUBSET S, \A x \in T : T \ {x} \in Good
      PROVE  T \in Good
  <2>1. CASE T = {}
    BY <2>1, SumEmpty, FS_EmptySet
  <2>2. CASE T # {}
    <3>1. IsFiniteSet(T)
      BY FS_Subset
    <3> PICK c \in T : SumFunctionOnSet(f, T) = f[c] + SumFunctionOnSet(f, T \ {c})
      BY <3>1, <2>2, SumFirst
    <3>2. Cardinality(T \ {c}) = Cardinality(T) - 1
      BY <3>1, FS_RemoveElement
    <3>3. Cardinality(T) \in Nat
      BY <3>1, FS_CardinalityType
    <3> QED
      BY <1>1, <3>2, <3>3
  <2> QED
    BY <2>1, <2>2
<1> HIDE DEF Good
<1>2. \A T \in SUBSET S : T \in Good
  BY <1>1, ShrinkInduct
<1> QED
  BY <1>2 DEF Good

\* A sum of one and the same number.
LEMMA SumOfConstant ==
    ASSUME NEW f, NEW S, IsFiniteSet(S), NEW c \in Int, \A x \in S : f[x] = c
    PROVE  SumFunctionOnSet(f, S) = c * Cardinality(S)
<1> DEFINE one == [x \in S |-> 1]
<1>1. IntOn(one, S) /\ \A x \in S : one[x] = 1 /\ f[x] = c * one[x]
  BY DEF IntOn
<1> HIDE DEF one
<1>2. SumFunctionOnSet(one, S) = Cardinality(S)
  BY <1>1, SumOfOnes
<1>3. SumFunctionOnSet(f, S) = c * SumFunctionOnSet(one, S)
  BY <1>1, SumScale
<1> QED
  BY <1>2, <1>3

\* The image of a finite set is one.
LEMMA ImageIsFinite ==
    ASSUME NEW S, IsFiniteSet(S), NEW g
    PROVE  IsFiniteSet({g[x] : x \in S})
<1> DEFINE Good == {T \in SUBSET S : IsFiniteSet({g[x] : x \in T})}
<1>1. ASSUME NEW T \in SUBSET S, \A x \in T : T \ {x} \in Good
      PROVE  T \in Good
  <2>1. CASE T = {}
    <3>1. {g[x] : x \in T} = {}
      BY <2>1
    <3> QED
      BY <3>1, FS_EmptySet
  <2>2. CASE T # {}
    <3> PICK y \in T : TRUE
      BY <2>2
    <3>1. IsFiniteSet({g[x] : x \in T \ {y}})
      BY <1>1
    <3>2. {g[x] : x \in T} = {g[x] : x \in T \ {y}} \cup {g[y]}
      OBVIOUS
    <3>3. IsFiniteSet({g[x] : x \in T \ {y}} \cup {g[y]})
      BY <3>1, FS_AddElement
    <3>4. IsFiniteSet({g[x] : x \in T})
      BY <3>2, <3>3, Zenon
    <3> QED
      BY <3>4
  <2> QED
    BY <2>1, <2>2
<1> HIDE DEF Good
<1>2. \A T \in SUBSET S : T \in Good
  BY <1>1, ShrinkInduct
<1> QED
  BY <1>2 DEF Good

\* h sums f over the groups P of the members of S.
Grouped(f, S, P, group, h) ==
    /\ IsFiniteSet(S) /\ IntOn(f, S) /\ IsFiniteSet(P)
    /\ \A x \in S : group[x] \in P
    /\ \A p \in P : h[p] = SumFunctionOnSet(f, {x \in S : group[x] = p})

\* Groups add up to the whole.
LEMMA SumOfGroups ==
    ASSUME NEW f, NEW S, NEW P, NEW group, NEW h, Grouped(f, S, P, group, h)
    PROVE  SumFunctionOnSet(h, P) = SumFunctionOnSet(f, S)
<1> USE DEF IntOn, NatOn, Agree
<1>g. /\ IsFiniteSet(S) /\ IntOn(f, S) /\ IsFiniteSet(P) /\ \A x \in S : group[x] \in P
      /\ \A p \in P : h[p] = SumFunctionOnSet(f, {x \in S : group[x] = p})
  BY DEF Grouped
<1> USE <1>g
<1> DEFINE In(Q) == {x \in S : group[x] \in Q}
           Good == {Q \in SUBSET P : SumFunctionOnSet(h, Q) = SumFunctionOnSet(f, In(Q))}
<1>0. \A Q : In(Q) \in SUBSET S /\ IsFiniteSet(In(Q)) /\ SumFunctionOnSet(f, In(Q)) \in Int
  <2> SUFFICES ASSUME NEW Q
               PROVE In(Q) \in SUBSET S /\ IsFiniteSet(In(Q)) /\ SumFunctionOnSet(f, In(Q)) \in Int
    OBVIOUS
  <2>1. In(Q) \in SUBSET S
    OBVIOUS
  <2>2. IsFiniteSet(In(Q))
    BY <2>1, FS_Subset
  <2>3. \A x \in In(Q) : f[x] \in Int
    OBVIOUS
  <2> HIDE DEF In
  <2> QED
    BY <2>1, <2>2, <2>3, SumInt
<1>1. ASSUME NEW Q \in SUBSET P, \A p \in Q : Q \ {p} \in Good
      PROVE  Q \in Good
  <2>1. CASE Q = {}
    <3>1. In(Q) = {}
      BY <2>1
    <3> QED
      BY <2>1, <3>1, SumEmpty
  <2>2. CASE Q # {}
    <3>1. IsFiniteSet(Q)
      BY FS_Subset
    <3> PICK c \in Q : SumFunctionOnSet(h, Q) = h[c] + SumFunctionOnSet(h, Q \ {c})
      BY <3>1, <2>2, SumFirst
    <3>2. h[c] = SumFunctionOnSet(f, In({c}))
      <4>1. In({c}) = {x \in S : group[x] = c}
        OBVIOUS
      <4> QED
        BY <4>1
    <3>3. SumFunctionOnSet(h, Q \ {c}) = SumFunctionOnSet(f, In(Q \ {c}))
      BY <1>1
    <3>4. In({c}) \cap In(Q \ {c}) = {} /\ In(Q) = In({c}) \cup In(Q \ {c})
      OBVIOUS
    <3>5. \A x \in In({c}) \cup In(Q \ {c}) : f[x] \in Int
      OBVIOUS
    <3> HIDE DEF In
    <3>6. SumFunctionOnSet(f, In(Q)) = SumFunctionOnSet(f, In({c})) + SumFunctionOnSet(f, In(Q \ {c}))
      <4> PICK A, B : A = In({c}) /\ B = In(Q \ {c})
        OBVIOUS
      <4>1. IsFiniteSet(A) /\ IsFiniteSet(B)
        BY <1>0
      <4>2. A \cap B = {} /\ (\A x \in A \cup B : f[x] \in Int) /\ In(Q) = A \cup B
        BY <3>4, <3>5
      <4>3. SumFunctionOnSet(f, A \cup B) = SumFunctionOnSet(f, A) + SumFunctionOnSet(f, B)
        BY <4>1, <4>2, SumUnion
      <4> QED
        BY <4>2, <4>3, Zenon
    <3> QED
      BY <3>2, <3>3, <3>6
  <2> QED
    BY <2>1, <2>2
<1> HIDE DEF Good
<1>2. \A Q \in SUBSET P : Q \in Good
  BY <1>1, ShrinkInduct
<1>3. In(P) = S
  OBVIOUS
<1> QED
  BY <1>2, <1>3 DEF Good

------------------------------------------------------------------------------
(***************************************************************************)
(* Sums that are arranged otherwise.                                       *)
(***************************************************************************)
LEMMA SumSingle ==
    ASSUME NEW f, NEW y, f[y] \in Int
    PROVE  SumFunctionOnSet(f, {y}) = f[y]
<1>1. IsFiniteSet({}) /\ y \notin {} /\ {} \cup {y} = {y}
  BY FS_EmptySet
<1>2. IntOn(f, {} \cup {y})
  BY DEF IntOn
<1>3. SumFunctionOnSet(f, {} \cup {y}) = f[y] + SumFunctionOnSet(f, {})
  BY <1>1, <1>2, SumAdd
<1>4. SumFunctionOnSet(f, {y}) = f[y] + 0
  BY <1>1, <1>3, SumEmpty, Zenon
<1> QED
  BY <1>4

\* h lists by their names in P the values that f lists over S.
Renamed(f, S, P, name, h) ==
    /\ IsFiniteSet(S) /\ IntOn(f, S) /\ IsFiniteSet(P)
    /\ \A x \in S : name[x] \in P /\ h[name[x]] = f[x]
    /\ \A x, y \in S : name[x] = name[y] => x = y
    /\ \A p \in P : \E x \in S : name[x] = p

\* A sum is of the values, whatever they are called.
LEMMA SumRenamed ==
    ASSUME NEW f, NEW S, NEW P, NEW name, NEW h, Renamed(f, S, P, name, h)
    PROVE  SumFunctionOnSet(h, P) = SumFunctionOnSet(f, S)
<1>1. ASSUME NEW p \in P
      PROVE  h[p] = SumFunctionOnSet(f, {x \in S : name[x] = p})
  <2>1. PICK y \in S : name[y] = p
    BY DEF Renamed
  <2>2. {x \in S : name[x] = p} = {y}
    BY <2>1 DEF Renamed
  <2>3. f[y] \in Int /\ h[p] = f[y]
    BY <2>1 DEF Renamed, IntOn
  <2>4. SumFunctionOnSet(f, {y}) = f[y]
    BY <2>3, SumSingle
  <2> QED
    BY <2>2, <2>3, <2>4
<1>2. Grouped(f, S, P, name, h)
  BY <1>1 DEF Renamed, Grouped
<1> QED
  BY <1>2, SumOfGroups

\* What is zero adds nothing.
LEMMA SumPadded ==
    ASSUME NEW f, NEW S, NEW R, IsFiniteSet(S), R \subseteq S, IntOn(f, R),
           \A x \in S \ R : f[x] = 0
    PROVE  SumFunctionOnSet(f, S) = SumFunctionOnSet(f, R)
<1> PICK Z : Z = S \ R
  OBVIOUS
<1>1. IsFiniteSet(R) /\ IsFiniteSet(Z) /\ R \cap Z = {} /\ R \cup Z = S
  BY FS_Subset
<1>2. IntOn(f, R \cup Z)
  BY DEF IntOn
<1>3. SumFunctionOnSet(f, R \cup Z) = SumFunctionOnSet(f, R) + SumFunctionOnSet(f, Z)
  BY <1>1, <1>2, SumUnion
<1>4. SumFunctionOnSet(f, Z) = 0
  BY <1>1, SumOfZeros
<1>5. SumFunctionOnSet(f, R) \in Int
  BY <1>1, SumInt
<1>6. SumFunctionOnSet(f, S) = SumFunctionOnSet(f, R) + 0
  BY <1>1, <1>3, <1>4, Zenon
<1> QED
  BY <1>5, <1>6

\* rows and columns of the table F over A and B, and the sums of each.
IsTable(A, B, F, G, rows, columns) ==
    /\ IsFiniteSet(A) /\ IsFiniteSet(B)
    /\ \A x \in A, y \in B : F[x][y] \in Int /\ G[y][x] = F[x][y]
    /\ \A x \in A : rows[x] = SumFunctionOnSet(F[x], B)
    /\ \A y \in B : columns[y] = SumFunctionOnSet(G[y], A)

\* A table adds up to the same by rows and by columns.
LEMMA SumOfTable ==
    ASSUME NEW A, NEW B, NEW F, NEW G, NEW rows, NEW columns, IsTable(A, B, F, G, rows, columns)
    PROVE  SumFunctionOnSet(rows, A) = SumFunctionOnSet(columns, B)
<1>0. /\ IsFiniteSet(A) /\ IsFiniteSet(B)
      /\ \A x \in A, y \in B : F[x][y] \in Int /\ G[y][x] = F[x][y]
      /\ \A x \in A : rows[x] = SumFunctionOnSet(F[x], B)
      /\ \A y \in B : columns[y] = SumFunctionOnSet(G[y], A)
  BY DEF IsTable
<1> DEFINE K(T) == [y \in B |-> SumFunctionOnSet(G[y], T)]
           Good == {T \in SUBSET A : SumFunctionOnSet(rows, T) = SumFunctionOnSet(K(T), B)}
<1>1. ASSUME NEW T \in SUBSET A
      PROVE  /\ IsFiniteSet(T) /\ IntOn(K(T), B) /\ \A y \in B : IntOn(G[y], T)
             /\ SumFunctionOnSet(K(T), B) \in Int
  <2>1. IsFiniteSet(T)
    BY <1>0, FS_Subset
  <2>2. \A y \in B : IntOn(G[y], T)
    BY <1>0 DEF IntOn
  <2>3. \A y \in B : SumFunctionOnSet(G[y], T) \in Int
    BY <2>1, <2>2, SumInt
  <2>4. IntOn(K(T), B)
    BY <2>3 DEF IntOn
  <2> HIDE DEF K
  <2>5. SumFunctionOnSet(K(T), B) \in Int
    BY <1>0, <2>4, SumInt
  <2> QED
    BY <2>1, <2>2, <2>4, <2>5
<1>2. ASSUME NEW T \in SUBSET A, \A x \in T : T \ {x} \in Good
      PROVE  T \in Good
  <2>1. CASE T = {}
    <3>1. \A y \in B : K(T)[y] = 0
      BY <2>1, SumEmpty
    <3> HIDE DEF K
    <3>2. SumFunctionOnSet(K(T), B) = 0
      BY <1>0, <3>1, SumOfZeros
    <3> QED
      BY <2>1, <3>2, SumEmpty
  <2>2. CASE T # {}
    <3>c. PICK c \in T : SumFunctionOnSet(rows, T) = rows[c] + SumFunctionOnSet(rows, T \ {c})
      BY <1>1, <2>2, SumFirst
    <3>U. PICK U : U = T \ {c}
      OBVIOUS
    <3>1. U \in SUBSET A /\ U \in Good
      BY <1>2, <3>U
    <3>2. SumFunctionOnSet(rows, U) = SumFunctionOnSet(K(U), B)
      BY <3>1
    <3>3. rows[c] = SumFunctionOnSet(F[c], B)
      BY <1>0
    <3>4. ASSUME NEW y \in B PROVE K(T)[y] = F[c][y] + K(U)[y]
      <4>1. SumFunctionOnSet(G[y], T) = G[y][c] + SumFunctionOnSet(G[y], T \ {c})
        <5>g. PICK g : g = G[y]
          OBVIOUS
        <5>1. IsFiniteSet(T) /\ IntOn(g, T)
          BY <1>1, <5>g
        <5>2. SumFunctionOnSet(g, T) = g[c] + SumFunctionOnSet(g, T \ {c})
          BY <5>1, SumRemove
        <5> QED
          BY <5>2, <5>g
      <4> QED
        BY <1>0, <3>U, <4>1
    <3>5. IntOn(F[c], B)
      BY <1>0 DEF IntOn
    <3>6. IntOn(K(U), B)
      BY <1>1, <3>1
    <3> HIDE DEF K
    <3>7. SumFunctionOnSet(K(T), B) = SumFunctionOnSet(F[c], B) + SumFunctionOnSet(K(U), B)
      BY <1>0, <3>4, <3>5, <3>6, SumPlus
    <3> QED
      BY <3>2, <3>3, <3>7, <3>c, <3>U
  <2> QED
    BY <2>1, <2>2
<1> HIDE DEF Good
<1>a. \A T \in SUBSET A : T \in Good
  BY <1>0, <1>2, ShrinkInduct
<1>3. A \in Good
  BY <1>a
<1>4. SumFunctionOnSet(rows, A) = SumFunctionOnSet(K(A), B)
  BY <1>3 DEF Good
<1>5. Agree(K(A), columns, B)
  BY <1>0 DEF Agree
<1> HIDE DEF K
<1>6. SumFunctionOnSet(K(A), B) = SumFunctionOnSet(columns, B)
  BY <1>0, <1>5, SumSame
<1> QED
  BY <1>4, <1>6

------------------------------------------------------------------------------
(***************************************************************************)
(* Products, whose recursion is that of the sums.                          *)
(***************************************************************************)
\* g multiplies the members of every subset of S, an element chosen at a time.
IsProduct(S, g) ==
    g = [s \in SUBSET S |->
            IF s = {} THEN 1
            ELSE LET x == CHOOSE x \in s : TRUE IN x * g[s \ {x}]]

LEMMA ProductUnfold ==
    ASSUME NEW S
    PROVE  ProductSet(S) = (CHOOSE g : IsProduct(S, g))[S]
BY DEF ProductSet, FoldSet, MapThenFoldSet, IsProduct

LEMMA ProductsStep ==
    ASSUME NEW S, NEW g, IsProduct(S, g), NEW T \in SUBSET S, T # {}
    PROVE  /\ (CHOOSE x \in T : TRUE) \in T
           /\ g[T] = (CHOOSE x \in T : TRUE) * g[T \ {CHOOSE x \in T : TRUE}]
<1>1. (CHOOSE x \in T : TRUE) \in T
  OBVIOUS
<1> DEFINE h == [s \in SUBSET S |->
            IF s = {} THEN 1
            ELSE LET x == CHOOSE x \in s : TRUE IN x * g[s \ {x}]]
<1>2. g = h
  BY DEF IsProduct
<1>3. h[T] = (CHOOSE x \in T : TRUE) * g[T \ {CHOOSE x \in T : TRUE}]
  OBVIOUS
<1> HIDE DEF h
<1> QED
  BY <1>1, <1>2, <1>3

LEMMA ProductsUnique ==
    ASSUME NEW S, IsFiniteSet(S), NEW g, IsProduct(S, g),
           NEW R \in SUBSET S, NEW h, IsProduct(R, h)
    PROVE  \A T \in SUBSET R : g[T] = h[T]
<1> DEFINE Good == {T \in SUBSET R : g[T] = h[T]}
<1>1. IsFiniteSet(R)
  BY FS_Subset
<1>2. ASSUME NEW T \in SUBSET R, \A x \in T : T \ {x} \in Good
      PROVE  T \in Good
  <2>1. CASE T = {}
    <3>1. g[{}] = 1 /\ h[{}] = 1
      BY Zenon DEF IsProduct
    <3> QED
      BY <3>1, <2>1
  <2>2. CASE T # {}
    <3> PICK c \in T : c = CHOOSE x \in T : TRUE
      BY <2>2
    <3>1. g[T] = c * g[T \ {c}]
      BY <2>2, ProductsStep
    <3>2. h[T] = c * h[T \ {c}]
      BY <2>2, ProductsStep
    <3> QED
      BY <1>2, <3>1, <3>2
  <2> QED
    BY <2>1, <2>2
<1> HIDE DEF Good
<1>3. \A T \in SUBSET R : T \in Good
  BY <1>1, <1>2, ShrinkInduct
<1> QED
  BY <1>3 DEF Good

LEMMA ProductOnce ==
    ASSUME NEW S, IsFiniteSet(S), S # {},
           \E g : IsProduct(S, g),
           \E g : IsProduct(S \ {CHOOSE x \in S : TRUE}, g)
    PROVE  LET x == CHOOSE x \in S : TRUE
           IN ProductSet(S) = x * ProductSet(S \ {x})
<1> PICK c \in S : c = CHOOSE x \in S : TRUE
  OBVIOUS
<1> PICK g : g = CHOOSE k : IsProduct(S, k)
  OBVIOUS
<1> PICK h : h = CHOOSE k : IsProduct(S \ {c}, k)
  OBVIOUS
<1>1. IsProduct(S, g)
  BY Zenon
<1>2. IsProduct(S \ {c}, h)
  BY Zenon
<1>3. ProductSet(S) = g[S]
  BY ProductUnfold
<1>4. ProductSet(S \ {c}) = h[S \ {c}]
  BY ProductUnfold
<1>5. g[S] = c * g[S \ {c}]
  BY <1>1, ProductsStep
<1>6. g[S \ {c}] = h[S \ {c}]
  <2>1. S \ {c} \in SUBSET S /\ S \ {c} \in SUBSET (S \ {c})
    OBVIOUS
  <2> QED
    BY <1>1, <1>2, <2>1, ProductsUnique
<1> QED
  BY <1>3, <1>4, <1>5, <1>6

LEMMA ProductOfNone ==
    /\ \E g : IsProduct({}, g)
    /\ ProductSet({}) = 1
<1> DEFINE z == [s \in SUBSET {} |-> 1]
<1>1. IsProduct({}, z)
  BY DEF IsProduct
<1> PICK g : g = CHOOSE k : IsProduct({}, k)
  OBVIOUS
<1>2. IsProduct({}, g)
  BY <1>1, Zenon
<1>3. g[{}] = 1
  BY <1>2 DEF IsProduct
<1> QED
  BY <1>1, <1>3, ProductUnfold

LEMMA ProductsExist ==
    ASSUME NEW S, IsFiniteSet(S)
    PROVE  \A T \in SUBSET S : \E g : IsProduct(T, g)
<1> DEFINE Good == {T \in SUBSET S : \A U \in SUBSET T : \E g : IsProduct(U, g)}
<1>1. ASSUME NEW T \in SUBSET S, \A x \in T : T \ {x} \in Good
      PROVE  T \in Good
  <2>1. \A U \in SUBSET T : U # T => \E g : IsProduct(U, g)
    <3> SUFFICES ASSUME NEW U \in SUBSET T, U # T PROVE \E g : IsProduct(U, g)
      OBVIOUS
    <3> PICK x \in T : x \notin U
      OBVIOUS
    <3>1. T \ {x} \in Good /\ U \in SUBSET (T \ {x})
      BY <1>1
    <3> QED
      BY <3>1
  <2>2. \E g : IsProduct(T, g)
    <3>1. CASE T = {}
      BY <3>1, ProductOfNone
    <3>2. CASE T # {}
      <4> DEFINE V(s) == IF s = T THEN (CHOOSE x \in T : TRUE) * ProductSet(T \ {CHOOSE x \in T : TRUE})
                         ELSE ProductSet(s)
                 G == [s \in SUBSET T |-> V(s)]
      <4>1. ASSUME NEW s \in SUBSET T
            PROVE  V(s) = IF s = {} THEN 1
                          ELSE LET x == CHOOSE x \in s : TRUE IN x * G[s \ {x}]
        <5>1. CASE s = {}
          BY <5>1, <3>2, ProductOfNone
        <5>2. CASE s # {}
          <6> PICK c \in s : c = CHOOSE x \in s : TRUE
            BY <5>2
          <6>1. s \ {c} \in SUBSET T /\ s \ {c} # T
            OBVIOUS
          <6>2. G[s \ {c}] = ProductSet(s \ {c})
            BY <6>1
          <6>3. CASE s = T
            BY <6>2, <6>3, <3>2
          <6>4. CASE s # T
            <7>1. IsFiniteSet(s)
              BY FS_Subset
            <7>2. ProductSet(s) = c * ProductSet(s \ {c})
              <8>1. (\E g : IsProduct(s, g)) /\ (\E g : IsProduct(s \ {c}, g))
                BY <2>1, <6>1, <6>4
              <8> QED
                BY <7>1, <8>1, <5>2, ProductOnce
            <7> QED
              BY <6>2, <6>4, <7>2, <5>2
          <6> QED
            BY <6>3, <6>4
        <5> QED
          BY <5>1, <5>2
      <4>2. \A s \in SUBSET T : G[s] = V(s)
        OBVIOUS
      <4> HIDE DEF V
      <4>3. G = [s \in SUBSET T |->
                   IF s = {} THEN 1
                   ELSE LET x == CHOOSE x \in s : TRUE IN x * G[s \ {x}]]
        BY <4>1
      <4> HIDE DEF G
      <4>4. IsProduct(T, G)
        BY <4>3 DEF IsProduct
      <4> QED
        BY <4>4
    <3> QED
      BY <3>1, <3>2
  <2> QED
    BY <2>1, <2>2
<1> HIDE DEF Good
<1>2. \A T \in SUBSET S : T \in Good
  BY <1>1, ShrinkInduct
<1> QED
  BY <1>2 DEF Good

\* A product of positive numbers is one, and a multiple of each.
LEMMA ProductDivides ==
    ASSUME NEW S, IsFiniteSet(S), S \subseteq Nat \ {0}
    PROVE  /\ ProductSet(S) \in Nat \ {0}
           /\ \A x \in S : \E k \in Nat : ProductSet(S) = x * k
<1> DEFINE Good == {T \in SUBSET S : /\ ProductSet(T) \in Nat \ {0}
                                     /\ \A x \in T : \E k \in Nat : ProductSet(T) = x * k}
<1>1. ASSUME NEW T \in SUBSET S, \A x \in T : T \ {x} \in Good
      PROVE  T \in Good
  <2>1. CASE T = {}
    BY <2>1, ProductOfNone
  <2>2. CASE T # {}
    <3>1. IsFiniteSet(T)
      BY FS_Subset
    <3>c. PICK c \in T : c = CHOOSE x \in T : TRUE
      BY <2>2
    <3>2. (\E g : IsProduct(T, g)) /\ (\E g : IsProduct(T \ {c}, g))
      BY <3>1, ProductsExist
    <3>3. ProductSet(T) = c * ProductSet(T \ {c})
      BY <2>2, <3>1, <3>2, <3>c, ProductOnce
    <3>4. T \ {c} \in Good /\ c \in Nat \ {0}
      BY <1>1
    <3>r. PICK rest \in Nat \ {0} : rest = ProductSet(T \ {c})
      BY <3>4
    <3>5. ProductSet(T) = c * rest
      BY <3>3, <3>r
    <3>6. c * rest \in Nat \ {0}
      BY <3>4
    <3>7. ASSUME NEW x \in T PROVE \E k \in Nat : ProductSet(T) = x * k
      <4>1. CASE x = c
        BY <3>5, <4>1
      <4>2. CASE x # c
        <5>1. PICK k \in Nat : rest = x * k
          BY <3>4, <3>r, <4>2
        <5>2. x \in Nat /\ c \in Nat
          BY <3>4
        <5>3. c * (x * k) = x * (c * k) /\ c * k \in Nat
          BY <5>2
        <5> QED
          BY <3>5, <5>1, <5>3
      <4> QED
        BY <4>1, <4>2
    <3> QED
      BY <3>5, <3>6, <3>7
  <2> QED
    BY <2>1, <2>2
<1> HIDE DEF Good
<1>2. S \in Good
  BY <1>1, ShrinkInduct
<1> QED
  BY <1>2 DEF Good

LEMMA QuotientOfMultiple ==
    ASSUME NEW x \in Nat \ {0}, NEW k \in Nat
    PROVE  (x * k) \div x = k
  OBVIOUS

------------------------------------------------------------------------------
(***************************************************************************)
(* Sorting: the place of a member is the number of those that precede it.  *)
(***************************************************************************)
\* R orders S strictly.
Strict(S, R) ==
    /\ \A x \in S : <<x, x>> \notin R
    /\ \A x, y, z \in S : <<x, y>> \in R /\ <<y, z>> \in R => <<x, z>> \in R
    /\ \A x, y \in S : x # y => <<x, y>> \in R \/ <<y, x>> \in R

\* The members that come before x.
Preceding(S, R, x) == {y \in S : <<y, x>> \in R}

LEMMA RankGrows ==
    ASSUME NEW S, IsFiniteSet(S), NEW R, Strict(S, R), NEW x \in S, NEW y \in S, <<x, y>> \in R
    PROVE  Cardinality(Preceding(S, R, x)) < Cardinality(Preceding(S, R, y))
<1> PICK A, B : A = Preceding(S, R, x) /\ B = Preceding(S, R, y)
  OBVIOUS
<1>1. A \in SUBSET S /\ B \in SUBSET S /\ x \notin A
  BY DEF Preceding, Strict
<1>2. A \cup {x} \in SUBSET B
  BY DEF Preceding, Strict
<1>3. IsFiniteSet(A) /\ IsFiniteSet(B)
  BY <1>1, FS_Subset
<1>4. Cardinality(A \cup {x}) = Cardinality(A) + 1
  BY <1>1, <1>3, FS_AddElement
<1>5. Cardinality(A \cup {x}) <= Cardinality(B)
  BY <1>2, <1>3, FS_Subset
<1>6. Cardinality(A) \in Nat /\ Cardinality(B) \in Nat
  BY <1>3, FS_CardinalityType
<1> QED
  BY <1>4, <1>5, <1>6

\* Every place is somebody's, and nobody has two.
LEMMA RankPlaces ==
    ASSUME NEW S, IsFiniteSet(S), NEW R, Strict(S, R)
    PROVE  /\ \A x \in S : Cardinality(Preceding(S, R, x)) \in 0..(Cardinality(S) - 1)
           /\ \A n \in 0..(Cardinality(S) - 1) : \E x \in S : Cardinality(Preceding(S, R, x)) = n
           /\ \A x, y \in S : Cardinality(Preceding(S, R, x)) = Cardinality(Preceding(S, R, y)) => x = y
<1> PICK N : N = Cardinality(S)
  OBVIOUS
<1>1. N \in Nat
  BY FS_CardinalityType
<1>f. PICK f : f = [x \in S |-> Cardinality(Preceding(S, R, x))]
  OBVIOUS
<1>2. ASSUME NEW x \in S PROVE f[x] \in 0..(N - 1)
  <2> PICK A : A = Preceding(S, R, x)
    OBVIOUS
  <2>1. A \in SUBSET (S \ {x})
    BY DEF Preceding, Strict
  <2>2. IsFiniteSet(S \ {x}) /\ Cardinality(S \ {x}) = N - 1
    BY FS_RemoveElement
  <2>3. IsFiniteSet(A) /\ Cardinality(A) <= N - 1
    BY <2>1, <2>2, FS_Subset
  <2>4. Cardinality(A) \in Nat
    BY <2>3, FS_CardinalityType
  <2>5. f[x] = Cardinality(A)
    BY <1>f
  <2> QED
    BY <1>1, <2>3, <2>4, <2>5
<1>3. ASSUME NEW x \in S, NEW y \in S, f[x] = f[y] PROVE x = y
  <2> SUFFICES ASSUME x # y PROVE FALSE
    OBVIOUS
  <2>1. f[x] = Cardinality(Preceding(S, R, x)) /\ f[y] = Cardinality(Preceding(S, R, y))
    BY <1>f
  <2>2. <<x, y>> \in R \/ <<y, x>> \in R
    BY DEF Strict
  <2>3. f[x] < f[y] \/ f[y] < f[x]
    BY <2>1, <2>2, RankGrows
  <2>4. f[x] \in Int /\ f[y] \in Int
    BY <1>1, <1>2
  <2> QED
    BY <1>3, <2>3, <2>4
<1> PICK T : T = 0..(N - 1)
  OBVIOUS
<1>4. IsFiniteSet(T) /\ Cardinality(T) = N
  BY <1>1, FS_Interval
<1>5. f \in Injection(S, T)
  <2>1. f \in [S -> T] /\ DOMAIN f = S
    BY <1>f, <1>2
  <2> QED
    BY <1>3, <2>1 DEF Injection, IsInjective
<1>6. f \in Surjection(S, T)
  BY <1>4, <1>5, FS_Injection
<1>7. \A n \in T : \E x \in S : f[x] = n
  BY <1>6 DEF Surjection
<1> QED
  BY <1>2, <1>3, <1>7, <1>f

\* L has the members of S in the order R.
ListsRanked(L, S, R) ==
    /\ L \in Seq(S) /\ Len(L) = Cardinality(S) /\ DOMAIN L = 1..Len(L)
    /\ \A n \in DOMAIN L : L[n] \in S /\ Cardinality(Preceding(S, R, L[n])) = n - 1
    /\ \A x \in S : \E n \in DOMAIN L : L[n] = x
    /\ \A m, n \in DOMAIN L : L[m] = L[n] => m = n
    /\ \A m, n \in DOMAIN L : m < n => <<L[m], L[n]>> \in R

\* Who has n - 1 before it is the n-th.
InPlaces(L, S, R) ==
    /\ L = [n \in 1..Cardinality(S) |-> L[n]]
    /\ \A n \in 1..Cardinality(S) :
         L[n] \in S /\ Cardinality(Preceding(S, R, L[n])) = n - 1

LEMMA PlacesSort ==
    ASSUME NEW S, IsFiniteSet(S), NEW R, Strict(S, R), NEW L, InPlaces(L, S, R)
    PROVE  ListsRanked(L, S, R)
<1> PICK N : N = Cardinality(S)
  OBVIOUS
<1>1. N \in Nat
  BY FS_CardinalityType
<1>2. \A n \in 1..N : L[n] \in S /\ Cardinality(Preceding(S, R, L[n])) = n - 1
  BY DEF InPlaces
<1>3. L = [n \in 1..N |-> L[n]]
  BY DEF InPlaces
<1>4. L \in Seq(S) /\ Len(L) = N /\ DOMAIN L = 1..N
  BY <1>1, <1>2, <1>3
<1>5. ASSUME NEW x \in S PROVE \E n \in 1..N : L[n] = x
  <2> PICK n : n = Cardinality(Preceding(S, R, x)) + 1
    OBVIOUS
  <2>1. n \in 1..N /\ n - 1 = Cardinality(Preceding(S, R, x))
    <3>1. Cardinality(Preceding(S, R, x)) \in 0..(N - 1)
      BY RankPlaces
    <3> QED
      BY <1>1, <3>1
  <2>2. L[n] \in S /\ Cardinality(Preceding(S, R, L[n])) = Cardinality(Preceding(S, R, x))
    BY <1>2, <2>1
  <2> QED
    BY <2>1, <2>2, RankPlaces
<1>6. ASSUME NEW m \in 1..N, NEW n \in 1..N, L[m] = L[n] PROVE m = n
  <2>1. m - 1 = n - 1
    BY <1>2, <1>6
  <2> QED
    BY <1>1, <2>1
<1>7. ASSUME NEW m \in 1..N, NEW n \in 1..N, m < n PROVE <<L[m], L[n]>> \in R
  <2>1. L[m] # L[n]
    BY <1>1, <1>6, <1>7
  <2>2. <<L[m], L[n]>> \in R \/ <<L[n], L[m]>> \in R
    BY <1>2, <2>1 DEF Strict
  <2>3. <<L[n], L[m]>> \in R => n - 1 < m - 1
    <3>1. L[m] \in S /\ Cardinality(Preceding(S, R, L[m])) = m - 1
      BY <1>2
    <3>2. L[n] \in S /\ Cardinality(Preceding(S, R, L[n])) = n - 1
      BY <1>2
    <3> QED
      BY <3>1, <3>2, RankGrows
  <2> QED
    BY <1>1, <1>7, <2>2, <2>3
<1> QED
  BY <1>2, <1>4, <1>5, <1>6, <1>7 DEF ListsRanked
================================================================================
