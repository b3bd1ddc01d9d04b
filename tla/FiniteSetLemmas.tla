-------------------------- MODULE FiniteSetLemmas ---------------------------
(***************************************************************************)
(* What the proofs need of finite sets: least and greatest elements, and   *)
(* sums.  Induction is replaced by a smallest counterexample throughout.   *)
(***************************************************************************)
EXTENDS Integers, Functions, FiniteSetTheorems, TLAPS

\* Nat is closed under products.
LEMMA Product == \A m, n \in Nat : m * n \in Nat
  OBVIOUS

\* Among the subsets of a finite set with some property there is a smallest:
\* what would be shown by induction is shown by a smallest counterexample.
LEMMA SmallestSet ==
  ASSUME NEW S, IsFiniteSet(S), NEW B \in SUBSET (SUBSET S), B # {}
  PROVE  \E T \in B : \A U \in B : U \subseteq T => U = T
<1>1. B \subseteq FiniteSubsetsOf(S)
  BY FS_FiniteSubsetsOfFinite
<1>2. IsWellFoundedOn(StrictSubsetOrdering(S), FiniteSubsetsOf(S))
  BY FS_StrictSubsetOrderingWellFounded
<1>3. PICK T \in B : \A U \in B : ~(<<U, T>> \in StrictSubsetOrdering(S))
  BY <1>1, <1>2, WFMin
<1> QED BY <1>3 DEF StrictSubsetOrdering

\* A set of naturals has a least element: the elements below each one are finitely
\* many, and strict inclusion of finite sets is well founded.
LEMMA LeastExists ==
  ASSUME NEW S \in SUBSET Nat, S # {} PROVE \E x \in S : \A y \in S : x <= y
<1> DEFINE Below(x) == {y \in S : y < x}
           T == {Below(x) : x \in S}
           R == StrictSubsetOrdering(Nat)
<1>0. \A x \in S : x \in Nat
  OBVIOUS
<1>1. \A x \in S : IsFiniteSet(Below(x))
  <2> SUFFICES ASSUME NEW x \in S PROVE IsFiniteSet(Below(x))
    OBVIOUS
  <2>1. \A y \in Below(x) : y <= x
    BY <1>0
  <2>2. Below(x) \in SUBSET Nat
    OBVIOUS
  <2> HIDE DEF Below
  <2> QED BY <1>0, <2>1, <2>2, FS_BoundedSetOfNaturals
<1>2. T \subseteq FiniteSubsetsOf(Nat) /\ T # {}
  BY <1>1 DEF FiniteSubsetsOf
<1>3. \E t \in T : \A u \in T : ~(<<u, t>> \in R)
  <2> HIDE DEF T, R
  <2>1. IsWellFoundedOn(R, FiniteSubsetsOf(Nat))
    BY FS_StrictSubsetOrderingWellFounded DEF R
  <2> QED BY <1>2, <2>1, WFMin
<1>4. PICK x \in S : \A y \in S : ~(<<Below(y), Below(x)>> \in R)
  BY <1>3
<1>5. \A y \in S : y < x => <<Below(y), Below(x)>> \in R
  <2> SUFFICES ASSUME NEW y \in S, y < x PROVE <<Below(y), Below(x)>> \in R
    OBVIOUS
  <2>1. \A z \in Below(y) : z \in Below(x)
    BY <1>0
  <2>2. y \in Below(x) /\ y \notin Below(y)
    BY <1>0
  <2>3. Below(y) \in SUBSET Nat /\ Below(x) \in SUBSET Nat
    OBVIOUS
  <2> HIDE DEF Below
  <2> QED BY <2>1, <2>2, <2>3 DEF StrictSubsetOrdering
<1>6. \A y \in S : ~(y < x)
  BY <1>4, <1>5
<1>7. \A y \in S : x <= y
  BY <1>0, <1>6
<1> QED BY <1>7

\* So has a bounded set of naturals a greatest one.
LEMMA GreatestExists ==
  ASSUME NEW S \in SUBSET Nat, S # {}, NEW b \in Nat, \A x \in S : x <= b
  PROVE  \E m \in S : \A x \in S : x <= m
<1> DEFINE T == {b - x : x \in S}
<1>1. T \in SUBSET Nat /\ T # {}
  <2>1. \A x \in S : x \in Nat /\ b - x \in Nat
    OBVIOUS
  <2> QED BY <2>1
<1>2. PICK t \in T : \A u \in T : t <= u
  <2> HIDE DEF T
  <2> QED BY <1>1, LeastExists
<1>3. PICK m \in S : t = b - m
  OBVIOUS
<1>4. \A x \in S : b - m <= b - x
  BY <1>2, <1>3
<1> QED BY <1>4

-----------------------------------------------------------------------------
(* Sums over finite sets, as the module Functions folds them.              *)

\* g is the sum of f over every subset of S, whichever element is taken out first.
IsSum(f, S, g) ==
  /\ g \in [SUBSET S -> Int]
  /\ g[{}] = 0
  /\ \A s \in SUBSET S : \A x \in s : g[s] = f[x] + g[s \ {x}]

\* One element more.
LEMMA SumGrows ==
  ASSUME NEW S, NEW x, x \notin S, NEW f, \A y \in S \cup {x} : f[y] \in Int,
         NEW g, IsSum(f, S, g)
  PROVE  \E h : IsSum(f, S \cup {x}, h)
<1> DEFINE T == S \cup {x}
           h == [s \in SUBSET T |-> IF x \in s THEN f[x] + g[s \ {x}] ELSE g[s]]
<1>1. \A s \in SUBSET T : s \ {x} \in SUBSET S /\ (x \notin s => s \in SUBSET S)
  OBVIOUS
<1>2. \A s \in SUBSET S : g[s] \in Int
  BY DEF IsSum
<1>3. h \in [SUBSET T -> Int]
  BY <1>1, <1>2
<1>4. h[{}] = 0
  BY DEF IsSum
<1>5. ASSUME NEW s \in SUBSET T, NEW y \in s PROVE h[s] = f[y] + h[s \ {y}]
  <2> DEFINE r == s \ {x}
  <2>1. s \ {y} \in SUBSET T /\ r \in SUBSET S /\ r \ {y} \in SUBSET S /\ f[y] \in Int
    BY <1>1
  <2>2. CASE x \notin s
    <3>1. s \in SUBSET S /\ x \notin s \ {y} /\ h[s] = g[s] /\ h[s \ {y}] = g[s \ {y}]
      BY <1>1, <2>1, <2>2
    <3> QED BY <3>1 DEF IsSum
  <2>3. CASE x \in s /\ y = x
    <3>1. h[s] = f[x] + g[r] /\ h[s \ {y}] = g[r]
      BY <2>1, <2>3
    <3> QED BY <2>3, <3>1
  <2>4. CASE x \in s /\ y # x
    <3>1. (s \ {y}) \ {x} = r \ {y} /\ x \in s \ {y} /\ y \in r
      BY <2>4
    <3>2. h[s] = f[x] + g[r] /\ h[s \ {y}] = f[x] + g[r \ {y}]
      BY <2>1, <2>4, <3>1
    <3>3. g[r] = f[y] + g[r \ {y}]
      BY <2>1, <3>1 DEF IsSum
    <3>4. f[x] \in Int /\ f[y] \in Int /\ g[r \ {y}] \in Int
      BY <1>2, <2>1
    <3> HIDE DEF h, r
    <3> QED BY <3>2, <3>3, <3>4
  <2> QED BY <2>2, <2>3, <2>4
<1> HIDE DEF h
<1> QED BY <1>3, <1>4, <1>5 DEF IsSum

\* Integers can be summed over a finite set.
LEMMA SumExists ==
  ASSUME NEW S, IsFiniteSet(S), NEW f, \A y \in S : f[y] \in Int
  PROVE  \E g : IsSum(f, S, g)
<1> DEFINE B == {T \in SUBSET S : ~ \E g : IsSum(f, T, g)}
<1> SUFFICES ASSUME B # {} PROVE FALSE
  OBVIOUS
<1>1. PICK T \in B : \A U \in B : U \subseteq T => U = T
  <2>1. B \in SUBSET (SUBSET S)
    OBVIOUS
  <2> HIDE DEF B
  <2> QED BY <2>1, SmallestSet
<1>2. T \in SUBSET S /\ ~ \E g : IsSum(f, T, g)
  OBVIOUS
<1>3. CASE T = {}
  <2> DEFINE g == [s \in SUBSET T |-> 0]
  <2>1. IsSum(f, T, g)
    BY <1>3 DEF IsSum
  <2> QED BY <1>2, <2>1
<1>4. CASE T # {}
  <2>1. PICK x \in T : TRUE
    BY <1>4
  <2> DEFINE U == T \ {x}
  <2>2. U \in SUBSET S /\ U \subseteq T /\ U # T /\ x \notin U /\ U \cup {x} = T
    BY <1>2, <2>1
  <2>3. U \notin B
    BY <1>1, <2>2
  <2>4. PICK g : IsSum(f, U, g)
    BY <2>2, <2>3
  <2> HIDE DEF U
  <2>5. \A y \in U \cup {x} : f[y] \in Int
    BY <1>2, <2>2
  <2> QED BY <1>2, <2>2, <2>4, <2>5, SumGrows
<1> QED BY <1>3, <1>4

\* It is what the fold computes, in whatever order it takes the elements.
LEMMA SumIs ==
  ASSUME NEW S, IsFiniteSet(S), NEW f, \A y \in S : f[y] \in Int, NEW g, IsSum(f, S, g)
  PROVE  SumFunctionOnSet(f, S) = g[S]
<1> DEFINE Some(s) == CHOOSE x \in s : TRUE
           Iter(h) == [s \in SUBSET S |-> IF s = {} THEN 0 ELSE f[Some(s)] + h[s \ {Some(s)}]]
<1>1. \A s \in SUBSET S : s # {} => Some(s) \in s
  OBVIOUS
<1>2. g = Iter(g)
  <2>1. \A s \in SUBSET S : g[s] = Iter(g)[s]
    BY <1>1 DEF IsSum
  <2>2. g \in [SUBSET S -> Int]
    BY DEF IsSum
  <2> QED BY <2>1, <2>2
<1>3. ASSUME NEW h, h = Iter(h) PROVE h = g
  <2> DEFINE B == {s \in SUBSET S : h[s] # g[s]}
  <2>1. B = {}
    <3> SUFFICES ASSUME B # {} PROVE FALSE
      OBVIOUS
    <3>1. PICK T \in B : \A U \in B : U \subseteq T => U = T
      <4>1. B \in SUBSET (SUBSET S)
        OBVIOUS
      <4> HIDE DEF B
      <4> QED BY <4>1, SmallestSet
    <3>2. T \in SUBSET S /\ h[T] # g[T]
      OBVIOUS
    <3>3. h[T] = Iter(h)[T] /\ g[T] = Iter(g)[T]
      BY <1>2, <1>3
    <3>4. CASE T = {}
      BY <3>2, <3>3, <3>4
    <3>5. CASE T # {}
      <4> DEFINE U == T \ {Some(T)}
      <4>1. U \in SUBSET S /\ U \subseteq T /\ U # T
        BY <1>1, <3>2, <3>5
      <4>2. h[U] = g[U]
        BY <3>1, <4>1
      <4>3. h[T] = f[Some(T)] + h[U] /\ g[T] = f[Some(T)] + g[U]
        BY <3>2, <3>3, <3>5
      <4> QED BY <3>2, <4>2, <4>3
    <3> QED BY <3>4, <3>5
  <2>2. DOMAIN h = SUBSET S /\ DOMAIN g = SUBSET S
    BY <1>2, <1>3
  <2>3. h = [s \in SUBSET S |-> h[s]] /\ g = [s \in SUBSET S |-> g[s]]
    BY <1>2, <1>3
  <2> QED BY <2>1, <2>3
<1>4. SumFunctionOnSet(f, S) = (CHOOSE h : h = Iter(h))[S]
  BY DEF SumFunctionOnSet, FoldFunctionOnSet, MapThenFoldSet
<1> HIDE DEF Iter
<1>5. (CHOOSE h : h = Iter(h)) = g
  BY <1>2, <1>3
<1> QED BY <1>4, <1>5

\* The sum over no element, and over one element more.
LEMMA SumEmpty == ASSUME NEW f PROVE SumFunctionOnSet(f, {}) = 0
<1>1. IsSum(f, {}, [s \in SUBSET {} |-> 0])
  BY DEF IsSum
<1>2. IsFiniteSet({})
  BY FS_EmptySet
<1> QED BY <1>1, <1>2, SumIs

\* The sum over one element more.
LEMMA SumAdd ==
  ASSUME NEW S, IsFiniteSet(S), NEW x, x \notin S, NEW f, \A y \in S \cup {x} : f[y] \in Int
  PROVE  /\ SumFunctionOnSet(f, S) \in Int
         /\ SumFunctionOnSet(f, S \cup {x}) = SumFunctionOnSet(f, S) + f[x]
<1> DEFINE T == S \cup {x}
<1>1. IsFiniteSet(T)
  BY FS_AddElement
<1>2. PICK g : IsSum(f, T, g)
  BY <1>1, SumExists
<1>3. SumFunctionOnSet(f, T) = g[T]
  BY <1>1, <1>2, SumIs
<1>4. g[T] = f[x] + g[S] /\ g[S] \in Int
  <2>1. T \ {x} = S /\ T \in SUBSET T /\ S \in SUBSET T /\ x \in T
    OBVIOUS
  <2> HIDE DEF T
  <2> QED BY <1>2, <2>1 DEF IsSum
<1>5. IsSum(f, S, [s \in SUBSET S |-> g[s]])
  <2> DEFINE h == [s \in SUBSET S |-> g[s]]
  <2>1. \A s \in SUBSET S : s \in SUBSET T /\ h[s] = g[s]
    OBVIOUS
  <2>2. \A s \in SUBSET S : \A y \in s : s \ {y} \in SUBSET S
    OBVIOUS
  <2>3. h \in [SUBSET S -> Int]
    BY <1>2, <2>1 DEF IsSum
  <2> HIDE DEF h, T
  <2>4. {} \in SUBSET S
    OBVIOUS
  <2> QED BY <1>2, <2>1, <2>2, <2>3, <2>4 DEF IsSum
<1>6. SumFunctionOnSet(f, S) = g[S]
  BY <1>5, SumIs
<1> QED BY <1>3, <1>4, <1>6

\* The sum depends on the values over the set alone.
LEMMA SumSame ==
  ASSUME NEW S, IsFiniteSet(S), NEW f, NEW h, \A y \in S : f[y] \in Int /\ h[y] = f[y]
  PROVE  SumFunctionOnSet(f, S) = SumFunctionOnSet(h, S)
<1>1. PICK g : IsSum(f, S, g)
  BY SumExists
<1>2. IsSum(h, S, g)
  BY <1>1 DEF IsSum
<1> QED BY <1>1, <1>2, SumIs

\* A function with one more argument sums to its new value more.
LEMMA SumFunctionAdd ==
  ASSUME NEW S, IsFiniteSet(S), NEW x, x \notin S, NEW f, DOMAIN f = S,
         NEW h, DOMAIN h = S \cup {x}, h[x] \in Int,
         \A y \in S : f[y] \in Int /\ h[y] = f[y]
  PROVE  SumFunction(f) \in Int /\ SumFunction(h) = SumFunction(f) + h[x]
<1>1. \A y \in S \cup {x} : h[y] \in Int
  OBVIOUS
<1>2. SumFunctionOnSet(f, S) = SumFunctionOnSet(h, S)
  BY SumSame
<1>3. /\ SumFunctionOnSet(h, S) \in Int
      /\ SumFunctionOnSet(h, S \cup {x}) = SumFunctionOnSet(h, S) + h[x]
  BY <1>1, SumAdd
<1> QED BY <1>2, <1>3 DEF SumFunction
=============================================================================
