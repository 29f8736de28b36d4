-------------------------------- MODULE Sums --------------------------------
(***************************************************************************)
(* What the models need of the sums of the library, over finite sets of    *)
(* any size.  The sum of the library is a recursive function, so first     *)
(* comes that there is one, and that it does not depend on the order in    *)
(* which the elements are chosen.                                          *)
(*                                                                         *)
(* An induction is a least counterexample.                                 *)
(***************************************************************************)
EXTENDS Integers, FiniteSetsExt, FiniteSetTheorems, WellFoundedInduction, TLAPS

Total(f, S) == MapThenSumSet(LAMBDA x : f[x], S)

(* The recursive function that MapThenSumSet is defined by.                *)
Pick(s) == CHOOSE x \in s : TRUE
AddsUp(g, f, D) ==
  g = [s \in D |-> IF s = {} THEN 0 ELSE f[Pick(s)] + g[s \ {Pick(s)}]]
IsSum(g, f, S) == AddsUp(g, f, SUBSET S)

LEMMA LeastNumber ==
  ASSUME NEW N, N \subseteq Nat, N # {}
  PROVE  \E n \in N : \A m \in N : n <= m
<1>1. PICK n \in N : \A m \in N : ~(<<m, n>> \in OpToRel(<, Nat))
  BY NatLessThanWellFounded, WFMin
<1>2. ASSUME NEW m \in N PROVE n <= m
  <2>1. <<m, n>> \in Nat \X Nat /\ <<m, n>>[1] = m /\ <<m, n>>[2] = n
    OBVIOUS
  <2>2. ~(m < n)
    BY <1>1, <2>1, Zenon DEF OpToRel
  <2> QED BY <2>2
<1> QED BY <1>2

(* A set of finite sets has one that contains no other.                    *)
LEMMA SmallestSet ==
  ASSUME NEW S, IsFiniteSet(S), NEW C, C \subseteq SUBSET S, C # {}
  PROVE  \E T \in C : \A U \in C : U \subseteq T => U = T
<1> DEFINE N == {Cardinality(T) : T \in C}
<1>1. \A T \in C : IsFiniteSet(T) /\ Cardinality(T) \in Nat
  BY FS_Subset, FS_CardinalityType
<1>2. N \subseteq Nat /\ N # {}
  BY <1>1
<1>3. PICK n \in N : \A m \in N : n <= m
  <2> HIDE DEF N
  <2> QED BY <1>2, LeastNumber
<1>4. PICK T \in C : Cardinality(T) = n
  BY <1>3
<1>5. ASSUME NEW U \in C, U \subseteq T PROVE U = T
  <2>1. Cardinality(U) <= Cardinality(T) /\ (Cardinality(T) = Cardinality(U) => T = U)
    BY <1>1, <1>5, FS_Subset
  <2>2. Cardinality(T) <= Cardinality(U)
    BY <1>3, <1>4
  <2> QED BY <2>1, <2>2, <1>1
<1> QED BY <1>5

LEMMA PickIn ==
  ASSUME NEW s, s # {} PROVE Pick(s) \in s
BY DEF Pick

(* There is such a function on the subsets of a finite set, level by level *)
(* of their cardinality.                                                   *)
LEMMA SomethingAddsUp ==
  ASSUME NEW f, NEW S, IsFiniteSet(S)
  PROVE  \E g : AddsUp(g, f, SUBSET S)
<1> DEFINE Level(n) == {s \in SUBSET S : Cardinality(s) <= n}
           Bad == {n \in Nat : ~\E g : AddsUp(g, f, Level(n))}
<1>1. \A s \in SUBSET S : IsFiniteSet(s) /\ Cardinality(s) \in Nat
  BY FS_Subset, FS_CardinalityType
<1>2. Bad = {}
  <2> SUFFICES ASSUME Bad # {} PROVE FALSE
    OBVIOUS
  <2>1. PICK n \in Bad : \A m \in Bad : n <= m
    <3>1. Bad \subseteq Nat
      OBVIOUS
    <3> HIDE DEF Bad
    <3> QED BY <3>1, LeastNumber
  <2>2. CASE n = 0
    <3> DEFINE g == [s \in Level(0) |-> 0]
    <3>1. \A s \in Level(0) : s = {}
      BY <1>1, FS_EmptySet
    <3>2. AddsUp(g, f, Level(0))
      BY <3>1 DEF AddsUp
    <3> QED BY <2>2, <3>2
  <2>3. CASE n # 0
    <3>1. n - 1 \in Nat /\ n - 1 \notin Bad
      <4>1. n \in Nat
        OBVIOUS
      <4> HIDE DEF Bad
      <4>2. n - 1 \in Nat /\ ~(n <= n - 1)
        BY <2>3, <4>1
      <4> QED BY <2>1, <4>2
    <3>2. PICK g : AddsUp(g, f, Level(n - 1))
      BY <3>1
    <3> DEFINE h == [s \in Level(n) |-> IF s = {} THEN 0
                                        ELSE f[Pick(s)] + g[s \ {Pick(s)}]]
    <3>3. ASSUME NEW s \in Level(n), s # {}
          PROVE  /\ s \ {Pick(s)} \in Level(n - 1)
                 /\ s \ {Pick(s)} \in Level(n)
      <4>1. Pick(s) \in s
        BY <3>3, PickIn
      <4>2. Cardinality(s \ {Pick(s)}) = Cardinality(s) - 1
        BY <1>1, <4>1, FS_RemoveElement
      <4> QED BY <4>2, <1>1, <3>1
    <3>4. ASSUME NEW s \in Level(n - 1) PROVE g[s] = h[s]
      <4>1. s \in Level(n)
        BY <1>1, <3>1
      <4>2. g[s] = IF s = {} THEN 0 ELSE f[Pick(s)] + g[s \ {Pick(s)}]
        BY <3>2 DEF AddsUp
      <4> QED BY <4>1, <4>2
    <3>5. \A s \in Level(n) : s # {} => g[s \ {Pick(s)}] = h[s \ {Pick(s)}]
      BY <3>3, <3>4
    <3> HIDE DEF Level
    <3>6. h = [s \in Level(n) |-> IF s = {} THEN 0
                                  ELSE f[Pick(s)] + h[s \ {Pick(s)}]]
      BY <3>5
    <3> HIDE DEF h
    <3>7. AddsUp(h, f, Level(n))
      BY <3>6 DEF AddsUp
    <3> QED BY <3>7
  <2> QED BY <2>2, <2>3
<1>3. Cardinality(S) \in Nat /\ Level(Cardinality(S)) = SUBSET S
  BY <1>1, FS_Subset
<1>4. Cardinality(S) \notin Bad
  BY <1>2
<1> QED BY <1>3, <1>4

LEMMA TotalAddsUp ==
  ASSUME NEW f, NEW S, IsFiniteSet(S)
  PROVE  \E g : IsSum(g, f, S) /\ Total(f, S) = g[S]
<1>1. Total(f, S) = (CHOOSE g : IsSum(g, f, S))[S]
  BY DEF Total, IsSum, AddsUp, Pick, MapThenSumSet, MapThenFoldSet
<1>2. PICK g : IsSum(g, f, S)
  BY SomethingAddsUp DEF IsSum
<1> QED BY <1>1, <1>2, Zenon

-----------------------------------------------------------------------------
Numbers(f, S) == \A x \in S : f[x] \in Int

(* Sums are integers and natural numbers.                                  *)
LEMMA AddsToInt ==
  ASSUME NEW f, NEW S, IsFiniteSet(S), Numbers(f, S),
         NEW g, IsSum(g, f, S)
  PROVE  \A s \in SUBSET S : g[s] \in Int
<1> DEFINE Bad == {s \in SUBSET S : g[s] \notin Int}
<1> SUFFICES ASSUME Bad # {} PROVE FALSE
  OBVIOUS
<1>1. PICK s \in Bad : \A u \in Bad : u \subseteq s => u = s
  <2>1. Bad \subseteq SUBSET S
    OBVIOUS
  <2> HIDE DEF Bad
  <2> QED BY <2>1, SmallestSet
<1>2. g[s] = IF s = {} THEN 0 ELSE f[Pick(s)] + g[s \ {Pick(s)}]
  BY DEF IsSum, AddsUp
<1>3. s # {}
  BY <1>2
<1>4. Pick(s) \in s
  BY <1>3, PickIn
<1>5. g[s \ {Pick(s)}] \in Int
  BY <1>1, <1>4
<1> QED BY <1>2, <1>3, <1>4, <1>5 DEF Numbers

(* Any element may be taken first.                                         *)
LEMMA AnyFirst ==
  ASSUME NEW f, NEW S, IsFiniteSet(S), Numbers(f, S),
         NEW g, IsSum(g, f, S)
  PROVE  \A s \in SUBSET S : \A x \in s : g[s] = f[x] + g[s \ {x}]
<1> DEFINE Bad == {s \in SUBSET S : ~\A x \in s : g[s] = f[x] + g[s \ {x}]}
<1> SUFFICES ASSUME Bad # {} PROVE FALSE
  OBVIOUS
<1>1. PICK s \in Bad : \A u \in Bad : u \subseteq s => u = s
  <2>1. Bad \subseteq SUBSET S
    OBVIOUS
  <2> HIDE DEF Bad
  <2> QED BY <2>1, SmallestSet
<1>2. PICK x \in s : g[s] # f[x] + g[s \ {x}]
  BY <1>1
<1> DEFINE c == Pick(s)
<1>3. g[s] = f[c] + g[s \ {c}]
  BY DEF IsSum, AddsUp
<1>4. c \in s
  BY PickIn
<1> HIDE DEF c
<1>5. x # c
  BY <1>2, <1>3
<1>6. \A u \in SUBSET S : u \subseteq s /\ u # s =>
        \A y \in u : g[u] = f[y] + g[u \ {y}]
  BY <1>1
<1>7. g[s \ {c}] = f[x] + g[(s \ {c}) \ {x}]
  BY <1>4, <1>5, <1>6
<1>8. g[s \ {x}] = f[c] + g[(s \ {x}) \ {c}]
  BY <1>4, <1>5, <1>6
<1>9. (s \ {c}) \ {x} = (s \ {x}) \ {c}
  OBVIOUS
<1>10. /\ f[x] \in Int /\ f[c] \in Int
       /\ g[(s \ {c}) \ {x}] \in Int
  BY <1>4, AddsToInt DEF Numbers
<1>11. PICK k \in Int : k = g[(s \ {c}) \ {x}]
  BY <1>10
<1>12. g[s \ {c}] = f[x] + k /\ g[s \ {x}] = f[c] + k
  BY <1>7, <1>8, <1>9, <1>11
<1>13. g[s] = f[c] + (f[x] + k) /\ f[x] + g[s \ {x}] = f[x] + (f[c] + k)
  BY <1>3, <1>12
<1> QED BY <1>2, <1>10, <1>11, <1>13

Agree(f, e, S) == \A x \in S : f[x] = e[x]

(* Functions that agree on a set have the same sum over it.                *)
LEMMA SameSums ==
  ASSUME NEW f, NEW S, IsFiniteSet(S), NEW g, IsSum(g, f, S),
         NEW e, NEW R, NEW h, IsSum(h, e, R),
         NEW t \in SUBSET S, t \in SUBSET R, Agree(f, e, t)
  PROVE  g[t] = h[t]
<1> DEFINE Bad == {s \in SUBSET t : g[s] # h[s]}
<1> SUFFICES ASSUME Bad # {} PROVE FALSE
  OBVIOUS
<1>1. PICK s \in Bad : \A u \in Bad : u \subseteq s => u = s
  <2>1. Bad \subseteq SUBSET S
    OBVIOUS
  <2> HIDE DEF Bad
  <2> QED BY <2>1, SmallestSet
<1>2. /\ g[s] = IF s = {} THEN 0 ELSE f[Pick(s)] + g[s \ {Pick(s)}]
      /\ h[s] = IF s = {} THEN 0 ELSE e[Pick(s)] + h[s \ {Pick(s)}]
  BY DEF IsSum, AddsUp
<1>3. s # {}
  BY <1>2
<1>4. Pick(s) \in s /\ f[Pick(s)] = e[Pick(s)]
  BY <1>3, PickIn DEF Agree
<1>5. g[s \ {Pick(s)}] = h[s \ {Pick(s)}]
  BY <1>1, <1>4
<1> QED BY <1>2, <1>4, <1>5

-----------------------------------------------------------------------------
(* What the sums of the library are.                                       *)

LEMMA TotalOfNone ==
  ASSUME NEW f PROVE Total(f, {}) = 0
<1>1. PICK g : IsSum(g, f, {}) /\ Total(f, {}) = g[{}]
  BY TotalAddsUp, FS_EmptySet
<1> QED BY <1>1 DEF IsSum, AddsUp

LEMMA TotalWithout ==
  ASSUME NEW f, NEW S, IsFiniteSet(S), Numbers(f, S), NEW x \in S
  PROVE  /\ Total(f, S) \in Int
         /\ Total(f, S \ {x}) \in Int
         /\ Total(f, S) = f[x] + Total(f, S \ {x})
<1>1. PICK g : IsSum(g, f, S) /\ Total(f, S) = g[S]
  BY TotalAddsUp
<1>2. IsFiniteSet(S \ {x})
  BY FS_RemoveElement
<1>3. PICK h : IsSum(h, f, S \ {x}) /\ Total(f, S \ {x}) = h[S \ {x}]
  BY <1>2, TotalAddsUp
<1>4. g[S] = f[x] + g[S \ {x}]
  BY <1>1, AnyFirst
<1>5. g[S \ {x}] = h[S \ {x}]
  <2> DEFINE R == S \ {x}
  <2>1. R \in SUBSET S /\ R \in SUBSET R
    OBVIOUS
  <2>2. IsSum(h, f, R)
    BY <1>3
  <2> HIDE DEF R
  <2>3. Agree(f, f, R)
    BY DEF Agree
  <2>4. g[R] = h[R]
    BY <1>1, <2>1, <2>2, <2>3, SameSums
  <2> QED BY <2>4 DEF R
<1>6. g[S] \in Int /\ g[S \ {x}] \in Int
  BY <1>1, AddsToInt
<1> QED BY <1>1, <1>3, <1>4, <1>5, <1>6

LEMMA TotalSame ==
  ASSUME NEW f, NEW e, NEW S, IsFiniteSet(S), Agree(f, e, S)
  PROVE  Total(f, S) = Total(e, S)
<1>1. PICK g : IsSum(g, f, S) /\ Total(f, S) = g[S]
  BY TotalAddsUp
<1>2. PICK h : IsSum(h, e, S) /\ Total(e, S) = h[S]
  BY TotalAddsUp
<1>4. S \in SUBSET S
  OBVIOUS
<1>5. g[S] = h[S]
  BY <1>1, <1>2, <1>4, SameSums
<1> QED BY <1>1, <1>2, <1>5

LEMMA TotalType ==
  ASSUME NEW f, NEW S, IsFiniteSet(S), \A x \in S : f[x] \in Nat
  PROVE  Total(f, S) \in Nat
<1> DEFINE Bad == {s \in SUBSET S : Total(f, s) \notin Nat}
<1> SUFFICES ASSUME Bad # {} PROVE FALSE
  OBVIOUS
<1>1. PICK s \in Bad : \A u \in Bad : u \subseteq s => u = s
  <2>1. Bad \subseteq SUBSET S
    OBVIOUS
  <2> HIDE DEF Bad
  <2> QED BY <2>1, SmallestSet
<1>2. s # {}
  BY TotalOfNone
<1>3. PICK x \in s : TRUE
  BY <1>2
<1>4. Total(f, s) = f[x] + Total(f, s \ {x})
  <2>1. IsFiniteSet(s) /\ Numbers(f, s)
    BY FS_Subset DEF Numbers
  <2> QED BY <2>1, TotalWithout
<1>5. Total(f, s \ {x}) \in Nat
  BY <1>1, <1>3
<1> QED BY <1>4, <1>5

(* A sum over a set is at most the sums over two that cover what is not    *)
(* zero of it.                                                             *)
LEMMA TotalCovered ==
  ASSUME NEW f, NEW S, IsFiniteSet(S), NEW A, IsFiniteSet(A),
         NEW B, IsFiniteSet(B),
         \A x \in S \union A \union B : f[x] \in Nat,
         \A x \in S : x \in A \union B \/ f[x] = 0
  PROVE  Total(f, S) <= Total(f, A) + Total(f, B)
<1> DEFINE Covers(s, a, b) ==
             a \subseteq A /\ b \subseteq B
               /\ \A x \in s : x \in a \union b \/ f[x] = 0
           Bad == {s \in SUBSET S : \E a \in SUBSET A, b \in SUBSET B :
                     Covers(s, a, b) /\ ~(Total(f, s) <= Total(f, a) + Total(f, b))}
<1> SUFFICES ASSUME S \in Bad PROVE FALSE
  OBVIOUS
<1>1. PICK s \in Bad : \A u \in Bad : u \subseteq s => u = s
  <2>1. Bad \subseteq SUBSET S /\ Bad # {}
    OBVIOUS
  <2> HIDE DEF Bad
  <2> QED BY <2>1, SmallestSet
<1>2. PICK a \in SUBSET A, b \in SUBSET B :
        Covers(s, a, b) /\ ~(Total(f, s) <= Total(f, a) + Total(f, b))
  BY <1>1
<1>3. \A t \in (SUBSET S) \union (SUBSET A) \union (SUBSET B) :
        IsFiniteSet(t) /\ Numbers(f, t) /\ Total(f, t) \in Nat
  <2> TAKE t \in (SUBSET S) \union (SUBSET A) \union (SUBSET B)
  <2>1. IsFiniteSet(t)
    BY FS_Subset
  <2>2. \A x \in t : f[x] \in Nat
    OBVIOUS
  <2> QED BY <2>1, <2>2, TotalType DEF Numbers
<1>4. s # {}
  BY <1>2, <1>3, TotalOfNone
<1>5. PICK x \in s : TRUE
  BY <1>4
<1>6. ASSUME NEW c \in SUBSET A, NEW d \in SUBSET B, Covers(s \ {x}, c, d)
      PROVE  Total(f, s \ {x}) <= Total(f, c) + Total(f, d)
  <2>1. s \ {x} \in SUBSET S /\ s \ {x} \subseteq s /\ s \ {x} # s
    OBVIOUS
  <2>2. s \ {x} \notin Bad
    BY <1>1, <2>1
  <2> QED BY <1>6, <2>1, <2>2
<1>7. Total(f, s) = f[x] + Total(f, s \ {x})
  BY <1>3, TotalWithout
<1>8. /\ f[x] \in Nat /\ Total(f, s \ {x}) \in Nat
      /\ Total(f, a) \in Nat /\ Total(f, b) \in Nat
  BY <1>3
<1>9. CASE f[x] = 0
  BY <1>2, <1>6, <1>7, <1>8, <1>9
<1>10. CASE x \in a
  <2>1. Total(f, a) = f[x] + Total(f, a \ {x}) /\ Total(f, a \ {x}) \in Nat
    BY <1>3, <1>10, TotalWithout
  <2>2. Covers(s \ {x}, a \ {x}, b)
    BY <1>2
  <2>3. Total(f, s \ {x}) <= Total(f, a \ {x}) + Total(f, b)
    BY <1>6, <2>2
  <2> QED BY <1>2, <1>7, <1>8, <2>1, <2>3
<1>11. CASE x \in b
  <2>1. Total(f, b) = f[x] + Total(f, b \ {x}) /\ Total(f, b \ {x}) \in Nat
    BY <1>3, <1>11, TotalWithout
  <2>2. Covers(s \ {x}, a, b \ {x})
    BY <1>2
  <2>3. Total(f, s \ {x}) <= Total(f, a) + Total(f, b \ {x})
    BY <1>6, <2>2
  <2> QED BY <1>2, <1>7, <1>8, <2>1, <2>3
<1> QED BY <1>2, <1>9, <1>10, <1>11

(* One addend changes.                                                     *)
LEMMA TotalChanged ==
  ASSUME NEW f, NEW e, NEW S, IsFiniteSet(S), Numbers(f, S), Numbers(e, S),
         NEW x \in S, Agree(f, e, S \ {x})
  PROVE  Total(e, S) = Total(f, S) - f[x] + e[x]
<1>1. Total(f, S) = f[x] + Total(f, S \ {x}) /\ Total(f, S \ {x}) \in Int
  BY TotalWithout
<1>2. Total(e, S) = e[x] + Total(e, S \ {x}) /\ Total(e, S \ {x}) \in Int
  BY TotalWithout
<1>3. Total(f, S \ {x}) = Total(e, S \ {x})
  BY FS_RemoveElement, TotalSame
<1>4. f[x] \in Int /\ e[x] \in Int
  BY DEF Numbers
<1> QED BY <1>1, <1>2, <1>3, <1>4

(* No addend is more than the sum.                                         *)
LEMMA TotalAtLeast ==
  ASSUME NEW f, NEW S, IsFiniteSet(S), \A x \in S : f[x] \in Nat, NEW x \in S
  PROVE  f[x] <= Total(f, S)
<1>1. IsFiniteSet(S \ {x}) /\ Numbers(f, S)
  BY FS_RemoveElement DEF Numbers
<1>2. Total(f, S) = f[x] + Total(f, S \ {x})
  BY <1>1, TotalWithout
<1>3. Total(f, S \ {x}) \in Nat
  BY <1>1, TotalType
<1> QED BY <1>2, <1>3
=============================================================================
