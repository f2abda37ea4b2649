-------------------------------- MODULE Sums --------------------------------
(***************************************************************************)
(* What the proofs of several components need: induction over the numbers   *)
(* up to a bound and over the subsets of a finite set, recursive definitions *)
(* that have a solution, and what SumFunction makes of a map when a key is  *)
(* taken out of it.  The induction theorems of the library take an operator, *)
(* these take a set or a function.                                          *)
(***************************************************************************)
EXTENDS Integers, FiniteSets, Functions, FiniteSetTheorems, WellFoundedInduction, TLAPS

\* The map f without the keys ks.
Less(f, ks) == [x \in DOMAIN f \ ks |-> f[x]]

-----------------------------------------------------------------------------
(* Induction *)

\* A set of numbers that is not empty has a least element.
LEMMA LeastOf ==
    ASSUME NEW T \in SUBSET Nat, T # {}
    PROVE  \E n \in T : \A m \in T : n <= m
<1> DEFINE R == OpToRel(<, Nat)
<1>1. IsWellFoundedOn(R, Nat)
  BY NatLessThanWellFounded
<1>2. \A m, n \in Nat : <<m, n>> \in R <=> m < n
  BY DEF OpToRel
<1> HIDE DEF R
<1>3. PICK n \in T : \A m \in T : ~ (<<m, n>> \in R)
  BY <1>1, WFMin
<1>4. ASSUME NEW m \in T PROVE n <= m
  <2>1. n \in Nat /\ m \in Nat /\ ~(<<m, n>> \in R)
    BY <1>3
  <2>2. ~ (m < n)
    BY <1>2, <2>1
  <2> QED
    BY <2>1, <2>2
<1> QED
  BY <1>4

\* Induction, up to a bound, on the set of the numbers something holds of.
LEMMA Induction ==
    ASSUME NEW N \in Nat, NEW T, 0 \in T, \A n \in 1..N : n - 1 \in T => n \in T
    PROVE  0..N \subseteq T
<1> DEFINE bad == (0..N) \ T
<1>1. SUFFICES ASSUME bad # {} PROVE FALSE
  OBVIOUS
<1>2. PICK n \in bad : \A m \in bad : n <= m
  <2>1. bad \in SUBSET Nat
    OBVIOUS
  <2> HIDE DEF bad
  <2> QED
    BY <1>1, <2>1, LeastOf
<1>3. n \in 1..N /\ n - 1 \notin bad /\ n - 1 \in 0..N
  BY <1>2
<1> QED
  BY <1>2, <1>3

Solves(f, N, first, D) == f = [n \in 0..N |-> IF n = 0 THEN first ELSE D[<<f[n - 1], n>>]]

\* A recursive definition over 0..N has a solution: the value at n is in S[n]
\* if that at 0 is in S[0] and each step D leads from S[n - 1] to S[n].
LEMMA Recursion ==
    ASSUME NEW N \in Nat, NEW S, NEW first \in S[0], NEW D,
           \A n \in 1..N : \A v \in S[n - 1] : D[<<v, n>>] \in S[n]
    PROVE  \E f : Solves(f, N, first, D) /\ \A n \in 0..N : f[n] \in S[n]
<1> DEFINE Upto(k) == {g \in [0..k -> UNION {S[n] : n \in 0..k}] :
                         \A n \in 0..k :
                            /\ g[n] = IF n = 0 THEN first ELSE D[<<g[n - 1], n>>]
                            /\ g[n] \in S[n]}
           T == {k \in 0..N : Upto(k) # {}}
<1>1. 0 \in T
  <2> DEFINE g == [n \in 0..0 |-> first]
  <2>1. \A n \in 0..0 : n = 0 /\ g[n] = first
    OBVIOUS
  <2>2. g \in [0..0 -> UNION {S[n] : n \in 0..0}]
    OBVIOUS
  <2> HIDE DEF g
  <2>3. g \in Upto(0)
    BY <2>1, <2>2
  <2> QED
    BY <2>3
<1>2. ASSUME NEW k \in 1..N, k - 1 \in T PROVE k \in T
  <2>1. PICK g : g \in Upto(k - 1)
    BY <1>2
  <2>2. /\ k - 1 \in 0..(k - 1)
        /\ \A n \in 0..(k - 1) :
             /\ g[n] = IF n = 0 THEN first ELSE D[<<g[n - 1], n>>]
             /\ g[n] \in S[n]
    <3>1. k - 1 \in 0..(k - 1)
      OBVIOUS
    <3> QED
      BY <2>1, <3>1, Zenon
  <2> DEFINE y == D[<<g[k - 1], k>>]
             h == [n \in 0..k |-> IF n = k THEN y ELSE g[n]]
  <2>3. y \in S[k]
    BY <2>2
  <2> HIDE DEF y
  <2>4. ASSUME NEW n \in 0..k
        PROVE  h[n] \in S[n] /\ h[n] = IF n = 0 THEN first ELSE D[<<h[n - 1], n>>]
    <3>1. CASE n = k
      <4>1. h[n] = y /\ h[n - 1] = g[k - 1] /\ n # 0
        BY <3>1
      <4> QED
        BY <2>3, <3>1, <4>1 DEF y
    <3>2. CASE n # k
      <4>1. n \in 0..(k - 1) /\ h[n] = g[n] /\ (n # 0 => h[n - 1] = g[n - 1])
        BY <3>2
      <4> QED
        BY <2>2, <4>1
    <3> QED
      BY <3>1, <3>2
  <2>5. h \in [0..k -> UNION {S[n] : n \in 0..k}]
    <3>1. \A n \in 0..k : h[n] \in UNION {S[m] : m \in 0..k}
      BY <2>4
    <3>2. h = [n \in 0..k |-> h[n]]
      OBVIOUS
    <3> HIDE DEF h
    <3> QED
      BY <3>1, <3>2
  <2> HIDE DEF h
  <2>6. h \in Upto(k)
    BY <2>4, <2>5
  <2> HIDE DEF Upto
  <2> QED
    BY <2>6
<1>3. 0..N \subseteq T
  <2> HIDE DEF T
  <2> QED
    BY <1>1, <1>2, Induction
<1> HIDE DEF Upto
<1>4. PICK f : f \in Upto(N)
  BY <1>3
<1> USE DEF Upto
<1>5. Solves(f, N, first, D)
  BY <1>4 DEF Solves
<1>6. \A n \in 0..N : f[n] \in S[n]
  BY <1>4
<1> QED
  BY <1>5, <1>6

-----------------------------------------------------------------------------
(* Sums of maps of numbers *)

\* What holds of a subset of a finite set as soon as it holds of that subset less
\* any one element holds of all the subsets.
LEMMA FiniteInduction ==
    ASSUME NEW D, IsFiniteSet(D), NEW P,
           \A A \in SUBSET D : (\A x \in A : A \ {x} \in P) => A \in P
    PROVE  \A B \in SUBSET D : B \in P
<1> DEFINE N == Cardinality(D)
           T == {n \in 0..N : \A A \in SUBSET D : Cardinality(A) <= n => A \in P}
<1>1. N \in Nat /\ \A A \in SUBSET D : /\ IsFiniteSet(A) /\ Cardinality(A) \in Nat
                                       /\ Cardinality(A) <= N
  BY FS_CardinalityType, FS_Subset
<1>2. \A A \in SUBSET D : \A x \in A : Cardinality(A \ {x}) = Cardinality(A) - 1
  BY <1>1, FS_RemoveElement
<1> HIDE DEF N
<1>3. 0 \in T
  <2>1. ASSUME NEW A \in SUBSET D, Cardinality(A) <= 0 PROVE A \in P
    <3>1. Cardinality(A) = 0
      BY <1>1, <2>1
    <3>2. A = {}
      BY <1>1, <3>1, FS_EmptySet
    <3> QED
      BY <3>2
  <2> QED
    BY <1>1, <2>1
<1>4. ASSUME NEW n \in 1..N, n - 1 \in T PROVE n \in T
  <2>1. ASSUME NEW A \in SUBSET D, Cardinality(A) <= n PROVE A \in P
    <3>1. ASSUME NEW x \in A PROVE A \ {x} \in P
      <4>1. Cardinality(A \ {x}) = Cardinality(A) - 1 /\ Cardinality(A) \in Nat
        BY <1>1, <1>2
      <4>2. Cardinality(A \ {x}) <= n - 1 /\ A \ {x} \in SUBSET D
        BY <2>1, <4>1
      <4> QED
        BY <1>4, <4>2
    <3> QED
      BY <3>1
  <2> QED
    BY <2>1
<1>5. 0..N \subseteq T
  <2> HIDE DEF T
  <2> QED
    BY <1>1, <1>3, <1>4, Induction
<1>6. ASSUME NEW A \in SUBSET D PROVE A \in P
  <2>1. N \in T
    BY <1>1, <1>5
  <2> QED
    BY <1>1, <2>1
<1> QED
  BY <1>6

\* The values of a map over a finite set are finitely many.
LEMMA FiniteImage ==
    ASSUME NEW D, IsFiniteSet(D), NEW b
    PROVE  IsFiniteSet({b[x] : x \in D}) /\ Cardinality({b[x] : x \in D}) <= Cardinality(D)
<1> DEFINE T == {b[x] : x \in D}
           f == [x \in D |-> b[x]]
<1>1. f \in [D -> T] /\ \A v \in T : \E x \in D : f[x] = v
  OBVIOUS
<1> HIDE DEF T, f
<1>2. f \in Surjection(D, T)
  BY <1>1 DEF Surjection
<1> QED
  BY <1>2, FS_Surjection DEF T

\* The function over the subsets of D in the definition of SumFunction.
Picked(A) == CHOOSE x \in A : TRUE
Adding(f, D, h) ==
    h = [A \in SUBSET D |-> IF A = {} THEN 0 ELSE f[Picked(A)] + h[A \ {Picked(A)}]]

LEMMA SumIs ==
    ASSUME NEW f
    PROVE  SumFunction(f) = (CHOOSE h : Adding(f, DOMAIN f, h))[DOMAIN f]
  BY Zenon DEF SumFunction, SumFunctionOnSet, FoldFunctionOnSet, MapThenFoldSet, Adding, Picked

LEMMA PickedIn ==
    ASSUME NEW A, A # {} PROVE Picked(A) \in A
  BY DEF Picked

\* There is one, built one size of subset after the other.
LEMMA Adder ==
    ASSUME NEW D, IsFiniteSet(D), NEW f \in [D -> Nat]
    PROVE  \E h \in [SUBSET D -> Nat] : Adding(f, D, h)
<1> DEFINE N == Cardinality(D)
           Upto(n) == {A \in SUBSET D : Cardinality(A) <= n}
           T == {n \in 0..N : \E h \in [Upto(n) -> Nat] : \A A \in Upto(n) :
                   h[A] = IF A = {} THEN 0 ELSE f[Picked(A)] + h[A \ {Picked(A)}]}
<1>1. N \in Nat /\ \A A \in SUBSET D : /\ IsFiniteSet(A) /\ Cardinality(A) \in Nat
                                       /\ Cardinality(A) <= N
  BY FS_CardinalityType, FS_Subset
<1>2. ASSUME NEW A \in SUBSET D, A # {}
      PROVE  /\ Picked(A) \in A /\ A \ {Picked(A)} \in SUBSET D
             /\ Cardinality(A \ {Picked(A)}) = Cardinality(A) - 1 /\ f[Picked(A)] \in Nat
  BY <1>1, <1>2, PickedIn, FS_RemoveElement
<1> HIDE DEF N
<1>3. 0 \in T
  <2> DEFINE h == [A \in Upto(0) |-> 0]
  <2>1. ASSUME NEW A \in Upto(0) PROVE A = {}
    <3>1. Cardinality(A) = 0 /\ IsFiniteSet(A)
      BY <1>1
    <3> QED
      BY <3>1, FS_EmptySet
  <2>2. h \in [Upto(0) -> Nat] /\ \A A \in Upto(0) : A = {} /\ h[A] = 0
    BY <2>1
  <2> HIDE DEF h, Upto
  <2> QED
    BY <1>1, <2>2
<1>4. ASSUME NEW n \in 1..N, n - 1 \in T PROVE n \in T
  <2>1. PICK h \in [Upto(n - 1) -> Nat] : \A A \in Upto(n - 1) :
               h[A] = IF A = {} THEN 0 ELSE f[Picked(A)] + h[A \ {Picked(A)}]
    BY <1>4
  <2>2. ASSUME NEW A \in Upto(n), A # {}
        PROVE  A \ {Picked(A)} \in Upto(n - 1) /\ f[Picked(A)] \in Nat
    BY <1>1, <1>2, <2>2
  <2> DEFINE g == [A \in Upto(n) |->
                     IF A = {} THEN 0 ELSE f[Picked(A)] + h[A \ {Picked(A)}]]
  <2>3. ASSUME NEW A \in Upto(n) PROVE g[A] \in Nat
    <3>1. CASE A = {}
      BY <3>1
    <3>2. CASE A # {}
      <4>1. h[A \ {Picked(A)}] \in Nat /\ f[Picked(A)] \in Nat
        BY <2>1, <2>2, <3>2
      <4>2. g[A] = f[Picked(A)] + h[A \ {Picked(A)}]
        BY <3>2
      <4> HIDE DEF g
      <4> QED
        BY <4>1, <4>2
    <3> QED
      BY <3>1, <3>2
  <2>4. g \in [Upto(n) -> Nat]
    BY <2>3
  <2>5. ASSUME NEW A \in Upto(n - 1) PROVE A \in Upto(n) /\ g[A] = h[A]
    <3>1. A \in Upto(n)
      BY <1>1
    <3> QED
      BY <2>1, <3>1
  <2>6. ASSUME NEW A \in Upto(n)
        PROVE  g[A] = IF A = {} THEN 0 ELSE f[Picked(A)] + g[A \ {Picked(A)}]
    <3>1. CASE A = {}
      BY <3>1
    <3>2. CASE A # {}
      <4>1. g[A \ {Picked(A)}] = h[A \ {Picked(A)}]
        BY <2>2, <2>5, <3>2
      <4> QED
        BY <3>2, <4>1
    <3> QED
      BY <3>1, <3>2
  <2> HIDE DEF g, Upto
  <2>7. n \in 0..N
    BY <1>1
  <2> QED
    BY <2>4, <2>6, <2>7
<1>5. 0..N \subseteq T
  <2> HIDE DEF T
  <2> QED
    BY <1>1, <1>3, <1>4, Induction
<1>6. PICK h \in [Upto(N) -> Nat] : \A A \in Upto(N) :
             h[A] = IF A = {} THEN 0 ELSE f[Picked(A)] + h[A \ {Picked(A)}]
  <2>1. N \in T
    <3> HIDE DEF T
    <3> QED
      BY <1>1, <1>5
  <2> QED
    BY <2>1
<1>7. Upto(N) = SUBSET D
  BY <1>1
<1> HIDE DEF Upto
<1>8. Adding(f, D, h)
  BY <1>6, <1>7 DEF Adding
<1> QED
  BY <1>6, <1>7, <1>8

\* One element may be taken out first, whichever it is.
LEMMA AddingAny ==
    ASSUME NEW D, IsFiniteSet(D), NEW f \in [D -> Nat],
           NEW h \in [SUBSET D -> Nat], Adding(f, D, h)
    PROVE  \A A \in SUBSET D : \A x \in A : h[A] = f[x] + h[A \ {x}]
<1> DEFINE P == {A \in SUBSET D : \A x \in A : h[A] = f[x] + h[A \ {x}]}
<1>1. ASSUME NEW A \in SUBSET D, \A x \in A : A \ {x} \in P, NEW x \in A
      PROVE  h[A] = f[x] + h[A \ {x}]
  <2> DEFINE y == Picked(A)
  <2>1. y \in A
    BY PickedIn
  <2>2. h[A] = f[y] + h[A \ {y}]
    BY DEF Adding
  <2> HIDE DEF y
  <2>3. CASE x = y
    BY <2>2, <2>3
  <2>4. CASE x # y
    <3>1. A \ {x} \in P /\ A \ {y} \in P /\ y \in A \ {x} /\ x \in A \ {y}
      BY <1>1, <2>1, <2>4
    <3>2. h[A \ {x}] = f[y] + h[(A \ {x}) \ {y}] /\ h[A \ {y}] = f[x] + h[(A \ {y}) \ {x}]
      BY <3>1
    <3>3. (A \ {x}) \ {y} = (A \ {y}) \ {x} /\ (A \ {y}) \ {x} \in SUBSET D
      OBVIOUS
    <3>4. h[(A \ {y}) \ {x}] \in Nat /\ f[x] \in Nat /\ f[y] \in Nat
      BY <2>1, <3>3
    <3> DEFINE rest == h[(A \ {y}) \ {x}]
               a == f[x]
               b == f[y]
    <3>5. h[A \ {x}] = b + rest /\ h[A \ {y}] = a + rest /\ h[A] = b + h[A \ {y}]
      BY <2>2, <3>2, <3>3
    <3>6. rest \in Nat /\ a \in Nat /\ b \in Nat
      BY <3>4
    <3> HIDE DEF rest, a, b
    <3>7. h[A] = b + (a + rest) /\ b + (a + rest) = a + (b + rest)
      BY <3>5, <3>6
    <3>8. h[A] = a + h[A \ {x}]
      BY <3>5, <3>7
    <3> QED
      BY <3>8 DEF a
  <2> QED
    BY <2>3, <2>4
<1>2. \A B \in SUBSET D : B \in P
  <2>1. \A A \in SUBSET D : (\A x \in A : A \ {x} \in P) => A \in P
    BY <1>1
  <2>2. IsFiniteSet(D)
    OBVIOUS
  <2> HIDE DEF P
  <2> QED
    BY <2>1, <2>2, FiniteInduction
<1> QED
  BY <1>2

\* On a smaller set it is the same.
LEMMA AddingLess ==
    ASSUME NEW D, IsFiniteSet(D), NEW f \in [D -> Nat], NEW g, NEW h,
           Adding(f, D, h), NEW E \in SUBSET D, NEW i, Adding(g, E, i),
           \A x \in E : g[x] = f[x]
    PROVE  i[E] = h[E]
<1> DEFINE P == {A \in SUBSET E : i[A] = h[A]}
<1>1. ASSUME NEW A \in SUBSET E, \A x \in A : A \ {x} \in P
      PROVE  i[A] = h[A]
  <2>1. CASE A = {}
    BY <2>1 DEF Adding
  <2>2. CASE A # {}
    <3> DEFINE x == Picked(A)
    <3>1. x \in A /\ A \in SUBSET D
      BY <2>2, PickedIn
    <3>2. h[A] = f[x] + h[A \ {x}] /\ i[A] = g[x] + i[A \ {x}]
      BY <2>2, <3>1 DEF Adding
    <3> HIDE DEF x
    <3>3. i[A \ {x}] = h[A \ {x}] /\ g[x] = f[x]
      BY <1>1, <3>1
    <3> QED
      BY <3>2, <3>3
  <2> QED
    BY <2>1, <2>2
<1>2. \A A \in SUBSET E : A \in P
  <2>1. \A A \in SUBSET E : (\A x \in A : A \ {x} \in P) => A \in P
    BY <1>1
  <2>2. IsFiniteSet(E)
    BY FS_Subset
  <2> HIDE DEF P
  <2> QED
    BY <2>1, <2>2, FiniteInduction
<1> QED
  BY <1>2

\* The sum of a map with no key, and of one with a key taken out.
LEMMA SumNone ==
    ASSUME NEW f, DOMAIN f = {} PROVE SumFunction(f) = 0
<1> DEFINE h == [A \in SUBSET {} |-> 0]
<1>1. Adding(f, {}, h)
  <2>1. \A A \in SUBSET {} : A = {}
    OBVIOUS
  <2> QED
    BY <2>1 DEF Adding
<1> HIDE DEF h
<1>2. Adding(f, {}, CHOOSE i : Adding(f, {}, i))
  BY <1>1
<1> DEFINE i == CHOOSE i : Adding(f, {}, i)
<1> HIDE DEF i
<1>3. Adding(f, {}, i)
  BY <1>2 DEF i
<1>4. i[{}] = 0
  BY <1>3 DEF Adding
<1> QED
  BY <1>4, SumIs DEF i

LEMMA SumLess ==
    ASSUME NEW D, NEW f \in [D -> Nat], IsFiniteSet(D)
    PROVE  /\ SumFunction(f) \in Nat
           /\ \A x \in D : SumFunction(f) = f[x] + SumFunction(Less(f, {x}))
<1> DEFINE h == CHOOSE h : Adding(f, D, h)
<1>0. DOMAIN f = D
  OBVIOUS
<1>1. Adding(f, D, h)
  <2>1. \E i : Adding(f, D, i)
    BY Adder
  <2> QED
    BY <2>1
<1> HIDE DEF h
<1>2. h \in [SUBSET D -> Nat]
  <2>1. PICK i \in [SUBSET D -> Nat] : Adding(f, D, i)
    BY Adder
  <2>2. ASSUME NEW A \in SUBSET D PROVE h[A] \in Nat
    <3> DEFINE P == {B \in SUBSET D : h[B] \in Nat}
    <3>1. ASSUME NEW B \in SUBSET D, \A x \in B : B \ {x} \in P PROVE B \in P
      <4>1. CASE B = {}
        BY <1>1, <4>1 DEF Adding
      <4>2. CASE B # {}
        <5> DEFINE x == Picked(B)
        <5>1. x \in B
          BY <4>2, PickedIn
        <5>2. h[B] = f[x] + h[B \ {x}]
          BY <1>1, <4>2 DEF Adding
        <5> HIDE DEF x
        <5>3. f[x] \in Nat /\ h[B \ {x}] \in Nat
          BY <3>1, <5>1
        <5> QED
          BY <5>2, <5>3
      <4> QED
        BY <4>1, <4>2
    <3>2. \A B \in SUBSET D : B \in P
      <4>1. \A B \in SUBSET D : (\A x \in B : B \ {x} \in P) => B \in P
        BY <3>1
      <4>2. IsFiniteSet(D)
        OBVIOUS
      <4> HIDE DEF P
      <4> QED
        BY <4>1, <4>2, FiniteInduction
    <3> QED
      BY <3>2
  <2>3. h = [B \in SUBSET D |-> h[B]]
    BY <1>1 DEF Adding
  <2> QED
    BY <2>2, <2>3
<1>3. SumFunction(f) = h[D]
  BY <1>0, SumIs DEF h
<1>4. ASSUME NEW x \in D
      PROVE  SumFunction(f) = f[x] + SumFunction(Less(f, {x}))
  <2> DEFINE g == Less(f, {x})
             i == CHOOSE i : Adding(g, D \ {x}, i)
  <2>1. DOMAIN g = D \ {x} /\ g \in [D \ {x} -> Nat] /\ IsFiniteSet(D \ {x})
        /\ \A y \in D \ {x} : g[y] = f[y]
    BY <1>0, FS_RemoveElement DEF Less
  <2> HIDE DEF g
  <2>2. Adding(g, D \ {x}, i)
    <3>1. \E j : Adding(g, D \ {x}, j)
      BY <2>1, Adder
    <3> QED
      BY <3>1
  <2>3. SumFunction(g) = i[D \ {x}]
    BY <2>1, SumIs
  <2> HIDE DEF i
  <2>4. i[D \ {x}] = h[D \ {x}]
    <3>1. D \ {x} \in SUBSET D
      OBVIOUS
    <3> QED
      BY <1>1, <2>1, <2>2, <3>1, AddingLess
  <2>5. h[D] = f[x] + h[D \ {x}]
    <3>1. D \in SUBSET D
      OBVIOUS
    <3> QED
      BY <1>1, <1>2, <3>1, AddingAny
  <2> QED
    BY <1>3, <2>3, <2>4, <2>5 DEF g
<1>5. h[D] \in Nat
  BY <1>2
<1> QED
  BY <1>3, <1>4, <1>5
=============================================================================
