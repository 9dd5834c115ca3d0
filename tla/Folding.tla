------------------------------ MODULE Folding ------------------------------
(***************************************************************************)
(* Facts about folds over finite sets that the proofs on budgets, clients  *)
(* and routes need: what the recursion of MapThenFoldSet computes, and how *)
(* a sum changes with what is summed.                                      *)
(*                                                                         *)
(* The induction theorems of the library take a predicate as a parameter,  *)
(* which the installed provers cannot instantiate.  Here induction is over *)
(* a set instead: a non-empty set of naturals has a least element (a       *)
(* consequence of the well-foundedness of <), so a non-empty set of        *)
(* counterexamples has a smallest one.                                     *)
(***************************************************************************)
EXTENDS FiniteSetsExt, FiniteSetTheorems, TLAPS

----------------------------------------------------------------------------
(* Induction over sets.                                                    *)

\* A set of naturals has a least element, if it has any.
LEMMA LeastNatural ==
    ASSUME NEW T, T \subseteq Nat, T # {}
    PROVE  \E n \in T : \A m \in T : n <= m
<1> DEFINE R == OpToRel(<, Nat)
<1>1. IsWellFoundedOn(R, Nat)
  BY NatLessThanWellFounded
<1>2. PICK n \in T : \A m \in T : <<m, n>> \notin R
  <2> HIDE DEF R
  <2> QED
    BY <1>1, WFMin
<1>3. \A m \in T : <<m,n>> \notin R => n <= m
  BY DEF OpToRel
<1> QED
  BY <1>2, <1>3

\* A set of finite sets has one that includes no other, if it has any.
LEMMA SmallestSubset ==
    ASSUME NEW S, IsFiniteSet(S), NEW B, B \subseteq SUBSET S, B # {}
    PROVE  \E T \in B : \A U \in B : U \subseteq T => U = T
<1> DEFINE C == {Cardinality(U) : U \in B}
<1>1. \A U \in B : IsFiniteSet(U) /\ Cardinality(U) \in Nat
  BY FS_Subset, FS_CardinalityType
<1>2. C \subseteq Nat /\ C # {}
  BY <1>1
<1>3. PICK n \in C : \A m \in C : n <= m
  <2> HIDE DEF C
  <2> QED
    BY <1>2, LeastNatural
<1>4. PICK T \in B : Cardinality(T) = n
  OBVIOUS
<1>5. ASSUME NEW U \in B, U \subseteq T
      PROVE  U = T
  <2>1. Cardinality(U) <= Cardinality(T) /\ (Cardinality(T) = Cardinality(U) => T = U)
    BY <1>1, <1>5, FS_Subset
  <2>2. n <= Cardinality(U)
    BY <1>3
  <2> QED
    BY <1>1, <1>4, <2>1, <2>2
<1> QED
  BY <1>4, <1>5

----------------------------------------------------------------------------
(* Folds.                                                                  *)

\* g folds h over the subsets of S: it takes the element c names first.
FoldsSubsets(g, S, c, base, h) ==
    \A s \in SUBSET S : g[s] = IF s = {} THEN base ELSE h[s, g[s \ {c[s]}]]

\* c names an element of every non-empty subset of S.
Picks(c, S) == \A s \in SUBSET S : s # {} => c[s] \in s

\* The recursive definition of a fold over a finite set has a solution.
LEMMA FoldExists ==
    ASSUME NEW S, IsFiniteSet(S), NEW c, Picks(c, S),
           NEW V, NEW base \in V, NEW h \in [(SUBSET S) \X V -> V]
    PROVE  \E g \in [SUBSET S -> V] : FoldsSubsets(g, S, c, base, h)
<1> USE DEF Picks
<1> DEFINE Small(n) == {s \in SUBSET S : Cardinality(s) <= n}
           Fold(g, n) == \A s \in Small(n) :
                             g[s] = IF s = {} THEN base ELSE h[s, g[s \ {c[s]}]]
           Good == {n \in Nat : \E g \in [Small(n) -> V] : Fold(g, n)}
<1>1. \A s \in SUBSET S : IsFiniteSet(s) /\ Cardinality(s) \in Nat
  BY FS_Subset, FS_CardinalityType
<1>2. \A s \in SUBSET S : s # {} =>
          /\ s \ {c[s]} \in SUBSET S
          /\ Cardinality(s \ {c[s]}) = Cardinality(s) - 1
  BY <1>1, FS_RemoveElement
<1>3. 0 \in Good
  <2>1. \A s \in Small(0) : s = {}
    BY <1>1, FS_EmptySet
  <2>2. [s \in Small(0) |-> base] \in [Small(0) -> V] /\ Fold([s \in Small(0) |-> base], 0)
    BY <2>1
  <2> QED
    BY <2>2
<1>4. ASSUME NEW n \in Nat, n \in Good
      PROVE  n + 1 \in Good
  <2>1. PICK g \in [Small(n) -> V] : Fold(g, n)
    BY <1>4
  <2> DEFINE k == [s \in Small(n + 1) |->
                      IF s \in Small(n) THEN g[s] ELSE h[s, g[s \ {c[s]}]]]
  <2>2. \A s \in Small(n + 1) : s # {} => s \ {c[s]} \in Small(n)
    BY <1>1, <1>2
  <2>3. {} \in Small(n) /\ Small(n) \subseteq Small(n + 1)
    BY <1>1, FS_EmptySet
  <2>4. k \in [Small(n + 1) -> V]
    <3>1. ASSUME NEW s \in Small(n + 1), s \notin Small(n)
          PROVE  h[s, g[s \ {c[s]}]] \in V
      <4>1. g[s \ {c[s]}] \in V /\ s \in SUBSET S
        BY <2>2, <2>3, <3>1
      <4> QED
        BY <4>1
    <3> QED
      BY <3>1
  <2>5. \A s \in Small(n) : k[s] = g[s]
    BY <2>3
  <2>6. \A s \in Small(n + 1) \ Small(n) : k[s] = h[s, g[s \ {c[s]}]]
    OBVIOUS
  <2> HIDE DEF k
  <2>7. ASSUME NEW s \in Small(n + 1)
        PROVE  k[s] = IF s = {} THEN base ELSE h[s, k[s \ {c[s]}]]
    <3>1. s # {} => k[s \ {c[s]}] = g[s \ {c[s]}]
      BY <2>2, <2>5
    <3>2. CASE s \in Small(n)
      <4>1. g[s] = IF s = {} THEN base ELSE h[s, g[s \ {c[s]}]]
        BY <2>1, <3>2
      <4> HIDE DEF Small
      <4> QED
        BY <2>5, <3>1, <3>2, <4>1
    <3>3. CASE s \notin Small(n)
      <4> HIDE DEF Small
      <4> QED
        BY <2>3, <2>6, <3>1, <3>3
    <3> QED
      BY <3>2, <3>3
  <2>8. Fold(k, n + 1)
    BY <2>7
  <2> HIDE DEF Fold, Small
  <2> QED
    BY <2>4, <2>8
<1>5. Good = Nat
  <2> HIDE DEF Good
  <2>1. SUFFICES ASSUME Nat \ Good # {}
                 PROVE  FALSE
    BY DEF Good
  <2>2. PICK n \in Nat \ Good : \A m \in Nat \ Good : n <= m
    BY <2>1, LeastNatural
  <2>3. n # 0 /\ n - 1 \in Nat /\ n - 1 \in Good
    BY <1>3, <2>2
  <2>4. (n - 1) + 1 \in Good
    BY <1>4, <2>3
  <2> QED
    BY <2>2, <2>4
<1>6. Cardinality(S) \in Nat /\ Small(Cardinality(S)) = SUBSET S
  BY <1>1, FS_Subset
<1>7. PICK g \in [Small(Cardinality(S)) -> V] : Fold(g, Cardinality(S))
  <2>1. Cardinality(S) \in Good
    BY <1>5, <1>6
  <2> HIDE DEF Small, Fold
  <2> QED
    BY <2>1
<1> QED
  <2> HIDE DEF Small
  <2>1. g \in [SUBSET S -> V]
    BY <1>6, <1>7
  <2>2. \A s \in SUBSET S : g[s] = IF s = {} THEN base ELSE h[s, g[s \ {c[s]}]]
    BY <1>6, <1>7
  <2> QED
    BY <2>1, <2>2 DEF FoldsSubsets

----------------------------------------------------------------------------
(* Sums.                                                                   *)

\* g is what the definition of a sum of f computes, on the subsets of S.
Sums(g, f, S) ==
    g = [s \in SUBSET S |-> IF s = {} THEN 0
                            ELSE LET x == CHOOSE x \in s : TRUE IN f[x] + g[s \ {x}]]

\* A sum is the value of the recursion at the whole set.
LEMMA SumIterates ==
    ASSUME NEW f, NEW S
    PROVE  SumFunctionOnSet(f, S) = (CHOOSE g : Sums(g, f, S))[S]
BY DEF SumFunctionOnSet, FoldFunctionOnSet, MapThenFoldSet, Sums

\* The recursion has a solution.
LEMMA SumsExist ==
    ASSUME NEW S, IsFiniteSet(S), NEW f, \A x \in S : f[x] \in Nat
    PROVE  \E g \in [SUBSET S -> Nat] : Sums(g, f, S)
<1> DEFINE c == [s \in SUBSET S |-> CHOOSE x \in s : TRUE]
           h == [sv \in (SUBSET S) \X Nat |-> IF sv[1] = {} THEN 0 ELSE f[c[sv[1]]] + sv[2]]
<1>1. Picks(c, S)
  BY DEF Picks
<1>2. h \in [(SUBSET S) \X Nat -> Nat]
  BY <1>1 DEF Picks
<1>3. PICK g \in [SUBSET S -> Nat] : FoldsSubsets(g, S, c, 0, h)
  <2> HIDE DEF c, h
  <2> QED
    BY <1>1, <1>2, FoldExists
<1>4. ASSUME NEW s \in SUBSET S, s # {}
      PROVE  g[s] = LET x == CHOOSE x \in s : TRUE IN f[x] + g[s \ {x}]
  <2>1. c[s] = CHOOSE x \in s : TRUE
    OBVIOUS
  <2>2. g[s] = h[<<s, g[s \ {c[s]}]>>]
    BY <1>3, <1>4 DEF FoldsSubsets
  <2>3. g[s \ {c[s]}] \in Nat
    OBVIOUS
  <2> HIDE DEF c
  <2>4. h[<<s, g[s \ {c[s]}]>>] = f[c[s]] + g[s \ {c[s]}]
    BY <1>4, <2>3
  <2> QED
    BY <2>1, <2>2, <2>4
<1>5. g[{}] = 0
  BY <1>3 DEF FoldsSubsets
<1> QED
  BY <1>4, <1>5 DEF Sums

\* Two solutions, over a set and over a part of it, agree on the part.
LEMMA SumsAgree ==
    ASSUME NEW S, IsFiniteSet(S), NEW T \in SUBSET S, NEW f, NEW g, NEW k,
           Sums(g, f, S), Sums(k, f, T)
    PROVE  \A s \in SUBSET T : g[s] = k[s]
<1> DEFINE B == {s \in SUBSET T : g[s] # k[s]}
<1>1. SUFFICES ASSUME B # {}
               PROVE  FALSE
  OBVIOUS
<1>2. PICK s \in B : \A u \in B : u \subseteq s => u = s
  <2>1. IsFiniteSet(T)
    BY FS_Subset
  <2>2. B \subseteq SUBSET T
    OBVIOUS
  <2> HIDE DEF B
  <2> QED
    BY <1>1, <2>1, <2>2, SmallestSubset
<1>3. g[s] = IF s = {} THEN 0
             ELSE LET x == CHOOSE x \in s : TRUE IN f[x] + g[s \ {x}]
  BY DEF Sums
<1>4. k[s] = IF s = {} THEN 0
             ELSE LET x == CHOOSE x \in s : TRUE IN f[x] + k[s \ {x}]
  BY DEF Sums
<1>5. CASE s = {}
  BY <1>3, <1>4, <1>5
<1>6. CASE s # {}
  <2> DEFINE x == CHOOSE x \in s : TRUE
  <2>1. x \in s /\ s \ {x} \in SUBSET T
    BY <1>6
  <2>2. g[s \ {x}] = k[s \ {x}]
    BY <1>2, <2>1
  <2> QED
    BY <1>3, <1>4, <1>6, <2>2
<1> QED
  BY <1>5, <1>6

\* The sums of f over the subsets of S are the values of one function.
SumsUp(g, f, S) == Sums(g, f, S) /\ \A T \in SUBSET S : SumFunctionOnSet(f, T) = g[T]

\* So one solution gives the sums over all parts of a set.
LEMMA SumIs ==
    ASSUME NEW S, IsFiniteSet(S), NEW f, \A x \in S : f[x] \in Nat
    PROVE  \E g \in [SUBSET S -> Nat] : SumsUp(g, f, S)
<1>1. PICK g \in [SUBSET S -> Nat] : Sums(g, f, S)
  BY SumsExist
<1>2. ASSUME NEW T \in SUBSET S
      PROVE  SumFunctionOnSet(f, T) = g[T]
  <2> DEFINE k == CHOOSE k : Sums(k, f, T)
  <2>1. IsFiniteSet(T)
    BY FS_Subset
  <2>2. Sums(k, f, T)
    BY <2>1, SumsExist
  <2> HIDE DEF k
  <2>3. g[T] = k[T]
    BY <1>1, <2>2, SumsAgree
  <2> QED
    BY <2>3, SumIterates DEF k
<1> QED
  BY <1>1, <1>2 DEF SumsUp

\* Any element may be taken out first.
LEMMA SumStep ==
    ASSUME NEW S, IsFiniteSet(S), NEW f, \A x \in S : f[x] \in Nat, NEW x \in S
    PROVE  SumFunctionOnSet(f, S) = f[x] + SumFunctionOnSet(f, S \ {x})
<1>1. PICK g \in [SUBSET S -> Nat] : SumsUp(g, f, S)
  BY SumIs
<1> DEFINE B == {T \in SUBSET S : \E y \in T : g[T] # f[y] + g[T \ {y}]}
<1>2. ASSUME NEW T \in B, \A u \in B : u \subseteq T => u = T
      PROVE  FALSE
  <2>1. PICK y \in T : g[T] # f[y] + g[T \ {y}]
    OBVIOUS
  <2>2. \A U \in SUBSET T : U # T => \A z \in U : g[U] = f[z] + g[U \ {z}]
    BY <1>2
  <2> DEFINE c == CHOOSE z \in T : TRUE
  <2>3. c \in T /\ g[T] = f[c] + g[T \ {c}]
    <3>1. T \in SUBSET S /\ T # {}
      BY <2>1
    <3> QED
      BY <1>1, <3>1 DEF Sums, SumsUp
  <2> HIDE DEF c, B
  <2>4. c # y
    BY <2>1, <2>3
  <2>5. g[T \ {c}] = f[y] + g[(T \ {c}) \ {y}]
    BY <2>1, <2>2, <2>3, <2>4
  <2>6. g[T \ {y}] = f[c] + g[(T \ {c}) \ {y}]
    <3>1. (T \ {y}) \ {c} = (T \ {c}) \ {y}
      OBVIOUS
    <3> QED
      BY <2>1, <2>2, <2>3, <2>4, <3>1
  <2>7. f[y] \in Nat /\ f[c] \in Nat /\ g[(T \ {c}) \ {y}] \in Nat
    BY <2>1, <2>3 DEF B
  <2> QED
    BY <2>1, <2>3, <2>5, <2>6, <2>7
<1>3. B = {}
  <2>1. B \subseteq SUBSET S
    OBVIOUS
  <2> HIDE DEF B
  <2> QED
    BY <1>2, <2>1, SmallestSubset
<1>4. g[S] = f[x] + g[S \ {x}]
  BY <1>3
<1> QED
  BY <1>1, <1>4 DEF SumsUp

\* A sum of naturals is one.
LEMMA SumIsNat ==
    ASSUME NEW S, IsFiniteSet(S), NEW f, \A x \in S : f[x] \in Nat
    PROVE  SumFunctionOnSet(f, S) \in Nat
<1>1. PICK g \in [SUBSET S -> Nat] : SumsUp(g, f, S)
  BY SumIs
<1> QED
  BY <1>1 DEF SumsUp

\* Nothing sums to 0.
LEMMA SumEmpty ==
    ASSUME NEW f
    PROVE  SumFunctionOnSet(f, {}) = 0
<1>1. PICK g \in [SUBSET {} -> Nat] : SumsUp(g, f, {})
  BY SumIs, FS_EmptySet
<1> QED
  BY <1>1 DEF Sums, SumsUp

\* A sum grows with what is summed.
LEMMA SumMonotone ==
    ASSUME NEW S, IsFiniteSet(S), NEW f, NEW g,
           \A x \in S : f[x] \in Nat /\ g[x] \in Nat /\ f[x] <= g[x]
    PROVE  SumFunctionOnSet(f, S) <= SumFunctionOnSet(g, S)
<1> DEFINE B == {T \in SUBSET S : ~(SumFunctionOnSet(f, T) <= SumFunctionOnSet(g, T))}
<1>1. ASSUME NEW T \in B, \A u \in B : u \subseteq T => u = T
      PROVE  FALSE
  <2>1. IsFiniteSet(T) /\ \A x \in T : f[x] \in Nat /\ g[x] \in Nat /\ f[x] <= g[x]
    BY FS_Subset
  <2>2. PICK x \in T : TRUE
    BY SumEmpty
  <2> DEFINE U == T \ {x}
  <2>3. U \notin B /\ U \in SUBSET S /\ IsFiniteSet(U)
    BY <1>1, <2>1, <2>2, FS_Subset
  <2>4. SumFunctionOnSet(f, U) <= SumFunctionOnSet(g, U)
    BY <2>3
  <2>5. /\ SumFunctionOnSet(f, T) = f[x] + SumFunctionOnSet(f, U)
        /\ SumFunctionOnSet(g, T) = g[x] + SumFunctionOnSet(g, U)
    BY <2>1, <2>2, SumStep
  <2>6. SumFunctionOnSet(f, U) \in Nat /\ SumFunctionOnSet(g, U) \in Nat
    BY <2>1, <2>3, SumIsNat
  <2> HIDE DEF U
  <2> QED
    BY <2>1, <2>2, <2>4, <2>5, <2>6
<1>2. B = {}
  <2>1. B \subseteq SUBSET S
    OBVIOUS
  <2> HIDE DEF B
  <2> QED
    BY <1>1, <2>1, SmallestSubset
<1> QED
  BY <1>2

\* A sum depends on the values summed only.
LEMMA SumSame ==
    ASSUME NEW S, IsFiniteSet(S), NEW f, NEW g,
           \A x \in S : f[x] \in Nat /\ g[x] = f[x]
    PROVE  SumFunctionOnSet(f, S) = SumFunctionOnSet(g, S)
<1>1. \A x \in S : f[x] \in Nat /\ g[x] \in Nat /\ f[x] <= g[x] /\ g[x] <= f[x]
  OBVIOUS
<1>2. /\ SumFunctionOnSet(f, S) <= SumFunctionOnSet(g, S)
      /\ SumFunctionOnSet(g, S) <= SumFunctionOnSet(f, S)
  BY <1>1, SumMonotone
<1>3. SumFunctionOnSet(f, S) \in Nat /\ SumFunctionOnSet(g, S) \in Nat
  BY <1>1, SumIsNat
<1> QED
  BY <1>2, <1>3

\* When one value grows by n, so does the sum.
LEMMA SumBump ==
    ASSUME NEW S, IsFiniteSet(S), NEW f, NEW g, NEW x \in S, NEW n \in Nat,
           \A y \in S : f[y] \in Nat, g[x] = f[x] + n,
           \A y \in S \ {x} : g[y] = f[y]
    PROVE  SumFunctionOnSet(g, S) = SumFunctionOnSet(f, S) + n
<1> DEFINE U == S \ {x}
<1>1. IsFiniteSet(U) /\ \A y \in U : f[y] \in Nat /\ g[y] = f[y]
  BY FS_Subset
<1>2. SumFunctionOnSet(f, U) = SumFunctionOnSet(g, U) /\ SumFunctionOnSet(f, U) \in Nat
  <2> HIDE DEF U
  <2> QED
    BY <1>1, SumSame, SumIsNat
<1>3. \A y \in S : g[y] \in Nat
  OBVIOUS
<1>4. /\ SumFunctionOnSet(f, S) = f[x] + SumFunctionOnSet(f, U)
      /\ SumFunctionOnSet(g, S) = g[x] + SumFunctionOnSet(g, U)
  BY <1>3, SumStep
<1> HIDE DEF U
<1> QED
  BY <1>2, <1>4

\* One more element adds its value.
LEMMA SumAdd ==
    ASSUME NEW S, IsFiniteSet(S), NEW f, NEW x, x \notin S, 
           \A y \in S \cup {x} : f[y] \in Nat
    PROVE  /\ IsFiniteSet(S \cup {x})
           /\ SumFunctionOnSet(f, S \cup {x}) = f[x] + SumFunctionOnSet(f, S)
<1>1. IsFiniteSet(S \cup {x}) /\ (S \cup {x}) \ {x} = S /\ x \in S \cup {x}
  BY FS_AddElement
<1> QED
  BY <1>1, SumStep

\* Values that go, one to one, into no smaller ones have no larger sum.
LEMMA SumInjects ==
    ASSUME NEW S, IsFiniteSet(S), NEW f, \A x \in S : f[x] \in Nat,
           NEW T, IsFiniteSet(T), NEW g, \A y \in T : g[y] \in Nat,
           NEW into,
           \A x \in S : f[x] # 0 => into[x] \in T /\ f[x] <= g[into[x]],
           \A x, y \in S : f[x] # 0 /\ f[y] # 0 /\ into[x] = into[y] => x = y
    PROVE  SumFunctionOnSet(f, S) <= SumFunctionOnSet(g, T)
<1> DEFINE Within(P, Q) == \A x \in P : f[x] # 0 => into[x] \in Q
           B == {P \in SUBSET S : \E Q \in SUBSET T :
                     Within(P, Q) /\ ~(SumFunctionOnSet(f, P) <= SumFunctionOnSet(g, Q))}
<1>1. ASSUME NEW P \in B, \A u \in B : u \subseteq P => u = P
      PROVE  FALSE
  <2>1. PICK Q \in SUBSET T :
            Within(P, Q) /\ ~(SumFunctionOnSet(f, P) <= SumFunctionOnSet(g, Q))
    OBVIOUS
  <2>2. /\ IsFiniteSet(P) /\ \A x \in P : f[x] \in Nat
        /\ IsFiniteSet(Q) /\ \A y \in Q : g[y] \in Nat
    BY FS_Subset
  <2>3. SumFunctionOnSet(g, Q) \in Nat
    BY <2>2, SumIsNat
  <2>4. PICK x \in P : TRUE
    BY <2>1, <2>3, SumEmpty
  <2> DEFINE U == P \ {x}
  <2>5. /\ U \notin B /\ U \in SUBSET S /\ IsFiniteSet(U)
        /\ SumFunctionOnSet(f, U) \in Nat
        /\ SumFunctionOnSet(f, P) = f[x] + SumFunctionOnSet(f, U)
    BY <1>1, <2>2, <2>4, FS_Subset, SumStep, SumIsNat
  <2>6. CASE f[x] = 0
    <3>1. Within(U, Q)
      BY <2>1
    <3>2. SumFunctionOnSet(f, U) <= SumFunctionOnSet(g, Q)
      BY <2>5, <3>1
    <3> HIDE DEF U
    <3> QED
      BY <2>1, <2>5, <2>6, <3>2
  <2>7. CASE f[x] # 0
    <3> DEFINE y == into[x]  V == Q \ {y}
    <3>1. y \in Q /\ f[x] <= g[y]
      BY <2>1, <2>4, <2>7
    <3>2. Within(U, V)
      BY <2>1, <2>4, <2>7
    <3>3. V \in SUBSET T
      OBVIOUS
    <3>4. SumFunctionOnSet(f, U) <= SumFunctionOnSet(g, V)
      <4> HIDE DEF U, V, Within
      <4> QED
        BY <2>5, <3>2, <3>3
    <3>5. /\ SumFunctionOnSet(g, V) \in Nat
          /\ SumFunctionOnSet(g, Q) = g[y] + SumFunctionOnSet(g, V)
      <4>1. IsFiniteSet(V) /\ \A z \in V : g[z] \in Nat
        BY <2>2, FS_Subset
      <4> QED
        BY <2>2, <3>1, <4>1, SumStep, SumIsNat
    <3>6. f[x] \in Nat /\ g[y] \in Nat
      BY <2>2, <2>4, <3>1
    <3> HIDE DEF U, V, y
    <3> QED
      BY <2>1, <2>5, <3>1, <3>4, <3>5, <3>6
  <2> QED
    BY <2>6, <2>7
<1>2. B = {}
  <2>1. B \subseteq SUBSET S
    OBVIOUS
  <2> HIDE DEF B
  <2> QED
    BY <1>1, <2>1, SmallestSubset
<1>3. S \in SUBSET S /\ T \in SUBSET T /\ Within(S, T)
  OBVIOUS
<1> QED
  BY <1>2, <1>3

\* Values of at most n sum to at most n for each of them.
LEMMA SumAtMost ==
    ASSUME NEW S, IsFiniteSet(S), NEW f, NEW n \in Nat,
           \A x \in S : f[x] \in Nat /\ f[x] <= n
    PROVE  SumFunctionOnSet(f, S) <= n * Cardinality(S)
<1> DEFINE B == {T \in SUBSET S : ~(SumFunctionOnSet(f, T) <= n * Cardinality(T))}
<1>1. ASSUME NEW T \in B, \A u \in B : u \subseteq T => u = T
      PROVE  FALSE
  <2>1. IsFiniteSet(T) /\ \A x \in T : f[x] \in Nat /\ f[x] <= n
    BY FS_Subset
  <2>2. PICK x \in T : TRUE
    BY SumEmpty, FS_EmptySet
  <2> DEFINE U == T \ {x}
  <2>3. U \notin B /\ U \in SUBSET S
    BY <1>1, <2>2
  <2>4. SumFunctionOnSet(f, U) <= n * Cardinality(U)
    BY <2>3
  <2>5. IsFiniteSet(U) /\ \A y \in U : f[y] \in Nat
    BY <2>1, FS_Subset
  <2>6. SumFunctionOnSet(f, T) = f[x] + SumFunctionOnSet(f, U)
    BY <2>1, <2>2, SumStep
  <2>7. SumFunctionOnSet(f, U) \in Nat /\ Cardinality(U) \in Nat
    <3> HIDE DEF U
    <3> QED
      BY <2>5, SumIsNat, FS_CardinalityType
  <2>8. Cardinality(T) = Cardinality(U) + 1
    <3>1. Cardinality(U) = Cardinality(T) - 1 /\ Cardinality(T) \in Nat
      BY <2>1, <2>2, FS_RemoveElement, FS_CardinalityType
    <3> HIDE DEF U
    <3> QED
      BY <3>1
  <2>9. n * Cardinality(T) = n * Cardinality(U) + n
    <3>1. \A k \in Nat : n * (k + 1) = n * k + n
      OBVIOUS
    <3> HIDE DEF U
    <3> QED
      BY <2>7, <2>8, <3>1
  <2>10. f[x] \in Nat /\ f[x] <= n /\ n * Cardinality(U) \in Nat
    <3>1. \A k \in Nat : n * k \in Nat
      OBVIOUS
    <3> HIDE DEF U
    <3> QED
      BY <2>1, <2>2, <2>7, <3>1
  <2>11. ~(SumFunctionOnSet(f, T) <= n * Cardinality(T))
    OBVIOUS
  <2>12. \A a, b, c \in Nat : a <= n /\ b <= c => a + b <= c + n
    OBVIOUS
  <2> HIDE DEF U, B
  <2> QED
    BY <2>4, <2>6, <2>7, <2>9, <2>10, <2>11, <2>12
<1>2. B = {}
  <2>1. B \subseteq SUBSET S
    OBVIOUS
  <2> HIDE DEF B
  <2> QED
    BY <1>1, <2>1, SmallestSubset
<1> QED
  BY <1>2
=============================================================================
