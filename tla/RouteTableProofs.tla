-------------------------- MODULE RouteTableProofs --------------------------
(***************************************************************************)
(* What the route table keeps, for any rules, any admin calls in flight    *)
(* and any order in which their probes come back, through failed writes,   *)
(* crashes and restarts.                                                   *)
(*                                                                         *)
(* The argument: every edit of the table is addRoute or removeRoute, which *)
(* keep rules unique by tool and touch no tool but their own; the sort of  *)
(* compileRoutes ranks the rules by a strict total order, so its ranks are *)
(* the places of a permutation; and the compiled table is always the one   *)
(* that these ranks make of the current rules.  What was acknowledged is   *)
(* in the table as well as in the file, which is why a later write of the  *)
(* table, for any other call, leaves it there.                             *)
(***************************************************************************)
EXTENDS RouteTable, Folding, SequenceTheorems, TLAPS

----------------------------------------------------------------------------
(* Tables: addRoute and removeRoute.                                       *)

\* No two rules of a table have the same tool id.
Unique(table) == \A i, j \in DOMAIN table : table[i].tool = table[j].tool => i = j

\* A sequence of rules with one rule per tool.
Tables == {table \in Seq(RuleType) : Unique(table)}

\* The fields of a rule that is edited in place.
LEMMA RuleEdits ==
    ASSUME NEW rule \in RuleType, NEW price \in Prices, NEW backend \in Backends,
           NEW bypass \in BOOLEAN
    PROVE  /\ rule.tool \in STRING
           /\ [rule EXCEPT !.bypass = bypass] \in RuleType
           /\ [rule EXCEPT !.bypass = bypass].tool = rule.tool
           /\ [rule EXCEPT !.price = price, !.backend = backend] \in RuleType
           /\ [rule EXCEPT !.price = price, !.backend = backend].tool = rule.tool
BY DEF RuleType

\* A set of places in a table has a first one.
LEMMA FirstPlace ==
    ASSUME NEW n \in Nat, NEW I, I \subseteq 1..n, I # {}
    PROVE  /\ (CHOOSE i \in I : \A j \in I : i <= j) \in I
           /\ Min(I) \in I
<1>1. I \subseteq Nat
  OBVIOUS
<1>2. \E i \in I : \A j \in I : i <= j
  BY <1>1, LeastNatural
<1> QED
  BY <1>2 DEF Min

\* The tools of a table, place by place.
LEMMA ToolsAt ==
    ASSUME NEW table \in Seq(RuleType)
    PROVE  /\ ToolsOf(table) = {table[i].tool : i \in 1..Len(table)}
           /\ \A i \in 1..Len(table) : table[i] \in RuleType
           /\ DOMAIN table = 1..Len(table) /\ Len(table) \in Nat
BY LenProperties, ElementOfSeq DEF ToolsOf

\* addRoute: the rule is in, every other one stays, and tools stay unique.
LEMMA CandidateAdds ==
    ASSUME NEW table \in Seq(RuleType), NEW rule \in RuleType
    PROVE  /\ Candidate(table, rule) \in Seq(RuleType)
           /\ Unique(table) => Unique(Candidate(table, rule))
           /\ ToolsOf(Candidate(table, rule)) = ToolsOf(table) \cup {rule.tool}
           /\ \A i \in DOMAIN Candidate(table, rule) :
                 \/ Candidate(table, rule)[i] = rule
                 \/ \E j \in DOMAIN table : Candidate(table, rule)[i] = table[j]
<1> DEFINE same == {i \in DOMAIN table : table[i].tool = rule.tool}
           c == Candidate(table, rule)
           first == CHOOSE i \in same : \A j \in same : i <= j
<1>0. DOMAIN table = 1..Len(table) /\ Len(table) \in Nat
  BY ToolsAt
<1>1. CASE same = {}
  <2>1. c = Append(table, rule)
    BY <1>1 DEF Candidate
  <2>2. /\ c \in Seq(RuleType) /\ Len(c) = Len(table) + 1
        /\ \A i \in 1..Len(table) : c[i] = table[i]
        /\ c[Len(table) + 1] = rule
    BY <2>1, AppendProperties
  <2>3. DOMAIN c = 1..Len(table) + 1
    BY <2>2, LenProperties
  <2>4. \A i \in DOMAIN c : i \in 1..Len(table) \/ i = Len(table) + 1
    BY <1>0, <2>3
  <2>5. \A i \in DOMAIN table : i \in DOMAIN c /\ i # Len(table) + 1
    BY <1>0, <2>3
  <2>6. ToolsOf(c) = ToolsOf(table) \cup {rule.tool}
    <3>1. Len(table) + 1 \in DOMAIN c
      BY <1>0, <2>3
    <3> HIDE DEF c
    <3> QED
      BY <1>0, <2>2, <2>4, <2>5, <3>1 DEF ToolsOf
  <2>7. Unique(table) => Unique(c)
    <3> HIDE DEF c
    <3> QED
      BY <1>0, <1>1, <2>2, <2>4 DEF Unique
  <2> HIDE DEF c
  <2>8. \A i \in DOMAIN c : c[i] = rule \/ \E j \in DOMAIN table : c[i] = table[j]
    BY <1>0, <2>2, <2>4
  <2> QED
    BY <2>2, <2>6, <2>7, <2>8 DEF c
<1>2. CASE same # {}
  <2>1. first \in same
    <3>1. same \subseteq 1..Len(table)
      BY <1>0
    <3> HIDE DEF same
    <3> QED
      BY <1>0, <1>2, <3>1, FirstPlace
  <2>2. c = [table EXCEPT ![first] = rule]
    BY <1>2 DEF Candidate
  <2> HIDE DEF first
  <2>3. /\ c \in Seq(RuleType)
        /\ DOMAIN c = DOMAIN table
        /\ \A i \in DOMAIN table : c[i] = IF i = first THEN rule ELSE table[i]
    BY <1>0, <2>1, <2>2, ExceptSeq
  <2>4. first \in DOMAIN table /\ table[first].tool = rule.tool
    BY <2>1
  <2>5. \A i \in DOMAIN table : c[i].tool = table[i].tool
    BY <2>3, <2>4
  <2> HIDE DEF c, same
  <2>6. ToolsOf(c) = ToolsOf(table) \cup {rule.tool}
    BY <2>3, <2>4, <2>5 DEF ToolsOf
  <2>7. Unique(table) => Unique(c)
    BY <2>3, <2>5 DEF Unique
  <2>8. \A i \in DOMAIN c : c[i] = rule \/ \E j \in DOMAIN table : c[i] = table[j]
    BY <2>3
  <2> QED
    BY <2>3, <2>6, <2>7, <2>8 DEF c
<1> QED
  BY <1>1, <1>2

\* removeRoute: every rule that stays was there, in the same order, and the
\* tools that go are at most the one named.
LEMMA WithoutRemoves ==
    ASSUME NEW table \in Seq(RuleType), NEW tool
    PROVE  /\ Without(table, tool) \in Seq(RuleType)
           /\ Unique(table) => Unique(Without(table, tool))
           /\ ToolsOf(table) \ {tool} \subseteq ToolsOf(Without(table, tool))
           /\ \A i \in DOMAIN Without(table, tool) :
                 \E j \in DOMAIN table : Without(table, tool)[i] = table[j]
<1> DEFINE I == {i \in 1..Len(table) : table[i].tool = tool}
           k == Min(I)
           t == Without(table, tool)
<1>0. DOMAIN table = 1..Len(table) /\ Len(table) \in Nat
  BY ToolsAt
<1>1. CASE I = {}
  <2>1. t = table
    BY <1>1 DEF Without, RemoveFirstMatch
  <2> QED
    BY <2>1
<1>2. CASE I # {}
  <2>1. k \in I
    <3>1. I \subseteq 1..Len(table)
      OBVIOUS
    <3> HIDE DEF I
    <3> QED
      BY <1>0, <1>2, <3>1, FirstPlace
  <2>2. t = SubSeq(table, 1, k - 1) \o SubSeq(table, k + 1, Len(table))
    <3>1. t = RemoveAt(table, k)
      BY <1>2 DEF Without, RemoveFirstMatch, SelectInSeq
    <3> QED
      BY <3>1 DEF RemoveAt
  <2> HIDE DEF k, t
  <2> DEFINE a == SubSeq(table, 1, k - 1)
             b == SubSeq(table, k + 1, Len(table))
  <2>3. k \in 1..Len(table) /\ table[k].tool = tool
    BY <2>1
  <2>4. /\ a \in Seq(RuleType) /\ Len(a) = k - 1
        /\ \A i \in 1..k - 1 : a[i] = table[i]
    <3>1. \A i \in 1..k - 1 : table[i] \in RuleType
      BY <1>0, <2>3, ElementOfSeq
    <3> QED
      BY <1>0, <2>3, <3>1, SubSeqProperties
  <2>5. /\ b \in Seq(RuleType) /\ Len(b) = Len(table) - k
        /\ \A i \in 1..Len(table) - k : b[i] = table[k + i]
    <3>1. \A i \in k + 1..Len(table) : table[i] \in RuleType
      BY <1>0, <2>3, ElementOfSeq
    <3>2. /\ b \in Seq(RuleType)
          /\ Len(b) = IF k + 1 <= Len(table) THEN Len(table) - (k + 1) + 1 ELSE 0
          /\ \A i \in 1..Len(table) - (k + 1) + 1 : b[i] = table[k + 1 + i - 1]
      BY <1>0, <2>3, <3>1, SubSeqProperties
    <3>3. ASSUME NEW i \in 1..Len(table) - k
          PROVE  i \in 1..Len(table) - (k + 1) + 1 /\ k + 1 + i - 1 = k + i
      BY <1>0, <2>3
    <3>4. Len(b) = Len(table) - k
      <4>1. \A n \in Nat : \A m \in 1..n :
               (IF m + 1 <= n THEN n - (m + 1) + 1 ELSE 0) = n - m
        OBVIOUS
      <4> QED
        BY <1>0, <2>3, <3>2, <4>1
    <3> HIDE DEF b
    <3>5. ASSUME NEW i \in 1..Len(table) - k
          PROVE  b[i] = table[k + i]
      <4>1. b[i] = table[k + 1 + i - 1]
        BY <3>2, <3>3
      <4> QED
        BY <3>3, <4>1
    <3> QED
      BY <3>2, <3>4, <3>5
  <2>6. /\ t \in Seq(RuleType) /\ Len(t) = Len(table) - 1
        /\ \A i \in 1..Len(table) - 1 : t[i] = IF i < k THEN table[i] ELSE table[i + 1]
    <3> HIDE DEF a, b
    <3>1. t = a \o b
      BY <2>2 DEF a, b
    <3>2. /\ t \in Seq(RuleType) /\ Len(t) = Len(a) + Len(b)
          /\ \A i \in 1..Len(a) + Len(b) : t[i] = IF i <= Len(a) THEN a[i] ELSE b[i - Len(a)]
      BY <2>4, <2>5, <3>1, ConcatProperties
    <3>3. Len(a) + Len(b) = Len(table) - 1
      BY <1>0, <2>3, <2>4, <2>5
    <3>4. ASSUME NEW i \in 1..Len(table) - 1
          PROVE  t[i] = IF i < k THEN table[i] ELSE table[i + 1]
      <4>1. t[i] = IF i <= k - 1 THEN a[i] ELSE b[i - (k - 1)]
        BY <2>4, <3>2, <3>3
      <4>2. CASE i < k
        <5>1. i \in 1..k - 1
          BY <1>0, <2>3, <4>2
        <5> QED
          BY <1>0, <2>3, <2>4, <4>1, <4>2, <5>1
      <4>3. CASE ~(i < k)
        <5>1. i - (k - 1) \in 1..Len(table) - k /\ k + (i - (k - 1)) = i + 1
          BY <1>0, <2>3, <4>3
        <5>2. ~(i <= k - 1)
          BY <1>0, <2>3, <4>3
        <5>3. b[i - (k - 1)] = table[k + (i - (k - 1))]
          BY <2>5, <5>1
        <5> QED
          BY <4>1, <4>3, <5>1, <5>2, <5>3
      <4> QED
        BY <4>2, <4>3
    <3> QED
      BY <3>2, <3>3, <3>4
  <2>7. DOMAIN t = 1..Len(table) - 1
    BY <2>6, LenProperties
  <2>8. ToolsOf(table) \ {tool} \subseteq ToolsOf(t)
    <3> SUFFICES ASSUME NEW j \in 1..Len(table), table[j].tool # tool
                 PROVE  \E i \in DOMAIN t : t[i] = table[j]
      BY <1>0 DEF ToolsOf
    <3>1. CASE j < k
      <4>1. j \in 1..Len(table) - 1
        BY <1>0, <2>3, <3>1
      <4> QED
        BY <2>6, <2>7, <3>1, <4>1
    <3>2. CASE j > k
      <4>1. j - 1 \in 1..Len(table) - 1 /\ ~(j - 1 < k) /\ (j - 1) + 1 = j
        BY <1>0, <2>3, <3>2
      <4> QED
        BY <2>6, <2>7, <4>1
    <3>3. j # k
      BY <2>3
    <3> QED
      BY <1>0, <2>3, <3>1, <3>2, <3>3
  <2>9. \A i \in DOMAIN t : \E j \in DOMAIN table : t[i] = table[j]
    BY <1>0, <2>3, <2>6, <2>7
  <2>10. ASSUME Unique(table)
         PROVE  Unique(t)
    <3> SUFFICES ASSUME NEW i \in DOMAIN t, NEW j \in DOMAIN t, t[i].tool = t[j].tool
                 PROVE  i = j
      BY DEF Unique
    <3> DEFINE was(n) == IF n < k THEN n ELSE n + 1
    <3>1. was(i) \in DOMAIN table /\ was(j) \in DOMAIN table
      BY <1>0, <2>3, <2>7
    <3>2. t[i] = table[was(i)] /\ t[j] = table[was(j)]
      BY <2>6, <2>7
    <3>3. was(i) = was(j)
      <4> HIDE DEF was
      <4> QED
        BY <2>10, <3>1, <3>2 DEF Unique
    <3> QED
      BY <1>0, <2>3, <2>7, <3>3
  <2> QED
    BY <2>6, <2>8, <2>9, <2>10 DEF t
<1> QED
  BY <1>1, <1>2

----------------------------------------------------------------------------
(* A start: the routes whose upstream is wrapped go, one after the other.  *)

\* A table that is left of "base" once rules for the tools in W were removed.
Leaves(base, W) ==
    {table \in Tables :
        /\ ToolsOf(base) \ W \subseteq ToolsOf(table)
        /\ \A i \in DOMAIN table : \E j \in DOMAIN base : table[i] = base[j]}

LEMMA LeavesStep ==
    ASSUME NEW base, NEW W, NEW table \in Leaves(base, W), NEW tool \in W
    PROVE  Without(table, tool) \in Leaves(base, W)
<1> DEFINE t == Without(table, tool)
<1>1. /\ table \in Seq(RuleType) /\ Unique(table)
      /\ ToolsOf(base) \ W \subseteq ToolsOf(table)
      /\ \A i \in DOMAIN table : \E j \in DOMAIN base : table[i] = base[j]
  BY DEF Leaves, Tables
<1>2. /\ t \in Seq(RuleType) /\ Unique(t)
      /\ ToolsOf(table) \ {tool} \subseteq ToolsOf(t)
      /\ \A i \in DOMAIN t : \E j \in DOMAIN table : t[i] = table[j]
  BY <1>1, WithoutRemoves
<1> HIDE DEF t
<1>3. \A i \in DOMAIN t : \E j \in DOMAIN base : t[i] = base[j]
  <2> SUFFICES ASSUME NEW i \in DOMAIN t
               PROVE  \E j \in DOMAIN base : t[i] = base[j]
    OBVIOUS
  <2>1. PICK j \in DOMAIN table : t[i] = table[j]
    BY <1>2
  <2> QED
    BY <1>1, <2>1
<1>4. ToolsOf(base) \ W \subseteq ToolsOf(t)
  BY <1>1, <1>2
<1>5. t \in Leaves(base, W)
  BY <1>2, <1>3, <1>4 DEF Leaves, Tables
<1> QED
  BY <1>5 DEF t

\* g is what the definition of the start's fold computes, on sets of places.
Removes(g, base, seq) ==
    g = [s \in SUBSET DOMAIN seq |->
            IF s = {} THEN base
            ELSE LET x == Max(s) IN Without(g[s \ {x}], seq[x])]

LEMMA RemovesIterates ==
    ASSUME NEW base, NEW seq
    PROVE  FoldLeft(Without, base, seq) = (CHOOSE g : Removes(g, base, seq))[DOMAIN seq]
BY DEF FoldLeft, MapThenFoldSet, Removes

\* A set of places has a last one.
LEMMA LastPlace ==
    ASSUME NEW n \in Nat, NEW s, s \subseteq 1..n, s # {}
    PROVE  Max(s) \in s
<1> DEFINE bounds == {m \in Nat : \A x \in s : x <= m}
<1>1. n \in bounds /\ bounds \subseteq Nat
  OBVIOUS
<1>2. PICK m \in bounds : \A k \in bounds : m <= k
  <2> HIDE DEF bounds
  <2> QED
    BY <1>1, LeastNatural
<1>3. m \in s
  <2> SUFFICES ASSUME m \notin s
               PROVE  FALSE
    OBVIOUS
  <2>1. \A x \in s : x \in Nat /\ x >= 1 /\ x <= m - 1
    BY <1>2
  <2>2. m - 1 \in bounds
    <3>1. PICK x \in s : TRUE
      OBVIOUS
    <3>2. m \in Nat /\ m - 1 >= 1
      BY <2>1, <3>1
    <3>3. m - 1 \in Nat
      BY <3>2
    <3> QED
      BY <2>1, <3>3
  <2> QED
    BY <1>2, <2>2
<1>4. \A x \in s : m >= x
  BY <1>2
<1> QED
  BY <1>3, <1>4 DEF Max

LEMMA RemovesExist ==
    ASSUME NEW base \in Tables, NEW W, NEW n \in Nat, NEW seq \in [1..n -> W]
    PROVE  \E g : Removes(g, base, seq)
<1> DEFINE D == 1..n
           V == Leaves(base, W)
           c == [s \in SUBSET D |-> Max(s)]
           h == [sv \in (SUBSET D) \X V |->
                    IF sv[1] = {} THEN base ELSE Without(sv[2], seq[c[sv[1]]])]
<1>1. Picks(c, D)
  BY LastPlace DEF Picks
<1>2. base \in V
  BY DEF Leaves
<1>3. h \in [(SUBSET D) \X V -> V]
  <2> SUFFICES ASSUME NEW s \in SUBSET D, NEW v \in V
               PROVE  (IF s = {} THEN base ELSE Without(v, seq[c[s]])) \in V
    OBVIOUS
  <2>1. s # {} => seq[c[s]] \in W
    <3> HIDE DEF c, V
    <3> QED
      BY <1>1 DEF Picks
  <2> QED
    BY <1>2, <2>1, LeavesStep
<1>4. IsFiniteSet(D)
  <2>1. 1 \in Int /\ n \in Int
    OBVIOUS
  <2> QED
    BY <2>1, FS_Interval
<1>5. PICK g \in [SUBSET D -> V] : FoldsSubsets(g, D, c, base, h)
  <2> HIDE DEF c, h, D, V
  <2> QED
    BY <1>1, <1>2, <1>3, <1>4, FoldExists
<1>6. ASSUME NEW s \in SUBSET D
      PROVE  g[s] = IF s = {} THEN base ELSE LET x == Max(s) IN Without(g[s \ {x}], seq[x])
  <2>1. c[s] = Max(s)
    OBVIOUS
  <2>2. g[s] = IF s = {} THEN base ELSE h[s, g[s \ {c[s]}]]
    BY <1>5 DEF FoldsSubsets
  <2>3. s # {} => s \ {c[s]} \in SUBSET D
    OBVIOUS
  <2>4. s # {} => g[s \ {c[s]}] \in V
    <3> HIDE DEF c, V, h
    <3> QED
      BY <2>3
  <2> HIDE DEF c, V
  <2>5. s # {} => h[s, g[s \ {c[s]}]] = Without(g[s \ {c[s]}], seq[c[s]])
    BY <2>4
  <2> HIDE DEF h
  <2> QED
    BY <2>1, <2>2, <2>5
<1>7. DOMAIN seq = D
  OBVIOUS
<1> HIDE DEF c, h, V, D
<1>8. g = [s \in SUBSET D |-> IF s = {} THEN base
                              ELSE LET x == Max(s) IN Without(g[s \ {x}], seq[x])]
  BY <1>6
<1>9. Removes(g, base, seq)
  BY <1>7, <1>8 DEF Removes
<1> QED
  BY <1>9

\* What a start keeps of the file: everything but the wrapped tools, and no
\* rule that was not there.
LEMMA StartLeaves ==
    ASSUME NEW base \in Tables, NEW W, IsFiniteSet(W)
    PROVE  FoldLeft(Without, base, SetToSeq(W)) \in Leaves(base, W)
<1> DEFINE seq == SetToSeq(W)
           n == Cardinality(W)
           V == Leaves(base, W)
           g == CHOOSE g : Removes(g, base, seq)
<1>1. n \in Nat /\ seq \in [1..n -> W]
  <2>1. n \in Nat /\ ExistsBijection(1..n, W)
    BY FS_CardinalityType
  <2>2. \E f \in [1..n -> W] : IsInjective(f)
    BY <2>1 DEF ExistsBijection, Bijection, Injection
  <2> QED
    BY <2>1, <2>2 DEF SetToSeq
<1> HIDE DEF seq, n
<1>2. Removes(g, base, seq)
  <2>1. \E k : Removes(k, base, seq)
    BY <1>1, RemovesExist
  <2> QED
    BY <2>1
<1>3. base \in V
  BY DEF Leaves
<1> DEFINE D == 1..n
           B == {s \in SUBSET D : g[s] \notin V}
<1>4. IsFiniteSet(D) /\ DOMAIN seq = D
  <2>1. 1 \in Int /\ n \in Int
    BY <1>1
  <2> QED
    BY <1>1, <2>1, FS_Interval
<1>5. \A s \in SUBSET D :
         g[s] = IF s = {} THEN base ELSE LET x == Max(s) IN Without(g[s \ {x}], seq[x])
  <2> HIDE DEF g, D
  <2> QED
    BY <1>2, <1>4 DEF Removes
<1>6. ASSUME NEW s \in B, \A u \in B : u \subseteq s => u = s
      PROVE  FALSE
  <2>1. s # {}
    <3> HIDE DEF g
    <3> QED
      BY <1>3, <1>5
  <2>2. Max(s) \in s
    BY <1>1, <2>1, LastPlace
  <2> DEFINE x == Max(s)
             u == s \ {x}
  <2>3. g[u] \in V
    <3>1. u \in SUBSET D /\ u \subseteq s /\ u # s
      BY <2>2
    <3> HIDE DEF u, g, V
    <3> QED
      BY <1>6, <3>1
  <2>4. seq[x] \in W
    BY <1>1, <2>2
  <2>5. Without(g[u], seq[x]) \in V
    <3> HIDE DEF g, u, x
    <3> QED
      BY <2>3, <2>4, LeavesStep
  <2>6. g[s] = Without(g[u], seq[x])
    <3>1. s \in SUBSET D
      OBVIOUS
    <3> HIDE DEF g, D
    <3> QED
      BY <1>5, <2>1, <3>1
  <2> QED
    BY <2>5, <2>6
<1>7. B = {}
  <2>1. B \subseteq SUBSET D
    OBVIOUS
  <2> HIDE DEF B, D
  <2> QED
    BY <1>4, <1>6, <2>1, SmallestSubset
<1>8. g[D] \in V
  BY <1>7
<1>9. FoldLeft(Without, base, seq) = g[D]
  <2>1. FoldLeft(Without, base, seq) = g[DOMAIN seq]
    BY RemovesIterates
  <2> HIDE DEF g, D
  <2> QED
    BY <1>4, <2>1
<1>10. FoldLeft(Without, base, seq) \in V
  <2> HIDE DEF g, D, V
  <2> QED
    BY <1>8, <1>9
<1> QED
  BY <1>10 DEF seq

\* The tools of a table are finitely many.
LEMMA ToolsFinite ==
    ASSUME NEW table \in Seq(RuleType)
    PROVE  IsFiniteSet(ToolsOf(table))
<1> DEFINE D == 1..Len(table)
           f == [i \in D |-> table[i].tool]
<1>1. Len(table) \in Nat /\ ToolsOf(table) = {table[i].tool : i \in D}
  BY ToolsAt
<1>2. IsFiniteSet(D)
  <2>1. 1 \in Int /\ Len(table) \in Int
    BY <1>1
  <2> QED
    BY <2>1, FS_Interval
<1>3. f \in Surjection(D, ToolsOf(table))
  BY <1>1 DEF Surjection
<1> HIDE DEF D, f
<1> QED
  BY <1>2, <1>3, FS_Surjection

\* What the loader and persistRoutes make of a table: the same rules, without
\* the flag.
LEMMA CleanKeeps ==
    ASSUME NEW table \in Seq(RuleType)
    PROVE  /\ Clean(table) \in Seq(RuleType)
           /\ ToolsOf(Clean(table)) = ToolsOf(table)
           /\ Unique(table) => Unique(Clean(table))
<1> DEFINE t == Clean(table)
           n == Len(table)
<1>1. n \in Nat /\ DOMAIN table = 1..n /\ \A i \in 1..n : table[i] \in RuleType
  BY ToolsAt
<1>2. t = [i \in 1..n |-> [table[i] EXCEPT !.bypass = FALSE]]
  BY <1>1 DEF Clean
<1>3. \A i \in 1..n : t[i] \in RuleType /\ t[i].tool = table[i].tool
  BY <1>1, <1>2 DEF RuleType
<1> HIDE DEF t, n
<1>4. t \in [1..n -> RuleType]
  BY <1>2, <1>3
<1>5. t \in Seq(RuleType) /\ DOMAIN t = 1..n
  BY <1>1, <1>4
<1>6. ToolsOf(t) = ToolsOf(table) /\ (Unique(table) => Unique(t))
  BY <1>1, <1>3, <1>5 DEF ToolsOf, Unique
<1> QED
  BY <1>5, <1>6 DEF t

----------------------------------------------------------------------------
(* The sort of compileRoutes.                                              *)

LEMMA PatternCounts ==
    ASSUME NEW rule \in RuleType
    PROVE  Len(rule.pattern) \in Nat /\ Literals(rule) \in Nat
<1> DEFINE D == 1..Len(rule.pattern)
           lits == {i \in D : rule.pattern[i] # Param}
<1>1. rule.pattern \in Seq(STRING \cup {Param})
  BY DEF RuleType
<1>2. Len(rule.pattern) \in Nat /\ DOMAIN rule.pattern = D
  BY <1>1, LenProperties
<1>3. IsFiniteSet(D)
  <2>1. 1 \in Int /\ Len(rule.pattern) \in Int
    BY <1>2
  <2> QED
    BY <2>1, FS_Interval
<1>4. Cardinality(lits) \in Nat
  <2>1. lits \in SUBSET D
    OBVIOUS
  <2> HIDE DEF lits, D
  <2> QED
    BY <1>3, <2>1, FS_Subset, FS_CardinalityType
<1> QED
  BY <1>2, <1>4 DEF Literals

\* The comparison of the sort is a strict total order on the rules of a table.
LEMMA BeforeOrders ==
    ASSUME NEW table \in Seq(RuleType)
    PROVE  \A i, j, k \in 1..Len(table) :
              /\ ~Before(table, i, i)
              /\ Before(table, i, j) /\ Before(table, j, k) => Before(table, i, k)
              /\ i # j => Before(table, i, j) \/ Before(table, j, i)
              /\ ~(Before(table, i, j) /\ Before(table, j, i))
<1> SUFFICES ASSUME NEW i \in 1..Len(table), NEW j \in 1..Len(table), NEW k \in 1..Len(table)
             PROVE  /\ ~Before(table, i, i)
                    /\ Before(table, i, j) /\ Before(table, j, k) => Before(table, i, k)
                    /\ i # j => Before(table, i, j) \/ Before(table, j, i)
                    /\ ~(Before(table, i, j) /\ Before(table, j, i))
  OBVIOUS
<1> DEFINE L(m) == Len(table[m].pattern)
           K(m) == Literals(table[m])
           B(l, m, a, b, x, y) == \/ l > m
                                  \/ l = m /\ a > b
                                  \/ l = m /\ a = b /\ x < y
<1>1. \A m \in 1..Len(table) : L(m) \in Nat /\ K(m) \in Nat
  BY ToolsAt, PatternCounts
<1>2. \A x, y \in 1..Len(table) :
         Before(table, x, y) <=> B(L(x), L(y), K(x), K(y), x, y)
  BY DEF Before
<1>3. Len(table) \in Nat
  BY ToolsAt
<1>4. i \in Nat /\ j \in Nat /\ k \in Nat
  BY <1>3
<1>5. /\ L(i) \in Nat /\ L(j) \in Nat /\ L(k) \in Nat
      /\ K(i) \in Nat /\ K(j) \in Nat /\ K(k) \in Nat
  BY <1>1
<1> HIDE DEF L, K
<1>6. /\ ~B(L(i), L(i), K(i), K(i), i, i)
      /\ B(L(i), L(j), K(i), K(j), i, j) /\ B(L(j), L(k), K(j), K(k), j, k)
            => B(L(i), L(k), K(i), K(k), i, k)
      /\ i # j => B(L(i), L(j), K(i), K(j), i, j) \/ B(L(j), L(i), K(j), K(i), j, i)
      /\ ~(B(L(i), L(j), K(i), K(j), i, j) /\ B(L(j), L(i), K(j), K(i), j, i))
  BY <1>4, <1>5
<1> HIDE DEF B
<1> QED
  BY <1>2, <1>6

\* Ranks are places, and follow the order.
LEMMA RanksFollow ==
    ASSUME NEW table \in Seq(RuleType)
    PROVE  /\ \A i \in 1..Len(table) : Rank(table, i) \in 1..Len(table)
           /\ \A i, j \in 1..Len(table) : Before(table, i, j) => Rank(table, i) < Rank(table, j)
<1> DEFINE n == Len(table)
           D == 1..n
           U(i) == {j \in D : Before(table, j, i)}
<1>1. n \in Nat /\ DOMAIN table = D
  BY ToolsAt
<1>2. IsFiniteSet(D) /\ Cardinality(D) = n
  <2>1. 1 \in Int /\ n \in Int
    BY <1>1
  <2>2. IsFiniteSet(D) /\ Cardinality(D) = IF 1 > n THEN 0 ELSE n - 1 + 1
    BY <2>1, FS_Interval
  <2> HIDE DEF n
  <2> QED
    BY <1>1, <2>2
<1>3. \A i \in D : Rank(table, i) = 1 + Cardinality(U(i))
  BY <1>1 DEF Rank
<1>4. \A i \in D : U(i) \in SUBSET (D \ {i})
  BY BeforeOrders
<1>5. \A i \in D : IsFiniteSet(U(i)) /\ Cardinality(U(i)) \in Nat /\ Cardinality(U(i)) <= n - 1
  <2> SUFFICES ASSUME NEW i \in D
               PROVE  IsFiniteSet(U(i)) /\ Cardinality(U(i)) \in Nat /\ Cardinality(U(i)) <= n - 1
    OBVIOUS
  <2>1. IsFiniteSet(D \ {i}) /\ Cardinality(D \ {i}) = n - 1
    BY <1>2, FS_RemoveElement
  <2>2. U(i) \in SUBSET (D \ {i})
    BY <1>4
  <2> HIDE DEF U, D, n
  <2>3. IsFiniteSet(U(i)) /\ Cardinality(U(i)) <= Cardinality(D \ {i})
    BY <2>1, <2>2, FS_Subset
  <2> QED
    BY <2>1, <2>3, FS_CardinalityType
<1>6. ASSUME NEW i \in D
      PROVE  Rank(table, i) \in D
  <2> DEFINE u == Cardinality(U(i))
  <2>1. u \in Nat /\ u <= n - 1 /\ Rank(table, i) = 1 + u
    BY <1>3, <1>5
  <2> HIDE DEF u, n
  <2> QED
    BY <1>1, <2>1
<1>7. ASSUME NEW i \in D, NEW j \in D, Before(table, i, j)
      PROVE  Rank(table, i) < Rank(table, j)
  <2> DEFINE u == Cardinality(U(i))
             v == Cardinality(U(j))
  <2>1. U(i) \subseteq U(j)
    BY <1>7, BeforeOrders
  <2>2. i \in U(j) /\ i \notin U(i)
    BY <1>7, BeforeOrders
  <2>3. u <= v /\ u # v
    <3>1. IsFiniteSet(U(j)) /\ U(i) \in SUBSET U(j) /\ U(i) # U(j)
      BY <1>5, <2>1, <2>2
    <3> HIDE DEF U
    <3> QED
      BY <3>1, FS_Subset
  <2>4. u \in Nat /\ v \in Nat /\ Rank(table, i) = 1 + u /\ Rank(table, j) = 1 + v
    BY <1>3, <1>5
  <2> HIDE DEF u, v
  <2> QED
    BY <2>3, <2>4
<1> QED
  BY <1>6, <1>7

\* The sort permutes the rules: p gives the rule at each place, and each rule
\* has the place of its rank.
Permutes(p, table) ==
    /\ p \in [1..Len(table) -> 1..Len(table)]
    /\ Compiled(table) = [k \in 1..Len(table) |-> table[p[k]]]
    /\ \A k \in 1..Len(table) : Rank(table, p[k]) = k
    /\ \A i \in 1..Len(table) : p[Rank(table, i)] = i

LEMMA CompiledPermutes ==
    ASSUME NEW table \in Seq(RuleType)
    PROVE  \E p : Permutes(p, table)
<1> DEFINE n == Len(table)
           D == 1..n
           rank == [i \in D |-> Rank(table, i)]
           p == [k \in D |-> CHOOSE i \in D : Rank(table, i) = k]
<1>1. n \in Nat /\ DOMAIN table = D
  BY ToolsAt
<1>2. \A i \in D : Rank(table, i) \in D
  BY RanksFollow
<1>3. \A i, j \in D : Rank(table, i) = Rank(table, j) => i = j
  <2> SUFFICES ASSUME NEW i \in D, NEW j \in D, i # j
               PROVE  Rank(table, i) # Rank(table, j)
    OBVIOUS
  <2>1. Rank(table, i) < Rank(table, j) \/ Rank(table, j) < Rank(table, i)
    BY BeforeOrders, RanksFollow
  <2>2. Rank(table, i) \in Nat /\ Rank(table, j) \in Nat
    BY <1>1, <1>2
  <2> QED
    BY <2>1, <2>2
<1>4. IsFiniteSet(D)
  <2>1. 1 \in Int /\ n \in Int
    BY <1>1
  <2> QED
    BY <2>1, FS_Interval
<1>5. rank \in Injection(D, D)
  BY <1>2, <1>3 DEF Injection, IsInjective
<1>6. rank \in Surjection(D, D)
  <2> HIDE DEF rank, D
  <2> QED
    BY <1>4, <1>5, FS_Injection
<1>7. \A k \in D : \E i \in D : Rank(table, i) = k
  BY <1>6 DEF Surjection
<1>8. \A k \in D : p[k] \in D /\ Rank(table, p[k]) = k
  BY <1>7
<1>9. \A i \in D : p[Rank(table, i)] = i
  <2> SUFFICES ASSUME NEW i \in D
               PROVE  p[Rank(table, i)] = i
    OBVIOUS
  <2>1. Rank(table, i) \in D
    BY <1>2
  <2>2. p[Rank(table, i)] \in D /\ Rank(table, p[Rank(table, i)]) = Rank(table, i)
    BY <1>8, <2>1
  <2> HIDE DEF p, D
  <2> QED
    BY <1>3, <2>2
<1>10. Compiled(table) = [k \in D |-> table[p[k]]]
  BY <1>1 DEF Compiled
<1>11. p \in [D -> D]
  BY <1>8
<1> HIDE DEF p
<1> QED
  BY <1>8, <1>9, <1>10, <1>11 DEF Permutes

\* A compiled table has the rules of the table.
LEMMA CompiledIsTable ==
    ASSUME NEW table \in Seq(RuleType)
    PROVE  /\ Compiled(table) \in Seq(RuleType)
           /\ \A k \in DOMAIN Compiled(table) : Compiled(table)[k] \in RuleType
<1> DEFINE t == Compiled(table)
<1>1. PICK p : Permutes(p, table)
  BY CompiledPermutes
<1>2. t \in [1..Len(table) -> RuleType] /\ Len(table) \in Nat
  BY <1>1, ToolsAt DEF Permutes
<1> HIDE DEF t
<1>3. t \in Seq(RuleType) /\ \A k \in DOMAIN t : t[k] \in RuleType
  BY <1>2
<1> QED
  BY <1>3 DEF t

\* The first of the compiled rules that match a path, by place in the table.
BestAt(table, path) ==
    {j \in DOMAIN table :
        /\ Matches(table[j], path)
        /\ \A k \in DOMAIN table : Matches(table[k], path) =>
               \/ Literals(table[j]) > Literals(table[k])
               \/ Literals(table[j]) = Literals(table[k]) /\ j <= k}

FirstAt(table, path) ==
    LET M == {k \in DOMAIN table : Matches(table[k], path)}
    IN  {j \in M : \A k \in M : j <= k}

\* Of two rules that match the same path, the order is by literals and place.
LEMMA MatchingOrder ==
    ASSUME NEW table \in Seq(RuleType), NEW path,
           NEW i \in 1..Len(table), NEW j \in 1..Len(table),
           Matches(table[i], path), Matches(table[j], path)
    PROVE  /\ Before(table, i, j) <=>
                 \/ Literals(table[i]) > Literals(table[j])
                 \/ Literals(table[i]) = Literals(table[j]) /\ i < j
           /\ ~Before(table, j, i) <=>
                 \/ Literals(table[i]) > Literals(table[j])
                 \/ Literals(table[i]) = Literals(table[j]) /\ i <= j
<1>1. Len(table[i].pattern) = Len(table[j].pattern)
  BY DEF Matches
<1>2. /\ Literals(table[i]) \in Nat /\ Literals(table[j]) \in Nat
      /\ Len(table[i].pattern) \in Nat /\ Len(table[j].pattern) \in Nat
      /\ i \in Nat /\ j \in Nat
  BY ToolsAt, PatternCounts
<1> QED
  BY <1>1, <1>2 DEF Before

\* The first compiled rule that matches is the rule of the table that fixes
\* most segments, and of several the first one.
LEMMA FirstIsBest ==
    ASSUME NEW table \in Seq(RuleType), NEW path
    PROVE  {Compiled(table)[k] : k \in FirstAt(Compiled(table), path)}
               = {table[i] : i \in BestAt(table, path)}
<1> DEFINE t == Compiled(table)
           D == 1..Len(table)
<1>1. PICK p : Permutes(p, table)
  BY CompiledPermutes
<1>2. /\ DOMAIN table = D /\ Len(table) \in Nat
      /\ DOMAIN t = D
      /\ \A k \in D : p[k] \in D /\ t[k] = table[p[k]] /\ Rank(table, p[k]) = k
      /\ \A i \in D : Rank(table, i) \in D /\ p[Rank(table, i)] = i
  BY <1>1, ToolsAt, RanksFollow DEF Permutes
<1> HIDE DEF t, D
<1>3. ASSUME NEW k \in FirstAt(t, path)
      PROVE  k \in D /\ p[k] \in BestAt(table, path)
  <2> DEFINE i == p[k]
  <2>1. /\ k \in D /\ Matches(t[k], path)
        /\ \A m \in D : Matches(t[m], path) => k <= m
    BY <1>2 DEF FirstAt
  <2>2. i \in D /\ t[k] = table[i] /\ Rank(table, i) = k
    BY <1>2, <2>1
  <2>3. ASSUME NEW j \in D, Matches(table[j], path)
        PROVE  \/ Literals(table[i]) > Literals(table[j])
               \/ Literals(table[i]) = Literals(table[j]) /\ i <= j
    <3>1. Rank(table, j) \in D /\ t[Rank(table, j)] = table[j]
      BY <1>2
    <3>2. k <= Rank(table, j)
      BY <2>1, <2>3, <3>1
    <3>3. ~Before(table, j, i)
      <4>1. Before(table, j, i) => Rank(table, j) < Rank(table, i)
        BY <2>2, RanksFollow DEF D
      <4>2. Rank(table, j) \in Nat /\ k \in Nat
        BY <1>2, <2>1, <3>1 DEF D
      <4> QED
        BY <2>2, <3>2, <4>1, <4>2
    <3>4. Matches(table[i], path)
      BY <2>1, <2>2
    <3> HIDE DEF i
    <3> QED
      BY <2>2, <2>3, <3>3, <3>4, MatchingOrder DEF D
  <2>4. Matches(table[i], path)
    BY <2>1, <2>2
  <2> HIDE DEF i
  <2>5. i \in BestAt(table, path)
    BY <1>2, <2>2, <2>3, <2>4 DEF BestAt
  <2> QED
    BY <2>1, <2>5 DEF i
<1>4. ASSUME NEW i \in BestAt(table, path)
      PROVE  i \in D /\ Rank(table, i) \in FirstAt(t, path)
  <2> DEFINE k == Rank(table, i)
  <2>1. /\ i \in D /\ Matches(table[i], path)
        /\ \A j \in D : Matches(table[j], path) =>
               \/ Literals(table[i]) > Literals(table[j])
               \/ Literals(table[i]) = Literals(table[j]) /\ i <= j
    BY <1>2 DEF BestAt
  <2>2. k \in D /\ t[k] = table[i]
    BY <1>2, <2>1
  <2>3. ASSUME NEW m \in D, Matches(t[m], path)
        PROVE  k <= m
    <3> DEFINE j == p[m]
    <3>1. j \in D /\ t[m] = table[j] /\ Rank(table, j) = m
      BY <1>2
    <3> HIDE DEF j
    <3>2. Matches(table[j], path)
      BY <2>3, <3>1
    <3>3. ~Before(table, j, i)
      BY <2>1, <3>1, <3>2, MatchingOrder DEF D
    <3>4. i = j \/ Before(table, i, j)
      BY <2>1, <3>1, <3>3, BeforeOrders DEF D
    <3>5. k = m \/ k < m
      BY <2>1, <3>1, <3>4, RanksFollow DEF D
    <3>6. k \in Nat /\ m \in Nat
      BY <1>2, <2>2 DEF D
    <3> HIDE DEF k
    <3> QED
      BY <3>5, <3>6
  <2>4. Matches(t[k], path)
    BY <2>1, <2>2
  <2> HIDE DEF k
  <2>5. k \in FirstAt(t, path)
    BY <1>2, <2>2, <2>3, <2>4 DEF FirstAt
  <2> QED
    BY <2>1, <2>5 DEF k
<1>5. ASSUME NEW k \in FirstAt(t, path)
      PROVE  t[k] \in {table[i] : i \in BestAt(table, path)}
  BY <1>2, <1>3
<1>6. ASSUME NEW i \in BestAt(table, path)
      PROVE  table[i] \in {t[k] : k \in FirstAt(t, path)}
  <2>1. i \in D /\ Rank(table, i) \in FirstAt(t, path)
    BY <1>4
  <2>2. t[Rank(table, i)] = table[i]
    BY <1>2, <2>1
  <2> QED
    BY <2>1, <2>2
<1> QED
  BY <1>5, <1>6 DEF t

----------------------------------------------------------------------------
(* The invariant.                                                          *)

MenuTools == {r.tool : r \in Menu}

\* What an admin call has left to do, and has done, is about rules of the menu.
CallOK(call) ==
    /\ call \in CallType
    /\ call.kind # "test" =>
           call.left # <<>> /\ \A i \in DOMAIN call.left : call.left[i].tool \in MenuTools
    /\ call.added \subseteq MenuTools

CallsOK ==
    /\ DOMAIN calls = Calls
    /\ \A c \in Calls : calls[c] # Idle => up /\ CallOK(calls[c])

\* Every rule of a table may be in it.
AllVetted(table) == \A i \in DOMAIN table : Vetted(table[i])

TablesOK ==
    /\ rules \in Tables /\ AllVetted(rules)
    /\ compiled = Compiled(rules)
    /\ file # Torn => file \in Tables

\* What was acknowledged is in the table as well as in the file, and nobody
\* acknowledges the rule of the self-test.
PromisesKept ==
    /\ promised \subseteq MenuTools
    /\ up => promised \subseteq ToolsOf(rules)
    /\ AckedSurvives

RouteInv == TablesOK /\ CallsOK /\ PromisesKept

----------------------------------------------------------------------------
(* Calls and writes.                                                       *)

LEMMA MenuRules ==
    /\ \A r \in Menu : r \in RuleType /\ r.tool \in MenuTools
    /\ TestRule \in RuleType /\ TestRule.bypass /\ TestRule.tool \notin MenuTools
BY MenuAssumption DEF MenuTools

\* The next rule of a call, and those after it.
LEMMA NextRule ==
    ASSUME NEW call, CallOK(call), call.kind # "test"
    PROVE  /\ Head(call.left) \in RuleType /\ Head(call.left).tool \in MenuTools
           /\ Tail(call.left) \in Seq(RuleType)
           /\ \A i \in DOMAIN Tail(call.left) : Tail(call.left)[i].tool \in MenuTools
<1> DEFINE s == call.left
<1>1. /\ s \in Seq(RuleType) /\ s # <<>>
      /\ \A i \in DOMAIN s : s[i].tool \in MenuTools
  BY DEF CallOK, CallType
<1> HIDE DEF s
<1>2. Len(s) \in Nat /\ Len(s) # 0 /\ DOMAIN s = 1..Len(s)
  BY <1>1, LenProperties, EmptySeq
<1>3. /\ Head(s) \in RuleType /\ Tail(s) \in Seq(RuleType)
      /\ Len(Tail(s)) = Len(s) - 1
      /\ \A i \in 1..Len(Tail(s)) : Tail(s)[i] = s[i + 1]
  BY <1>1, HeadTailProperties
<1>4. Head(s).tool \in MenuTools
  <2>1. 1 \in DOMAIN s /\ Head(s) = s[1]
    BY <1>1, <1>2
  <2> QED
    BY <1>1, <2>1
<1>5. \A i \in DOMAIN Tail(s) : Tail(s)[i].tool \in MenuTools
  <2>1. DOMAIN Tail(s) = 1..Len(Tail(s))
    BY <1>3, LenProperties
  <2>2. \A i \in 1..Len(Tail(s)) : i + 1 \in DOMAIN s
    BY <1>2, <1>3
  <2> QED
    BY <1>1, <1>3, <2>1, <2>2
<1> QED
  BY <1>3, <1>4, <1>5 DEF s

LEMMA CallEnds ==
    ASSUME CallsOK, NEW c \in Calls, End(c), up' = up
    PROVE  CallsOK'
BY DEF CallsOK, End

\* A call begins: nothing else changes.
LEMMA BeginKeeps ==
    ASSUME RouteInv, NEW c \in Calls, NEW call, CallOK(call), Begin(c, call)
    PROVE  RouteInv'
<1> USE DEF RouteInv, Begin
<1>1. CallsOK'
  BY DEF CallsOK
<1>2. TablesOK'
  BY DEF TablesOK
<1>3. PromisesKept'
  BY DEF PromisesKept, AckedSurvives
<1> QED
  BY <1>1, <1>2, <1>3

\* A write of a table that has what was promised: the file then has it, and so
\* has the file that a failed write left.
LEMMA WriteKeeps ==
    ASSUME TablesOK, AckedSurvives, promised \subseteq MenuTools,
           NEW content \in Tables, NEW given, given \subseteq ToolsOf(content),
           given \subseteq MenuTools, Write(content, given)
    PROVE  /\ file' # Torn => file' \in Tables
           /\ promised' \subseteq given
           /\ promised' \subseteq MenuTools
           /\ AckedSurvives'
<1>1. CASE file' = content /\ promised' = given
  BY <1>1 DEF AckedSurvives
<1>2. CASE file' \in {file, Torn} /\ promised' = promised \cap given
  BY <1>2 DEF AckedSurvives, TablesOK
<1> QED
  BY <1>1, <1>2 DEF Write

\* addRoute accepts a table whose rules may all be in it.
LEMMA CandidateVetted ==
    ASSUME NEW table \in Tables, AllVetted(table), NEW rule \in RuleType,
           Vetted(rule) \/ Compiles(Candidate(table, rule), FALSE)
    PROVE  AllVetted(Candidate(table, rule))
<1> DEFINE t == Candidate(table, rule)
<1>1. \A i \in DOMAIN t : t[i] = rule \/ \E j \in DOMAIN table : t[i] = table[j]
  BY CandidateAdds DEF Tables
<1> HIDE DEF t
<1>2. ASSUME Vetted(rule)
      PROVE  AllVetted(t)
  BY <1>1, <1>2 DEF AllVetted
<1>3. ASSUME Compiles(t, FALSE)
      PROVE  AllVetted(t)
  BY <1>3 DEF AllVetted, Compiles
<1>4. AllVetted(t)
  BY <1>2, <1>3 DEF t
<1> QED
  BY <1>4 DEF t

\* What an addition makes of a good table.
LEMMA AdditionKeeps ==
    ASSUME NEW table \in Tables, AllVetted(table), NEW rule \in RuleType,
           Vetted(rule) \/ Compiles(Candidate(table, rule), FALSE)
    PROVE  /\ Candidate(table, rule) \in Tables /\ AllVetted(Candidate(table, rule))
           /\ ToolsOf(Candidate(table, rule)) = ToolsOf(table) \cup {rule.tool}
BY CandidateAdds, CandidateVetted DEF Tables

\* What a removal makes of a good table.
LEMMA RemovalKeeps ==
    ASSUME NEW table \in Tables, AllVetted(table), NEW tool
    PROVE  /\ Without(table, tool) \in Tables /\ AllVetted(Without(table, tool))
           /\ ToolsOf(table) \ {tool} \subseteq ToolsOf(Without(table, tool))
<1> DEFINE t == Without(table, tool)
<1>1. /\ t \in Seq(RuleType) /\ Unique(t)
      /\ ToolsOf(table) \ {tool} \subseteq ToolsOf(t)
      /\ \A i \in DOMAIN t : \E j \in DOMAIN table : t[i] = table[j]
  BY WithoutRemoves DEF Tables
<1> HIDE DEF t
<1>2. t \in Tables /\ AllVetted(t)
  BY <1>1 DEF Tables, AllVetted
<1> QED
  BY <1>1, <1>2 DEF t

\* The empty table is a good one.
LEMMA NoRules ==
    /\ <<>> \in Tables /\ AllVetted(<<>>)
    /\ Compiled(<<>>) = <<>>
<1>1. <<>> \in Seq(RuleType) /\ DOMAIN <<>> = {}
  OBVIOUS
<1>2. <<>> \in Tables /\ AllVetted(<<>>)
  BY <1>1 DEF Tables, Unique, AllVetted
<1> DEFINE t == Compiled(<<>>)
<1>3. t \in Seq(RuleType)
  BY <1>1, CompiledIsTable
<1>4. DOMAIN t = {}
  BY <1>1 DEF Compiled
<1> HIDE DEF t
<1>5. Len(t) = 0
  <2>1. Len(t) \in Nat /\ DOMAIN t = 1..Len(t)
    BY <1>3, LenProperties
  <2>2. 1 \notin 1..Len(t)
    BY <1>4, <2>1
  <2> QED
    BY <2>1, <2>2
<1>6. t = <<>>
  BY <1>3, <1>5, EmptySeq
<1> QED
  BY <1>2, <1>6 DEF t

----------------------------------------------------------------------------
(* Every step keeps the invariant.                                         *)

LEMMA InitRoutes ==
    ASSUME Init
    PROVE  RouteInv
<1> USE DEF Init
<1>1. PICK m \in 0..MaxFile : file \in [1..m -> Menu]
  BY DEF SeqOf
<1>2. /\ file \in Seq(RuleType)
      /\ \A i \in DOMAIN file : file[i] \in Menu
  <2>1. m \in Nat /\ \A i \in 1..m : file[i] \in RuleType
    BY <1>1, MenuRules, BoundsAssumption
  <2>2. file \in [1..m -> RuleType]
    BY <1>1, <2>1
  <2> QED
    BY <1>1, <2>1, <2>2
<1>3. file \in Tables
  BY <1>2 DEF Tables, Unique
<1>4. TablesOK
  BY <1>3, NoRules DEF TablesOK
<1>5. CallsOK
  BY DEF CallsOK
<1>6. PromisesKept
  BY <1>2, MenuRules DEF PromisesKept, AckedSurvives, ToolsOf
<1> QED
  BY <1>4, <1>5, <1>6 DEF RouteInv

LEMMA BootKeeps ==
    ASSUME RouteInv, NEW wrapped, Boot(wrapped),
           wrapped \in SUBSET (IF file = Torn THEN {} ELSE ToolsOf(file))
    PROVE  RouteInv'
<1> USE DEF RouteInv
<1> DEFINE base == Clean(file)
           t == FoldLeft(Without, base, SetToSeq(wrapped))
<1>1. /\ file # Torn /\ Compiles(base, FALSE)
      /\ up' = TRUE /\ rules' = t /\ compiled' = Compiled(t)
      /\ promised' = promised \ wrapped
      /\ UNCHANGED <<file, calls>>
  BY DEF Boot, Loads, Install
<1>2. file \in Seq(RuleType) /\ Unique(file)
  BY <1>1 DEF TablesOK, Tables
<1>3. base \in Tables /\ ToolsOf(base) = ToolsOf(file)
  BY <1>2, CleanKeeps DEF Tables
<1>4. IsFiniteSet(wrapped)
  <2>1. wrapped \in SUBSET ToolsOf(file)
    BY <1>1
  <2> QED
    BY <1>2, <2>1, ToolsFinite, FS_Subset
<1> HIDE DEF base
<1>5. t \in Leaves(base, wrapped)
  BY <1>3, <1>4, StartLeaves
<1> HIDE DEF t
<1>6. /\ t \in Tables /\ ToolsOf(base) \ wrapped \subseteq ToolsOf(t)
      /\ \A i \in DOMAIN t : \E j \in DOMAIN base : t[i] = base[j]
  BY <1>5 DEF Leaves
<1>7. AllVetted(t)
  BY <1>1, <1>6 DEF AllVetted, Compiles
<1>8. TablesOK'
  BY <1>1, <1>6, <1>7 DEF TablesOK
<1>9. CallsOK'
  BY <1>1 DEF CallsOK
<1>10. PromisesKept'
  BY <1>1, <1>3, <1>6 DEF PromisesKept, AckedSurvives
<1> QED
  BY <1>8, <1>9, <1>10

LEMMA CrashKeeps ==
    ASSUME RouteInv, Crash
    PROVE  RouteInv'
<1> USE DEF RouteInv, Crash
<1>1. TablesOK'
  BY NoRules DEF TablesOK
<1>2. CallsOK'
  BY DEF CallsOK
<1>3. PromisesKept'
  BY DEF PromisesKept, AckedSurvives
<1> QED
  BY <1>1, <1>2, <1>3

\* A table is installed and written, which promises "given".
LEMMA SaveKeeps ==
    ASSUME RouteInv, NEW table \in Tables, AllVetted(table), Install(table),
           NEW content \in Tables, ToolsOf(content) = ToolsOf(table),
           NEW given, given \subseteq ToolsOf(table), given \subseteq MenuTools,
           Write(content, given), CallsOK'
    PROVE  RouteInv'
<1>1. /\ file' # Torn => file' \in Tables
      /\ promised' \subseteq given /\ promised' \subseteq MenuTools /\ AckedSurvives'
  BY WriteKeeps DEF RouteInv, PromisesKept
<1>2. rules' = table /\ compiled' = Compiled(table)
  BY DEF Install
<1>3. TablesOK'
  BY <1>1, <1>2 DEF TablesOK
<1>4. PromisesKept'
  BY <1>1, <1>2 DEF PromisesKept
<1> QED
  BY <1>3, <1>4 DEF RouteInv

\* A table is installed that has what was promised; the file stays.
LEMMA InstallKeeps ==
    ASSUME RouteInv, NEW table \in Tables, AllVetted(table), Install(table),
           file' = file, promised' \subseteq promised, promised' \subseteq ToolsOf(table),
           CallsOK'
    PROVE  RouteInv'
<1>1. rules' = table /\ compiled' = Compiled(table)
  BY DEF Install
<1>2. TablesOK'
  BY <1>1 DEF RouteInv, TablesOK
<1>3. PromisesKept'
  BY <1>1 DEF RouteInv, PromisesKept, AckedSurvives
<1> QED
  BY <1>2, <1>3 DEF RouteInv

\* Nothing but the calls changes.
LEMMA CallsChange ==
    ASSUME RouteInv, UNCHANGED <<up, rules, compiled, file, promised>>, CallsOK'
    PROVE  RouteInv'
<1>1. TablesOK'
  BY DEF RouteInv, TablesOK
<1>2. PromisesKept'
  BY DEF RouteInv, PromisesKept, AckedSurvives
<1> QED
  BY <1>1, <1>2 DEF RouteInv

LEMMA PostAddsKeeps ==
    ASSUME RouteInv, NEW c \in Calls, PostAdds(c)
    PROVE  RouteInv'
<1> DEFINE rule == Head(calls[c].left)
           table == Candidate(rules, rule)
<1>1. up /\ CallOK(calls[c]) /\ calls[c].kind = "post"
  BY DEF PostAdds, RouteInv, CallsOK
<1>2. rule \in RuleType /\ rule.tool \in MenuTools
  BY <1>1, NextRule
<1>3. CallsOK'
  BY CallEnds DEF PostAdds, RouteInv
<1> HIDE DEF rule
<1>4. CASE Compiles(table, rule.bypass)
  <2>1. Install(table) /\ Write(table, promised \cup {rule.tool})
    BY <1>4 DEF PostAdds, Answered, rule
  <2>2. Vetted(rule) \/ Compiles(table, FALSE)
    BY <1>4 DEF Vetted, Compiles
  <2>3. rules \in Tables /\ AllVetted(rules)
    BY DEF RouteInv, TablesOK
  <2>4. table \in Tables /\ AllVetted(table) /\ ToolsOf(table) = ToolsOf(rules) \cup {rule.tool}
    BY <1>2, <2>2, <2>3, AdditionKeeps
  <2>5. /\ promised \cup {rule.tool} \subseteq ToolsOf(table)
        /\ promised \cup {rule.tool} \subseteq MenuTools
    BY <1>1, <1>2, <2>4 DEF RouteInv, PromisesKept
  <2> HIDE DEF table
  <2> QED
    BY <1>3, <2>1, <2>4, <2>5, SaveKeeps
<1>5. CASE ~Compiles(table, rule.bypass)
  <2>1. UNCHANGED <<up, rules, compiled, file, promised>>
    BY <1>5 DEF PostAdds, Refused, rule
  <2> QED
    BY <1>3, <2>1, CallsChange
<1> QED
  BY <1>4, <1>5

LEMMA PostWrappedKeeps ==
    ASSUME RouteInv, NEW c \in Calls, PostWrapped(c)
    PROVE  RouteInv'
<1>1. CallsOK'
  BY CallEnds DEF PostWrapped, RouteInv
<1>2. UNCHANGED <<up, rules, compiled, file, promised>>
  BY DEF PostWrapped, Refused
<1> QED
  BY <1>1, <1>2, CallsChange

LEMMA ImportNextKeeps ==
    ASSUME RouteInv, NEW c \in Calls, NEW wrapped \in BOOLEAN, ImportNext(c, wrapped)
    PROVE  RouteInv'
<1> DEFINE rule == Head(calls[c].left)
           rest == Tail(calls[c].left)
           adds == ~wrapped /\ Compiles(Candidate(rules, rule), FALSE)
           table == IF adds THEN Candidate(rules, rule) ELSE rules
           added == calls[c].added \cup (IF adds THEN {rule.tool} ELSE {})
           given == promised \cup (added \cap ToolsOf(table))
<1>1. up /\ CallOK(calls[c]) /\ calls[c].kind = "import" /\ UNCHANGED up
  BY DEF ImportNext, RouteInv, CallsOK
<1>2. /\ rule \in RuleType /\ rule.tool \in MenuTools
      /\ rest \in Seq(RuleType)
      /\ \A i \in DOMAIN rest : rest[i].tool \in MenuTools
  BY <1>1, NextRule
<1>3. /\ rules' = table
      /\ compiled' = IF adds THEN Compiled(table) ELSE compiled
      /\ IF rest = <<>>
         THEN Write(Clean(table), given) /\ End(c)
         ELSE /\ calls' = [calls EXCEPT ![c].left = rest, ![c].added = added]
              /\ UNCHANGED <<file, promised>>
  BY DEF ImportNext
<1> HIDE DEF rule, rest
<1>4. rules \in Tables /\ AllVetted(rules) /\ compiled = Compiled(rules)
  BY DEF RouteInv, TablesOK
<1>5. /\ table \in Tables /\ AllVetted(table)
      /\ ToolsOf(rules) \subseteq ToolsOf(table)
  <2>1. CASE adds
    BY <1>2, <1>4, <2>1, AdditionKeeps
  <2>2. CASE ~adds
    BY <1>4, <2>2
  <2> QED
    BY <2>1, <2>2
<1>6. Install(table)
  BY <1>3, <1>4 DEF Install
<1>7. added \subseteq MenuTools
  BY <1>1, <1>2 DEF CallOK
<1> HIDE DEF adds, table, added
<1>8. promised \subseteq ToolsOf(table) /\ promised \subseteq MenuTools
  BY <1>1, <1>5 DEF RouteInv, PromisesKept
<1>9. CASE rest = <<>>
  <2>1. CallsOK'
    BY <1>1, <1>3, <1>9, CallEnds DEF RouteInv
  <2>2. Clean(table) \in Tables /\ ToolsOf(Clean(table)) = ToolsOf(table)
    BY <1>5, CleanKeeps DEF Tables
  <2>3. given \subseteq ToolsOf(table) /\ given \subseteq MenuTools
    BY <1>7, <1>8
  <2>4. Write(Clean(table), given)
    BY <1>3, <1>9
  <2> HIDE DEF given
  <2> QED
    BY <1>5, <1>6, <2>1, <2>2, <2>3, <2>4, SaveKeeps
<1>10. CASE rest # <<>>
  <2> DEFINE call == [calls[c] EXCEPT !.left = rest, !.added = added]
  <2>1. calls' = [calls EXCEPT ![c] = call] /\ UNCHANGED <<file, promised>>
    BY <1>3, <1>10
  <2>2. /\ call \in CallType /\ call.left = rest /\ call.added = added
        /\ call.kind = calls[c].kind
    <3>1. added \in SUBSET STRING
      <4>1. MenuTools \subseteq STRING
        BY MenuRules DEF MenuTools, RuleType
      <4> QED
        BY <1>7, <4>1
    <3> QED
      BY <1>1, <1>2, <3>1 DEF CallOK, CallType
  <2> HIDE DEF call
  <2>3. CallOK(call)
    BY <1>1, <1>2, <1>7, <1>10, <2>2 DEF CallOK
  <2>4. CallsOK'
    BY <1>1, <2>1, <2>3 DEF RouteInv, CallsOK
  <2> QED
    BY <1>5, <1>6, <1>8, <2>1, <2>4, InstallKeeps
<1> QED
  BY <1>9, <1>10

LEMMA SelfTestAddsKeeps ==
    ASSUME RouteInv, NEW c \in Calls, SelfTestAdds(c)
    PROVE  RouteInv'
<1> DEFINE table == Candidate(rules, TestRule)
           call == [calls[c] EXCEPT !.left = <<>>]
<1>1. up /\ CallOK(calls[c]) /\ calls[c].kind = "test" /\ UNCHANGED <<up, file, promised>>
  BY DEF SelfTestAdds, RouteInv, CallsOK
<1>2. Install(table) /\ calls' = [calls EXCEPT ![c] = call]
  BY DEF SelfTestAdds
<1>3. CallOK(call)
  <2>1. call \in CallType /\ call.kind = "test" /\ call.added = calls[c].added
    BY <1>1, EmptySeq DEF CallOK, CallType
  <2> HIDE DEF call
  <2> QED
    BY <1>1, <2>1 DEF CallOK
<1> HIDE DEF call
<1>4. CallsOK'
  BY <1>1, <1>2, <1>3 DEF RouteInv, CallsOK
<1>5. rules \in Tables /\ AllVetted(rules)
  BY DEF RouteInv, TablesOK
<1>6. TestRule \in RuleType /\ Vetted(TestRule)
  BY MenuRules DEF Vetted
<1>7. table \in Tables /\ AllVetted(table) /\ ToolsOf(rules) \subseteq ToolsOf(table)
  BY <1>5, <1>6, AdditionKeeps
<1> HIDE DEF table
<1>8. promised' \subseteq promised /\ promised' \subseteq ToolsOf(table)
  BY <1>1, <1>7 DEF RouteInv, PromisesKept
<1> QED
  BY <1>1, <1>2, <1>4, <1>7, <1>8, InstallKeeps

LEMMA SelfTestEndsKeeps ==
    ASSUME RouteInv, NEW c \in Calls, SelfTestEnds(c)
    PROVE  RouteInv'
<1> DEFINE table == Without(rules, TestRule.tool)
<1>1. up /\ UNCHANGED <<up, file, promised>>
  BY DEF SelfTestEnds, RouteInv, CallsOK
<1>2. CallsOK'
  BY CallEnds DEF SelfTestEnds, RouteInv
<1>3. CASE TestRule.tool \in ToolsOf(rules)
  <2>1. rules \in Tables /\ AllVetted(rules)
    BY DEF RouteInv, TablesOK
  <2>2. /\ table \in Tables /\ AllVetted(table)
        /\ ToolsOf(rules) \ {TestRule.tool} \subseteq ToolsOf(table)
    BY <2>1, RemovalKeeps
  <2>3. Install(table)
    BY <1>3 DEF SelfTestEnds
  <2> HIDE DEF table
  <2>4. promised' \subseteq promised /\ promised' \subseteq ToolsOf(table)
    BY <1>1, <2>2, MenuRules DEF RouteInv, PromisesKept
  <2> QED
    BY <1>1, <1>2, <2>2, <2>3, <2>4, InstallKeeps
<1>4. CASE TestRule.tool \notin ToolsOf(rules)
  <2>1. UNCHANGED <<up, rules, compiled, file, promised>>
    BY <1>4 DEF SelfTestEnds
  <2> QED
    BY <1>2, <2>1, CallsChange
<1> QED
  BY <1>3, <1>4

LEMMA DeleteKeeps ==
    ASSUME RouteInv, NEW tool, Delete(tool)
    PROVE  RouteInv'
<1> DEFINE table == Without(rules, tool)
<1>1. up /\ UNCHANGED <<up, calls>> /\ Install(table) /\ Write(table, promised \ {tool})
  BY DEF Delete, Edited, Answered
<1>2. CallsOK'
  BY <1>1 DEF RouteInv, CallsOK
<1>3. rules \in Tables /\ AllVetted(rules)
  BY DEF RouteInv, TablesOK
<1>4. table \in Tables /\ AllVetted(table) /\ ToolsOf(rules) \ {tool} \subseteq ToolsOf(table)
  BY <1>3, RemovalKeeps
<1> HIDE DEF table
<1>5. promised \ {tool} \subseteq ToolsOf(table) /\ promised \ {tool} \subseteq MenuTools
  BY <1>1, <1>4 DEF RouteInv, PromisesKept
<1> QED
  BY <1>1, <1>2, <1>4, <1>5, SaveKeeps

LEMMA PutKeeps ==
    ASSUME RouteInv, NEW tool, NEW price \in Prices, NEW backend \in Backends,
           Put(tool, price, backend)
    PROVE  RouteInv'
<1> DEFINE i == CHOOSE i \in DOMAIN rules : rules[i].tool = tool
           rest == Without(rules, tool)
           rule == [rules[i] EXCEPT !.price = price, !.backend = backend]
           table == Candidate(rest, rule)
<1>1. up /\ UNCHANGED <<up, calls>> /\ tool \in ToolsOf(rules)
  BY DEF Put, Edited
<1>2. IF Compiles(table, FALSE)
      THEN Install(table) /\ Write(Clean(table), promised)
      ELSE Install(rest) /\ promised' = promised \ {tool} /\ UNCHANGED file
  BY DEF Put, Answered, Refused
<1>3. rules \in Tables /\ AllVetted(rules)
  BY DEF RouteInv, TablesOK
<1>4. i \in DOMAIN rules /\ rules[i].tool = tool
  BY <1>1 DEF ToolsOf
<1> HIDE DEF i
<1>5. rule \in RuleType /\ rule.tool = tool
  <2>1. rules[i] \in RuleType
    BY <1>3, <1>4, ToolsAt DEF Tables
  <2>2. FALSE \in BOOLEAN
    OBVIOUS
  <2> QED
    BY <1>4, <2>1, <2>2, RuleEdits
<1>6. /\ rest \in Tables /\ AllVetted(rest)
      /\ ToolsOf(rules) \ {tool} \subseteq ToolsOf(rest)
  BY <1>3, RemovalKeeps
<1>7. CallsOK'
  BY <1>1 DEF RouteInv, CallsOK
<1> HIDE DEF rest, rule
<1>8. CASE Compiles(table, FALSE)
  <2>1. /\ table \in Tables /\ AllVetted(table)
        /\ ToolsOf(table) = ToolsOf(rest) \cup {tool}
    BY <1>5, <1>6, <1>8, AdditionKeeps
  <2>2. Install(table) /\ Write(Clean(table), promised)
    BY <1>2, <1>8
  <2> HIDE DEF table
  <2>3. Clean(table) \in Tables /\ ToolsOf(Clean(table)) = ToolsOf(table)
    BY <2>1, CleanKeeps DEF Tables
  <2>4. promised \subseteq ToolsOf(table) /\ promised \subseteq MenuTools
    BY <1>1, <1>6, <2>1 DEF RouteInv, PromisesKept
  <2> QED
    BY <1>7, <2>1, <2>2, <2>3, <2>4, SaveKeeps
<1>9. CASE ~Compiles(table, FALSE)
  <2>1. Install(rest) /\ promised' = promised \ {tool} /\ UNCHANGED file
    BY <1>2, <1>9
  <2>2. promised' \subseteq promised /\ promised' \subseteq ToolsOf(rest)
    BY <1>1, <1>6, <2>1 DEF RouteInv, PromisesKept
  <2> QED
    BY <1>6, <1>7, <2>1, <2>2, InstallKeeps
<1> QED
  BY <1>8, <1>9

LEMMA NextKeepsRoutes ==
    ASSUME RouteInv, [Next]_vars
    PROVE  RouteInv'
<1>1. ASSUME NEW c \in Calls, NEW rule \in Menu, NEW bypass \in BOOLEAN, Post(c, rule, bypass)
      PROVE  RouteInv'
  <2> DEFINE r == [rule EXCEPT !.bypass = bypass]
             call == [kind |-> "post", left |-> <<r>>, added |-> {}]
  <2>1. r \in RuleType /\ r.tool \in MenuTools
    <3>1. rule \in RuleType /\ rule.tool \in MenuTools
      BY MenuRules
    <3>2. r \in RuleType /\ r.tool = rule.tool
      BY <3>1 DEF RuleType
    <3> QED
      BY <3>1, <3>2
  <2>2. Begin(c, call)
    BY <1>1 DEF Post
  <2> HIDE DEF r
  <2>3. CallOK(call)
    BY <2>1 DEF CallOK, CallType
  <2> HIDE DEF call
  <2> QED
    BY <2>2, <2>3, BeginKeeps
<1>2. ASSUME NEW c \in Calls, NEW r \in Menu, NEW s \in Menu, NEW price \in Prices,
             Import(c, <<r, s>>, price)
      PROVE  RouteInv'
  <2> DEFINE batch == <<r, s>>
             left == [i \in DOMAIN batch |-> [batch[i] EXCEPT !.price = price]]
             call == [kind |-> "import", left |-> left, added |-> {}]
  <2>1. CallOK(call)
    <3>1. DOMAIN left = 1..2 /\ \A i \in 1..2 : batch[i] \in Menu
      OBVIOUS
    <3>2. \A rule \in Menu :
             /\ [rule EXCEPT !.price = price] \in RuleType
             /\ [rule EXCEPT !.price = price].tool \in MenuTools
      <4>1. \A rule \in RuleType :
               /\ [rule EXCEPT !.price = price] \in RuleType
               /\ [rule EXCEPT !.price = price].tool = rule.tool
        BY DEF RuleType
      <4> QED
        BY <4>1, MenuRules
    <3>3. \A i \in 1..2 : left[i] = [batch[i] EXCEPT !.price = price]
      BY <3>1
    <3> HIDE DEF batch
    <3>4. \A i \in 1..2 : left[i] \in RuleType /\ left[i].tool \in MenuTools
      BY <3>1, <3>2, <3>3
    <3>5. left \in Seq(RuleType) /\ left # <<>>
      <4>1. left \in [1..2 -> RuleType]
        BY <3>1, <3>4
      <4>2. 1 \in DOMAIN left
        BY <3>1
      <4> HIDE DEF left
      <4>3. left \in Seq(RuleType)
        BY <4>1
      <4>4. left # <<>>
        BY <4>2
      <4> QED
        BY <4>3, <4>4
    <3> HIDE DEF left
    <3> QED
      BY <3>1, <3>4, <3>5 DEF CallOK, CallType
  <2>2. Begin(c, call)
    BY <1>2 DEF Import
  <2> HIDE DEF call
  <2> QED
    BY <2>1, <2>2, BeginKeeps
<1>3. ASSUME NEW c \in Calls, SelfTest(c)
      PROVE  RouteInv'
  <2> DEFINE call == [kind |-> "test", left |-> <<TestRule>>, added |-> {}]
  <2>1. CallOK(call)
    BY MenuRules DEF CallOK, CallType
  <2>2. Begin(c, call)
    BY <1>3 DEF SelfTest
  <2> HIDE DEF call
  <2> QED
    BY <2>1, <2>2, BeginKeeps
<1>4. CASE UNCHANGED vars
  <2>1. CallsOK'
    BY <1>4 DEF vars, RouteInv, CallsOK
  <2> QED
    BY <1>4, <2>1, CallsChange DEF vars
<1> QED
  BY <1>1, <1>2, <1>3, <1>4, BootKeeps, CrashKeeps, PostAddsKeeps, PostWrappedKeeps,
     ImportNextKeeps, SelfTestAddsKeeps, SelfTestEndsKeeps, DeleteKeeps, PutKeeps DEF Next

\* The table keeps the invariant, whatever admins, probes, failed writes and
\* restarts do.
THEOREM RouteInvHolds == Spec => []RouteInv
BY InitRoutes, NextKeepsRoutes, PTL DEF Spec

\* addRoute and removeRoute leave one rule per tool, however the calls that
\* probe at the same time interleave.
THEOREM OneRulePerToolHolds == Spec => []OneRulePerTool
<1>1. RouteInv => OneRulePerTool
  BY DEF RouteInv, TablesOK, Tables, Unique, OneRulePerTool
<1> QED
  BY <1>1, RouteInvHolds, PTL

\* No accepted or refused edit, and no start, leaves a private backend in the
\* table that no admin let past the SSRF check.
THEOREM OnlyVettedBackendsHolds == Spec => []OnlyVettedBackends
<1>1. RouteInv => OnlyVettedBackends
  BY DEF RouteInv, TablesOK, AllVetted, OnlyVettedBackends
<1> QED
  BY <1>1, RouteInvHolds, PTL

\* A route that was acknowledged and written stays in the file until an edit
\* or a start takes it away.
THEOREM AckedSurvivesHolds == Spec => []AckedSurvives
<1>1. RouteInv => AckedSurvives
  BY DEF RouteInv, PromisesKept
<1> QED
  BY <1>1, RouteInvHolds, PTL

\* matchRule on the compiled table finds the rule of the current table that
\* fixes most segments of the request, the first one of several.
THEOREM RoutedToMostSpecificHolds == Spec => []RoutedToMostSpecific
<1>1. ASSUME RouteInv, NEW path
      PROVE  MatchRule(path) = {rules[i] : i \in BestAt(rules, path)}
  <2>1. rules \in Seq(RuleType) /\ compiled = Compiled(rules)
    BY <1>1 DEF RouteInv, TablesOK, Tables
  <2>2. MatchRule(path) = {compiled[k] : k \in FirstAt(compiled, path)}
    BY DEF MatchRule, FirstAt
  <2>3. {Compiled(rules)[k] : k \in FirstAt(Compiled(rules), path)}
            = {rules[i] : i \in BestAt(rules, path)}
    BY <2>1, FirstIsBest
  <2> QED
    BY <2>1, <2>2, <2>3
<1>2. RouteInv => RoutedToMostSpecific
  BY <1>1 DEF RoutedToMostSpecific, BestAt
<1> QED
  BY <1>2, RouteInvHolds, PTL

----------------------------------------------------------------------------
(* Types.  Beyond the invariant: an error answers a call that was counted, *)
(* so there are never more of them than calls.                             *)

Pending == {c \in Calls : calls[c] # Idle}

CountInv ==
    /\ edits \in 0..MaxEdits /\ refused \in Nat
    /\ DOMAIN calls = Calls
    /\ IsFiniteSet(Pending)
    /\ refused + Cardinality(Pending) <= edits

\* The effects a step has on the counts.
LEMMA CountsMove ==
    ASSUME CountInv, DOMAIN calls' = Calls, refused' \in Nat, edits' \in 0..MaxEdits,
           NEW c \in Calls,
           \/ Pending' \subseteq Pending /\ refused' = refused /\ edits' = edits
           \/ Pending' \subseteq Pending \cup {c} /\ refused' = refused /\ edits' = edits + 1
           \/ Pending' \subseteq Pending /\ refused' <= refused + 1 /\ edits' = edits + 1
           \/ /\ c \in Pending /\ Pending' \subseteq Pending \ {c}
              /\ refused' <= refused + 1 /\ edits' = edits
    PROVE  CountInv'
<1> DEFINE P == Pending
           Q == Pending'
<1>1. IsFiniteSet(P) /\ Cardinality(P) \in Nat
  BY FS_CardinalityType DEF CountInv
<1>2. /\ IsFiniteSet(P \cup {c}) /\ Cardinality(P \cup {c}) <= Cardinality(P) + 1
      /\ IsFiniteSet(P \ {c})
      /\ c \in P => Cardinality(P \ {c}) = Cardinality(P) - 1
  <2> HIDE DEF P
  <2>1. /\ IsFiniteSet(P \cup {c})
        /\ Cardinality(P \cup {c}) = IF c \in P THEN Cardinality(P) ELSE Cardinality(P) + 1
    BY <1>1, FS_AddElement
  <2>2. /\ IsFiniteSet(P \ {c})
        /\ Cardinality(P \ {c}) = IF c \in P THEN Cardinality(P) - 1 ELSE Cardinality(P)
    BY <1>1, FS_RemoveElement
  <2> QED
    BY <1>1, <2>1, <2>2
<1>3. \A U : IsFiniteSet(U) /\ Q \subseteq U =>
          IsFiniteSet(Q) /\ Cardinality(Q) \in Nat /\ Cardinality(Q) <= Cardinality(U)
  <2> HIDE DEF Q
  <2> QED
    BY FS_Subset, FS_CardinalityType
<1> DEFINE p == Cardinality(P)
           q == Cardinality(Q)
<1>4. /\ p \in Nat /\ refused \in Nat /\ edits \in Nat /\ edits' \in Nat /\ refused + p <= edits
  BY <1>1, BoundsAssumption DEF CountInv
<1>5. /\ IsFiniteSet(Q) /\ q \in Nat
      /\ \/ q <= p /\ refused' = refused /\ edits' = edits
         \/ q <= p + 1 /\ refused' = refused /\ edits' = edits + 1
         \/ q <= p /\ refused' <= refused + 1 /\ edits' = edits + 1
         \/ q <= p - 1 /\ refused' <= refused + 1 /\ edits' = edits
  <2>1. Cardinality(P \cup {c}) \in Nat
    BY <1>2, FS_CardinalityType
  <2>2. CASE Q \subseteq P /\ refused' = refused /\ edits' = edits
    BY <1>1, <1>3, <2>2
  <2>3. CASE Q \subseteq P \cup {c} /\ refused' = refused /\ edits' = edits + 1
    <3>1. IsFiniteSet(Q) /\ q \in Nat /\ q <= Cardinality(P \cup {c})
      BY <1>2, <1>3, <2>3
    <3> HIDE DEF P, Q, q
    <3> QED
      BY <1>1, <1>2, <2>1, <2>3, <3>1
  <2>4. CASE Q \subseteq P /\ refused' <= refused + 1 /\ edits' = edits + 1
    BY <1>1, <1>3, <2>4
  <2>5. CASE c \in P /\ Q \subseteq P \ {c} /\ refused' <= refused + 1 /\ edits' = edits
    BY <1>2, <1>3, <2>5
  <2> QED
    BY <2>2, <2>3, <2>4, <2>5
<1> HIDE DEF p, q
<1>6. refused' + q <= edits'
  <2>1. \A r, s, n, m, e, f \in Nat :
           /\ r + n <= e
           /\ \/ m <= n /\ s = r /\ f = e
              \/ m <= n + 1 /\ s = r /\ f = e + 1
              \/ m <= n /\ s <= r + 1 /\ f = e + 1
              \/ m <= n - 1 /\ s <= r + 1 /\ f = e
           => s + m <= f
    OBVIOUS
  <2>2. refused' \in Nat
    OBVIOUS
  <2> QED
    BY <1>4, <1>5, <2>1, <2>2
<1> QED
  BY <1>5, <1>6 DEF CountInv, q

LEMMA InitCounts ==
    ASSUME Init
    PROVE  CountInv
<1>1. Pending = {}
  BY DEF Init, Pending
<1>2. IsFiniteSet(Pending) /\ Cardinality(Pending) = 0
  BY <1>1, FS_EmptySet
<1> QED
  BY <1>2, BoundsAssumption DEF Init, CountInv

\* A call begins, ends, or goes on.
LEMMA PendingMoves ==
    ASSUME DOMAIN calls = Calls, NEW c \in Calls, NEW call
    PROVE  /\ calls' = [calls EXCEPT ![c] = call] =>
                 DOMAIN calls' = Calls /\ Pending' \subseteq Pending \cup {c}
           /\ calls' = [calls EXCEPT ![c] = Idle] =>
                 DOMAIN calls' = Calls /\ Pending' \subseteq Pending \ {c}
BY DEF Pending

LEMMA NextKeepsCounts ==
    ASSUME CountInv, [Next]_vars
    PROVE  CountInv'
<1> USE DEF CountInv
<1>0. edits \in Nat /\ (edits < MaxEdits => edits + 1 \in 0..MaxEdits) /\ refused + 1 \in Nat
  BY BoundsAssumption
<1>1. ASSUME NEW c \in Calls, NEW call, Begin(c, call)
      PROVE  CountInv'
  <2>1. DOMAIN calls' = Calls /\ Pending' \subseteq Pending \cup {c}
    BY <1>1, PendingMoves DEF Begin
  <2>2. refused' = refused /\ edits' = edits + 1 /\ edits' \in 0..MaxEdits
    BY <1>0, <1>1 DEF Begin
  <2> QED
    BY <2>1, <2>2, CountsMove
<1>2. ASSUME NEW c \in Calls, calls[c] # Idle, End(c), UNCHANGED edits,
             refused' \in {refused, refused + 1}
      PROVE  CountInv'
  <2>1. DOMAIN calls' = Calls /\ c \in Pending /\ Pending' \subseteq Pending \ {c}
    BY <1>2, PendingMoves DEF End, Pending
  <2>2. refused' \in Nat /\ refused' <= refused + 1 /\ edits' = edits
    BY <1>0, <1>2
  <2> QED
    BY <2>1, <2>2, CountsMove
<1>3. ASSUME NEW c \in Calls, NEW call, calls[c] # Idle,
             calls' = [calls EXCEPT ![c] = call], UNCHANGED <<edits, refused>>
      PROVE  CountInv'
  <2>1. DOMAIN calls' = Calls /\ Pending' \subseteq Pending
    BY <1>3 DEF Pending
  <2> QED
    BY <1>3, <2>1, CountsMove
<1>4. ASSUME Edited, refused' \in {refused, refused + 1}
      PROVE  CountInv'
  <2>1. UNCHANGED calls /\ edits' = edits + 1 /\ edits' \in 0..MaxEdits
    BY <1>0, <1>4 DEF Edited
  <2>2. Pending' = Pending
    BY <2>1 DEF Pending
  <2>3. refused' \in Nat /\ refused' <= refused + 1
    BY <1>0, <1>4
  <2>4. refused' + Cardinality(Pending') <= edits'
    BY <1>0, <2>1, <2>2, <2>3, FS_CardinalityType
  <2> QED
    BY <2>1, <2>2, <2>3, <2>4
<1>5. CASE UNCHANGED <<calls, edits, refused>>
  BY <1>5 DEF Pending
<1>6. CASE Crash
  <2>1. Pending' = {} /\ DOMAIN calls' = Calls /\ UNCHANGED <<edits, refused>>
    BY <1>6 DEF Crash, Pending
  <2>2. IsFiniteSet(Pending') /\ Cardinality(Pending') = 0
    BY <2>1, FS_EmptySet
  <2>3. Cardinality(Pending) \in Nat
    BY FS_CardinalityType
  <2>4. refused' + Cardinality(Pending') <= edits'
    BY <1>0, <2>1, <2>2, <2>3
  <2> QED
    BY <2>1, <2>2, <2>4
<1>7. ASSUME NEW wrapped, Boot(wrapped)
      PROVE  CountInv'
  BY <1>5, <1>7 DEF Boot
<1>8. ASSUME NEW c \in Calls, NEW rule, NEW bypass, Post(c, rule, bypass)
      PROVE  CountInv'
  BY <1>1, <1>8 DEF Post
<1>9. ASSUME NEW c \in Calls, NEW batch, NEW price, Import(c, batch, price)
      PROVE  CountInv'
  BY <1>1, <1>9 DEF Import
<1>10. ASSUME NEW c \in Calls, SelfTest(c)
       PROVE  CountInv'
  BY <1>1, <1>10 DEF SelfTest
<1>11. ASSUME NEW c \in Calls, PostAdds(c) \/ PostWrapped(c)
       PROVE  CountInv'
  <2>1. calls[c] # Idle /\ End(c) /\ UNCHANGED edits /\ refused' \in {refused, refused + 1}
    BY <1>11 DEF PostAdds, PostWrapped, Answered, Refused
  <2> QED
    BY <1>2, <2>1
<1>12. ASSUME NEW c \in Calls, NEW wrapped, ImportNext(c, wrapped)
       PROVE  CountInv'
  <2>1. calls[c] # Idle /\ UNCHANGED <<edits, refused>>
    BY <1>12 DEF ImportNext
  <2>2. CASE End(c)
    BY <1>2, <2>1, <2>2
  <2>3. ASSUME NEW rest, NEW added,
               calls' = [calls EXCEPT ![c].left = rest, ![c].added = added]
        PROVE  CountInv'
    <3>1. calls' = [calls EXCEPT ![c] = [calls[c] EXCEPT !.left = rest, !.added = added]]
      BY <2>3
    <3> QED
      BY <1>3, <2>1, <3>1
  <2> QED
    BY <1>12, <2>2, <2>3 DEF ImportNext
<1>13. ASSUME NEW c \in Calls, SelfTestAdds(c)
       PROVE  CountInv'
  <2>1. /\ calls[c] # Idle /\ UNCHANGED <<edits, refused>>
        /\ calls' = [calls EXCEPT ![c] = [calls[c] EXCEPT !.left = <<>>]]
    BY <1>13 DEF SelfTestAdds
  <2> QED
    BY <1>3, <2>1
<1>14. ASSUME NEW c \in Calls, SelfTestEnds(c)
       PROVE  CountInv'
  BY <1>2, <1>14 DEF SelfTestEnds
<1>15. ASSUME NEW tool, Delete(tool) \/ \E price \in Prices, backend \in Backends : Put(tool, price, backend)
       PROVE  CountInv'
  <2>1. Edited /\ refused' \in {refused, refused + 1}
    BY <1>15 DEF Delete, Put, Answered, Refused
  <2> QED
    BY <1>4, <2>1
<1>16. CASE UNCHANGED vars
  BY <1>5, <1>16 DEF vars
<1> QED
  BY <1>6, <1>7, <1>8, <1>9, <1>10, <1>11, <1>12, <1>13, <1>14, <1>15, <1>16 DEF Next

\* Every variable keeps its type: rules in the tables, in the file and in the
\* calls are rules, and errors are answers to calls.
THEOREM TypeCorrect == Spec => []TypeOK
<1>1. ASSUME RouteInv, CountInv, up \in BOOLEAN
      PROVE  TypeOK
  <2> DEFINE left == {calls[c].left : c \in {d \in Calls : calls[d] # Idle}}
             tables == {rules, compiled} \cup left \cup ({file} \ {Torn})
  <2>1. \A s \in tables : s \in Seq(RuleType)
    <3>1. rules \in Seq(RuleType) /\ compiled \in Seq(RuleType)
      BY <1>1, CompiledIsTable DEF RouteInv, TablesOK, Tables
    <3>2. \A s \in left : s \in Seq(RuleType)
      BY <1>1 DEF RouteInv, CallsOK, CallOK, CallType
    <3>3. file # Torn => file \in Seq(RuleType)
      BY <1>1 DEF RouteInv, TablesOK, Tables
    <3> HIDE DEF left
    <3> QED
      BY <3>1, <3>2, <3>3
  <2>2. \A s \in tables : \A i \in DOMAIN s : s[i] \in RuleType
    <3> HIDE DEF tables
    <3> QED
      BY <2>1, ToolsAt
  <2>3. \A c \in Calls : calls[c] = Idle \/ calls[c].kind \in {"post", "import", "test"}
    BY <1>1 DEF RouteInv, CallsOK, CallOK, CallType
  <2>4. edits \in 0..MaxEdits /\ refused \in 0..edits
    <3>1. Cardinality(Pending) \in Nat
      BY <1>1, FS_CardinalityType DEF CountInv
    <3> QED
      BY <1>1, <3>1, BoundsAssumption DEF CountInv
  <2>5. promised \subseteq {r.tool : r \in Menu \cup {TestRule}}
    BY <1>1 DEF RouteInv, PromisesKept, MenuTools
  <2> QED
    BY <1>1, <2>2, <2>3, <2>4, <2>5 DEF TypeOK
<1>2. Init => CountInv /\ up \in BOOLEAN
  BY InitCounts DEF Init
<1>3. up \in BOOLEAN /\ [Next]_vars => (up \in BOOLEAN)'
  BY DEF Next, vars, Boot, Crash, Post, Begin, PostAdds, PostWrapped, Import, ImportNext,
         SelfTest, SelfTestAdds, SelfTestEnds, Delete, Put, Edited
<1>4. CountInv /\ [Next]_vars => CountInv'
  BY NextKeepsCounts
<1> QED
  BY <1>1, <1>2, <1>3, <1>4, RouteInvHolds, PTL DEF Spec
=============================================================================
