---------------------------- MODULE ProfileProofs ----------------------------
(***************************************************************************)
(* The scope tags of Profile for any threads, tags and depth of nesting,   *)
(* and the flamegraph, its drawing and the reports for any call stacks,    *)
(* sizes, symbols and buckets.                                             *)
(*                                                                         *)
(* g_active_scope_tag alone does not say what it will be when a scope      *)
(* ends. What makes it right is the chain of the saved tags: each scope    *)
(* restores the tag of the scope around it, General under the outermost.   *)
(*                                                                         *)
(* The reports are functions of the records, so of IInv they need only     *)
(* that each record is of the kind allocate makes. build_tree is a loop    *)
(* over the records; what it has made after k of them is said without a    *)
(* loop (Grown), and every number in the tree, the drawing and the reports *)
(* is the weight of a set of records. Sums are equal where sets are, and   *)
(* ordered where sets are included.                                        *)
(***************************************************************************)
EXTENDS Profile, SequenceTheorems, FiniteSetTheorems, TLAPS

-----------------------------------------------------------------------------
(* Sums.  What MapThenSumSet adds up is counted instead: the sum of the    *)
(* weights of a set is the number of its units, of which each element has  *)
(* as many as it weighs.                                                   *)

\* A non-empty set of subsets of a finite set has a smallest one, so what a
\* recursion computes can be shown at the first set where it would go wrong.
LEMMA LeastSubset ==
  ASSUME NEW S, IsFiniteSet(S), NEW T \in SUBSET (SUBSET S), T # {}
  PROVE  \E x \in T : \A y \in T : y \subseteq x => y = x
<1>1. T \subseteq FiniteSubsetsOf(S)
  BY FS_FiniteSubsetsOfFinite
<1>2. \E x \in T : \A y \in T : ~ (<<y, x>> \in StrictSubsetOrdering(S))
  BY <1>1, FS_StrictSubsetOrderingWellFounded, WFMin
<1> QED
  BY <1>2 DEF StrictSubsetOrdering

Units(w, S) == {u \in S \X Nat : 1 <= u[2] /\ u[2] <= w[u[1]]}

Weigh(w, S) == Cardinality(Units(w, S))

\* The units of one element ...
LEMMA UnitsOfOne ==
  ASSUME NEW D, NEW w \in [D -> Nat], NEW x \in D
  PROVE  IsFiniteSet({x} \X (1 .. w[x])) /\ Cardinality({x} \X (1 .. w[x])) = w[x]
<1>1. IsFiniteSet({x}) /\ Cardinality({x}) = 1
  BY FS_Singleton
<1>2. 1 \in Int /\ w[x] \in Int /\ w[x] \in Nat
  OBVIOUS
<1>3. IsFiniteSet(1 .. w[x]) /\ Cardinality(1 .. w[x]) = w[x]
  BY <1>2, FS_Interval
<1>4. IsFiniteSet({x} \X (1 .. w[x]))
      /\ Cardinality({x} \X (1 .. w[x])) = Cardinality({x}) * Cardinality(1 .. w[x])
  BY <1>1, <1>3, FS_Product
<1> QED
  BY <1>1, <1>2, <1>3, <1>4

\* ... are those that are gone without it.
LEMMA UnitsWithout ==
  ASSUME NEW D, NEW w \in [D -> Nat], NEW s \in SUBSET D, NEW x \in s, IsFiniteSet(Units(w, s \ {x}))
  PROVE  /\ IsFiniteSet(Units(w, s))
         /\ Weigh(w, s) = w[x] + Weigh(w, s \ {x})
<1>1. PICK one : one = {x} \X (1 .. w[x])
  OBVIOUS
<1>2. PICK rest : rest = Units(w, s \ {x})
  OBVIOUS
<1>3. Units(w, s) = rest \cup one /\ rest \cap one = {}
  BY <1>1, <1>2 DEF Units
<1>4. IsFiniteSet(one) /\ Cardinality(one) = w[x] /\ IsFiniteSet(rest)
  BY <1>1, <1>2, UnitsOfOne
<1>5. /\ IsFiniteSet(rest \cup one)
      /\ Cardinality(rest \cup one) = Cardinality(rest) + Cardinality(one) - Cardinality(rest \cap one)
  BY <1>4, FS_Union
<1>6. Cardinality(rest) \in Nat /\ w[x] \in Nat /\ Cardinality(rest \cap one) = 0
  BY <1>3, <1>4, FS_CardinalityType, FS_EmptySet
<1> QED
  BY <1>2, <1>3, <1>4, <1>5, <1>6 DEF Weigh

\* A finite set has finitely many units.
LEMMA UnitsFinite ==
  ASSUME NEW D, NEW w \in [D -> Nat], NEW S \in SUBSET D, IsFiniteSet(S)
  PROVE  IsFiniteSet(Units(w, S))
<1>1. PICK T \in SUBSET (SUBSET S) : T = {s \in SUBSET S : ~IsFiniteSet(Units(w, s))}
  OBVIOUS
<1> SUFFICES ASSUME T # {} PROVE FALSE
  BY <1>1
<1>2. PICK s \in T : \A y \in T : y \subseteq s => y = s
  BY LeastSubset
<1>3. Units(w, {}) = {}
  BY DEF Units
<1>4. s # {}
  BY <1>1, <1>3, FS_EmptySet
<1>5. PICK x \in s : TRUE
  BY <1>4
<1>6. IsFiniteSet(Units(w, s \ {x}))
  BY <1>1, <1>2
<1>7. s \in SUBSET D
  BY <1>1
<1> QED
  BY <1>1, <1>2, <1>6, <1>7, UnitsWithout

\* A finite set weighs a natural number, and the empty one nothing.
LEMMA WeighType ==
  ASSUME NEW D, NEW w \in [D -> Nat], NEW S \in SUBSET D, IsFiniteSet(S)
  PROVE  Weigh(w, S) \in Nat /\ Weigh(w, {}) = 0
<1>1. Units(w, {}) = {}
  BY DEF Units
<1> QED
  BY <1>1, UnitsFinite, FS_CardinalityType, FS_EmptySet DEF Weigh

\* An element that is taken away takes its weight away ...
LEMMA WeighRemove ==
  ASSUME NEW D, NEW w \in [D -> Nat], NEW S \in SUBSET D, IsFiniteSet(S), NEW x \in S
  PROVE  Weigh(w, S) = w[x] + Weigh(w, S \ {x})
<1>1. IsFiniteSet(S \ {x})
  BY FS_RemoveElement
<1>2. IsFiniteSet(Units(w, S \ {x}))
  BY <1>1, UnitsFinite
<1> QED
  BY <1>2, UnitsWithout

\* ... and a new one brings it.
LEMMA WeighAdd ==
  ASSUME NEW D, NEW w \in [D -> Nat], NEW S \in SUBSET D, IsFiniteSet(S), NEW x \in D \ S
  PROVE  Weigh(w, S \cup {x}) = w[x] + Weigh(w, S)
<1>1. IsFiniteSet(S \cup {x}) /\ (S \cup {x}) \ {x} = S /\ S \cup {x} \in SUBSET D
  BY FS_AddElement
<1> QED
  BY <1>1, WeighRemove

\* What is left weighs the difference.
LEMMA WeighDifference ==
  ASSUME NEW D, NEW w \in [D -> Nat], NEW S \in SUBSET D, IsFiniteSet(S), NEW T \in SUBSET S
  PROVE  Weigh(w, S \ T) = Weigh(w, S) - Weigh(w, T)
<1>1. Units(w, S \ T) = Units(w, S) \ Units(w, T) /\ Units(w, S) \cap Units(w, T) = Units(w, T)
  BY DEF Units
<1>2. IsFiniteSet(Units(w, S))
  BY UnitsFinite
<1>3. Cardinality(Units(w, S) \ Units(w, T)) = Cardinality(Units(w, S)) - Cardinality(Units(w, S) \cap Units(w, T))
  BY <1>2, FS_Difference
<1> QED
  BY <1>1, <1>3 DEF Weigh

\* One weight changes.
LEMMA WeighChange ==
  ASSUME NEW D, IsFiniteSet(D), NEW w \in [D -> Nat], NEW v \in [D -> Nat], NEW x \in D,
         \A y \in D \ {x} : v[y] = w[y]
  PROVE  Weigh(v, D) = Weigh(w, D) + v[x] - w[x]
<1>1. Units(v, D \ {x}) = Units(w, D \ {x})
  BY DEF Units
<1>2. Weigh(v, D \ {x}) = Weigh(w, D \ {x})
  BY <1>1 DEF Weigh
<1>3. Weigh(v, D) = v[x] + Weigh(v, D \ {x}) /\ Weigh(w, D) = w[x] + Weigh(w, D \ {x})
  BY WeighRemove
<1>4. Weigh(w, D \ {x}) \in Nat
  BY FS_RemoveElement, WeighType
<1> QED
  BY <1>2, <1>3, <1>4

\* Where everything weighs one, a set weighs as many as it has elements.
LEMMA WeighOnes ==
  ASSUME NEW D, NEW S \in SUBSET D, IsFiniteSet(S)
  PROVE  Weigh([x \in D |-> 1], S) = Cardinality(S)
<1>1. Units([x \in D |-> 1], S) = S \X {1}
  BY DEF Units
<1>2. IsFiniteSet({1}) /\ Cardinality({1}) = 1
  BY FS_Singleton
<1>3. Cardinality(S \X {1}) = Cardinality(S) * Cardinality({1})
  BY <1>2, FS_Product
<1>4. Cardinality(S) \in Nat
  BY FS_CardinalityType
<1> QED
  BY <1>1, <1>2, <1>3, <1>4 DEF Weigh

Pick(s) == CHOOSE x \in s : TRUE

\* The steps of a sum that takes one element after the other.
IsSum(g, w, S) == g = [s \in SUBSET S |-> IF s = {} THEN 0 ELSE w[Pick(s)] + g[s \ {Pick(s)}]]

\* There is such a sum: it counts the units.
LEMMA SumExists ==
  ASSUME NEW S, IsFiniteSet(S), NEW w \in [S -> Nat]
  PROVE  \E g : IsSum(g, w, S)
<1>1. PICK g : g = [s \in SUBSET S |-> Weigh(w, s)]
  OBVIOUS
<1>2. ASSUME NEW s \in SUBSET S
      PROVE  g[s] = IF s = {} THEN 0 ELSE w[Pick(s)] + g[s \ {Pick(s)}]
  <2>1. IsFiniteSet(s)
    BY FS_Subset
  <2>2. CASE s = {}
    BY <1>1, <2>1, <2>2, WeighType
  <2>3. CASE s # {}
    <3>1. PICK x \in s : x = Pick(s)
      BY <2>3 DEF Pick
    <3>2. Weigh(w, s) = w[x] + Weigh(w, s \ {x})
      BY <2>1, WeighRemove
    <3> QED
      BY <1>1, <2>3, <3>1, <3>2
  <2> QED
    BY <2>2, <2>3
<1>3. g = [s \in SUBSET S |-> IF s = {} THEN 0 ELSE w[Pick(s)] + g[s \ {Pick(s)}]]
  BY <1>1, <1>2
<1> QED
  BY <1>3 DEF IsSum

\* There is no other.
LEMMA SumIs ==
  ASSUME NEW S, IsFiniteSet(S), NEW w \in [S -> Nat], NEW g, IsSum(g, w, S)
  PROVE  g[S] = Weigh(w, S)
<1>1. PICK T \in SUBSET (SUBSET S) : T = {s \in SUBSET S : g[s] # Weigh(w, s)}
  OBVIOUS
<1> SUFFICES ASSUME T # {} PROVE FALSE
  BY <1>1
<1>2. PICK s \in T : \A y \in T : y \subseteq s => y = s
  BY LeastSubset
<1>3. g[s] = IF s = {} THEN 0 ELSE w[Pick(s)] + g[s \ {Pick(s)}]
  BY DEF IsSum
<1>4. s \in SUBSET S /\ IsFiniteSet(s)
  BY <1>1, FS_Subset
<1>5. CASE s = {}
  BY <1>1, <1>3, <1>4, <1>5, WeighType
<1>6. CASE s # {}
  <2>1. PICK x \in s : x = Pick(s)
    BY <1>6 DEF Pick
  <2>2. g[s \ {x}] = Weigh(w, s \ {x})
    BY <1>1, <1>2
  <2>3. Weigh(w, s) = w[x] + Weigh(w, s \ {x})
    BY <1>4, WeighRemove
  <2> QED
    BY <1>1, <1>3, <1>6, <2>1, <2>2, <2>3
<1> QED
  BY <1>5, <1>6

\* A part weighs no more than the whole.
LEMMA WeighPart ==
  ASSUME NEW D, NEW w \in [D -> Nat], NEW S \in SUBSET D, IsFiniteSet(S), NEW T \in SUBSET S
  PROVE  Weigh(w, T) <= Weigh(w, S)
<1>1. Units(w, T) \in SUBSET Units(w, S)
  BY DEF Units
<1>2. Cardinality(Units(w, T)) <= Cardinality(Units(w, S))
  BY <1>1, UnitsFinite, FS_Subset
<1> QED
  BY <1>2 DEF Weigh

\* Sets that are apart weigh together what each of them weighs.
LEMMA WeighUnion ==
  ASSUME NEW D, NEW w \in [D -> Nat], NEW S \in SUBSET D, IsFiniteSet(S),
         NEW T \in SUBSET D, IsFiniteSet(T), S \cap T = {}
  PROVE  Weigh(w, S \cup T) = Weigh(w, S) + Weigh(w, T)
<1>1. PICK a, b : a = Units(w, S) /\ b = Units(w, T)
  OBVIOUS
<1>2. Units(w, S \cup T) = a \cup b /\ a \cap b = {}
  BY <1>1 DEF Units
<1>3. IsFiniteSet(a) /\ IsFiniteSet(b)
  BY <1>1, UnitsFinite
<1>4. Cardinality(a \cup b) = Cardinality(a) + Cardinality(b) - Cardinality(a \cap b)
  BY <1>3, FS_Union
<1>5. Cardinality(a) \in Nat /\ Cardinality(b) \in Nat /\ Cardinality(a \cap b) = 0
  BY <1>2, <1>3, FS_CardinalityType, FS_EmptySet
<1>6. Cardinality(a \cup b) = Cardinality(a) + Cardinality(b)
  BY <1>4, <1>5
<1> QED
  BY <1>1, <1>2, <1>6 DEF Weigh

All(K, J) == UNION {K[j] : j \in J}

\* So do any finite number of them.
LEMMA WeighParts ==
  ASSUME NEW D, IsFiniteSet(D), NEW w \in [D -> Nat], NEW J, IsFiniteSet(J), NEW K \in [J -> SUBSET D],
         \A i, j \in J : i # j => K[i] \cap K[j] = {}, NEW v \in [J -> Nat], \A j \in J : v[j] = Weigh(w, K[j])
  PROVE  Weigh(v, J) = Weigh(w, All(K, J))
<1>1. PICK T \in SUBSET (SUBSET J) : T = {s \in SUBSET J : Weigh(v, s) # Weigh(w, All(K, s))}
  OBVIOUS
<1> SUFFICES ASSUME T # {} PROVE FALSE
  BY <1>1
<1>2. PICK s \in T : \A y \in T : y \subseteq s => y = s
  BY LeastSubset
<1>3. s \in SUBSET J /\ IsFiniteSet(s)
  BY <1>1, FS_Subset
<1>4. All(K, {}) = {}
  BY DEF All
<1>5. Weigh(v, {}) = 0 /\ Weigh(w, {}) = 0
  BY <1>3, FS_EmptySet, WeighType
<1>6. s # {}
  BY <1>1, <1>4, <1>5
<1>7. PICK x \in s : TRUE
  BY <1>6
<1>8. PICK r : r = s \ {x}
  OBVIOUS
<1>9. Weigh(v, r) = Weigh(w, All(K, r))
  BY <1>1, <1>2, <1>8
<1>10. Weigh(v, s) = v[x] + Weigh(v, r)
  BY <1>3, <1>8, WeighRemove
<1>11. All(K, s) = K[x] \cup All(K, r) /\ K[x] \cap All(K, r) = {} /\ K[x] \in SUBSET D /\ All(K, r) \in SUBSET D
  BY <1>3, <1>7, <1>8 DEF All
<1>12. IsFiniteSet(K[x]) /\ IsFiniteSet(All(K, r))
  BY <1>11, FS_Subset
<1>13. Weigh(w, All(K, s)) = Weigh(w, K[x]) + Weigh(w, All(K, r))
  BY <1>11, <1>12, WeighUnion
<1>14. v[x] = Weigh(w, K[x])
  BY <1>3
<1> QED
  BY <1>1, <1>9, <1>10, <1>13, <1>14

\* Induction over the natural numbers, as a statement about sets.
LEMMA Induction ==
  ASSUME NEW S \in SUBSET Nat, 0 \in S, \A n \in S : n + 1 \in S
  PROVE  S = Nat
<1> SUFFICES ASSUME Nat \ S # {} PROVE FALSE
  OBVIOUS
<1>1. PICK bad : bad = Nat \ S
  OBVIOUS
<1>2. \E x \in bad : \A y \in bad : ~(<<y, x>> \in OpToRel(<, Nat))
  BY <1>1, NatLessThanWellFounded, WFMin
<1>3. PICK x \in bad : \A y \in bad : ~(y < x)
  BY <1>1, <1>2 DEF OpToRel
<1>4. x # 0 /\ x \in Nat /\ x \notin S
  BY <1>1
<1>5. x - 1 \in Nat /\ x - 1 < x /\ (x - 1) + 1 = x
  BY <1>4
<1>6. x - 1 \in S
  BY <1>1, <1>3, <1>5
<1> QED
  BY <1>4, <1>5, <1>6

-----------------------------------------------------------------------------
(* Loops.  FoldLeft is the last member of a chain: the base, then each     *)
(* element's step.                                                         *)

\* The largest of the first n numbers is the n-th.
LEMMA MaxIs ==
  ASSUME NEW n \in Nat, NEW S \in SUBSET (1 .. n + 1), n + 1 \in S
  PROVE  Max(S) = n + 1
<1>1. \A y \in S : n + 1 >= y
  OBVIOUS
<1>2. \A x \in S : (\A y \in S : x >= y) => x = n + 1
  OBVIOUS
<1> QED
  BY <1>1, <1>2 DEF Max

IsBuild(g, list, n) ==
  g = [S \in SUBSET (1 .. n) |->
         IF S = {} THEN [p \in {Root} |-> NewNode] ELSE AddRecord(g[S \ {Max(S)}], list[Max(S)])]

\* The recursion of build_tree has a solution for the first n records ...
LEMMA BuildExists ==
  ASSUME NEW list, NEW n \in Nat
  PROVE  \E g : IsBuild(g, list, n)
<1>1. PICK good : good = {k \in Nat : \E g : IsBuild(g, list, k)}
  OBVIOUS
<1>2. PICK base : base = [p \in {Root} |-> NewNode]
  OBVIOUS
<1>3. 0 \in good
  <2>1. PICK g : g = [S \in SUBSET (1 .. 0) |-> base]
    OBVIOUS
  <2>2. \A S \in SUBSET (1 .. 0) : S = {}
    OBVIOUS
  <2>3. IsBuild(g, list, 0)
    BY <1>2, <2>1, <2>2 DEF IsBuild
  <2> QED
    BY <1>1, <2>3
<1>4. ASSUME NEW k \in good PROVE k + 1 \in good
  <2>1. k \in Nat /\ \E g : IsBuild(g, list, k)
    BY <1>1
  <2>2. PICK g : IsBuild(g, list, k)
    BY <2>1
  <2>3. PICK h : h = [S \in SUBSET (1 .. k + 1) |->
                        IF k + 1 \in S THEN AddRecord(g[S \ {k + 1}], list[k + 1]) ELSE g[S]]
    OBVIOUS
  <2>4. ASSUME NEW S \in SUBSET (1 .. k), NEW T, T = 1 .. k + 1 PROVE S \in SUBSET T /\ k + 1 \notin S /\ h[S] = g[S]
    <3>1. S \in SUBSET (1 .. k + 1) /\ k + 1 \notin S
      BY <2>1
    <3> QED
      BY <2>3, <2>4, <3>1
  <2>5. ASSUME NEW S \in SUBSET (1 .. k + 1)
        PROVE  h[S] = IF S = {} THEN base ELSE AddRecord(h[S \ {Max(S)}], list[Max(S)])
    <3>1. CASE k + 1 \in S
      <4>1. Max(S) = k + 1
        BY <2>1, <3>1, MaxIs
      <4>2. S \ {k + 1} \in SUBSET (1 .. k)
        BY <2>1
      <4>3. h[S \ {k + 1}] = g[S \ {k + 1}]
        BY <2>4, <4>2
      <4> QED
        BY <2>3, <3>1, <4>1, <4>3
    <3>2. CASE k + 1 \notin S
      <4>1. S \in SUBSET (1 .. k)
        BY <2>1, <3>2
      <4>2. h[S] = g[S]
        BY <2>4, <4>1
      <4>3. g[S] = IF S = {} THEN base ELSE AddRecord(g[S \ {Max(S)}], list[Max(S)])
        BY <1>2, <2>2, <4>1 DEF IsBuild
      <4>4. h[S \ {Max(S)}] = g[S \ {Max(S)}]
        BY <2>4, <4>1
      <4> QED
        BY <4>2, <4>3, <4>4
    <3> QED
      BY <3>1, <3>2
  <2>6. h = [S \in SUBSET (1 .. k + 1) |-> IF S = {} THEN base ELSE AddRecord(h[S \ {Max(S)}], list[Max(S)])]
    BY <2>3, <2>5
  <2>7. IsBuild(h, list, k + 1)
    BY <1>2, <2>6 DEF IsBuild
  <2> QED
    BY <1>1, <2>1, <2>7
<1>5. good = Nat
  BY <1>1, <1>3, <1>4, Induction
<1> QED
  BY <1>1, <1>5

\* ... so the tree is the last of a chain: the root alone, then a record more
\* each time.
LEMMA BuildChain ==
  ASSUME NEW n \in Nat, NEW list, DOMAIN list = 1 .. n
  PROVE  \E v : /\ v[0] = [p \in {Root} |-> NewNode]
                /\ \A k \in 1 .. n : v[k] = AddRecord(v[k - 1], list[k])
                /\ BuildTree(list) = v[n]
<1>1. PICK D : D = 1 .. n
  OBVIOUS
<1>2. BuildTree(list) = (CHOOSE g : g = [S \in SUBSET D |->
            IF S = {} THEN [p \in {Root} |-> NewNode] ELSE AddRecord(g[S \ {Max(S)}], list[Max(S)])])[D]
  BY <1>1 DEF BuildTree, FoldLeft, MapThenFoldSet
<1>3. \E g : IsBuild(g, list, n)
  BY BuildExists
<1>4. PICK g : /\ IsBuild(g, list, n)
               /\ g = CHOOSE h : h = [S \in SUBSET D |->
                    IF S = {} THEN [p \in {Root} |-> NewNode] ELSE AddRecord(h[S \ {Max(S)}], list[Max(S)])]
  BY <1>1, <1>3 DEF IsBuild
<1>5. PICK v : v = [k \in 0 .. n |-> g[1 .. k]]
  OBVIOUS
<1>6. \A S \in SUBSET (1 .. n) :
        g[S] = IF S = {} THEN [p \in {Root} |-> NewNode] ELSE AddRecord(g[S \ {Max(S)}], list[Max(S)])
  BY <1>4 DEF IsBuild
<1>7. v[0] = [p \in {Root} |-> NewNode]
  <2>1. v[0] = g[1 .. 0] /\ 1 .. 0 = {} /\ 1 .. 0 \in SUBSET (1 .. n)
    BY <1>5
  <2> QED
    BY <1>6, <2>1
<1>8. ASSUME NEW k \in 1 .. n PROVE v[k] = AddRecord(v[k - 1], list[k])
  <2>1. PICK S : S = 1 .. k
    OBVIOUS
  <2>2. S \in SUBSET (1 .. n) /\ S # {} /\ v[k] = g[S]
    <3>1. S \subseteq 1 .. n /\ k \in S
      BY <2>1
    <3>2. k \in 0 .. n
      OBVIOUS
    <3> QED
      BY <1>5, <2>1, <3>1, <3>2
  <2>3. PICK m \in Nat : k = m + 1
    <3>1. k - 1 \in Nat /\ k = (k - 1) + 1
      OBVIOUS
    <3> QED
      BY <3>1
  <2>4. Max(S) = k
    <3>1. S \in SUBSET (1 .. m + 1) /\ m + 1 \in S
      BY <2>1, <2>3
    <3>2. Max(S) = m + 1
      BY <3>1, MaxIs
    <3> QED
      BY <2>3, <3>2
  <2>5. S \ {k} = 1 .. k - 1 /\ v[k - 1] = g[1 .. k - 1]
    BY <1>5, <2>1
  <2> QED
    BY <1>6, <2>2, <2>4, <2>5
<1>9. BuildTree(list) = v[n]
  BY <1>1, <1>2, <1>4, <1>5
<1> QED
  BY <1>7, <1>8, <1>9

Extended(kept, e, out) == IF e \in out THEN kept ELSE Append(kept, e)

IsCopy(g, list, out, n) ==
  g = [S \in SUBSET (1 .. n) |->
         IF S = {} THEN <<>> ELSE Extended(g[S \ {Max(S)}], list[Max(S)], out)]

\* The same for the loops that leave elements out.
LEMMA CopyExists ==
  ASSUME NEW list, NEW out, NEW n \in Nat
  PROVE  \E g : IsCopy(g, list, out, n)
<1>1. PICK good : good = {k \in Nat : \E g : IsCopy(g, list, out, k)}
  OBVIOUS
<1>2. PICK base : base = <<>>
  OBVIOUS
<1>3. 0 \in good
  <2>1. PICK g : g = [S \in SUBSET (1 .. 0) |-> base]
    OBVIOUS
  <2>2. \A S \in SUBSET (1 .. 0) : S = {}
    OBVIOUS
  <2>3. IsCopy(g, list, out, 0)
    BY <1>2, <2>1, <2>2 DEF IsCopy
  <2> QED
    BY <1>1, <2>3
<1>4. ASSUME NEW k \in good PROVE k + 1 \in good
  <2>1. k \in Nat /\ \E g : IsCopy(g, list, out, k)
    BY <1>1
  <2>2. PICK g : IsCopy(g, list, out, k)
    BY <2>1
  <2>3. PICK h : h = [S \in SUBSET (1 .. k + 1) |->
                        IF k + 1 \in S THEN Extended(g[S \ {k + 1}], list[k + 1], out) ELSE g[S]]
    OBVIOUS
  <2>4. ASSUME NEW S \in SUBSET (1 .. k), NEW T, T = 1 .. k + 1 PROVE S \in SUBSET T /\ k + 1 \notin S /\ h[S] = g[S]
    <3>1. S \in SUBSET (1 .. k + 1) /\ k + 1 \notin S
      BY <2>1
    <3> QED
      BY <2>3, <2>4, <3>1
  <2>5. ASSUME NEW S \in SUBSET (1 .. k + 1)
        PROVE  h[S] = IF S = {} THEN base ELSE Extended(h[S \ {Max(S)}], list[Max(S)], out)
    <3>1. CASE k + 1 \in S
      <4>1. Max(S) = k + 1
        BY <2>1, <3>1, MaxIs
      <4>2. S \ {k + 1} \in SUBSET (1 .. k)
        BY <2>1
      <4>3. h[S \ {k + 1}] = g[S \ {k + 1}]
        BY <2>4, <4>2
      <4> QED
        BY <2>3, <3>1, <4>1, <4>3
    <3>2. CASE k + 1 \notin S
      <4>1. S \in SUBSET (1 .. k)
        BY <2>1, <3>2
      <4>2. h[S] = g[S]
        BY <2>4, <4>1
      <4>3. g[S] = IF S = {} THEN base ELSE Extended(g[S \ {Max(S)}], list[Max(S)], out)
        BY <1>2, <2>2, <4>1 DEF IsCopy
      <4>4. h[S \ {Max(S)}] = g[S \ {Max(S)}]
        BY <2>4, <4>1
      <4> QED
        BY <4>2, <4>3, <4>4
    <3> QED
      BY <3>1, <3>2
  <2>6. h = [S \in SUBSET (1 .. k + 1) |-> IF S = {} THEN base ELSE Extended(h[S \ {Max(S)}], list[Max(S)], out)]
    BY <2>3, <2>5
  <2>7. IsCopy(h, list, out, k + 1)
    BY <1>2, <2>6 DEF IsCopy
  <2> QED
    BY <1>1, <2>1, <2>7
<1>5. good = Nat
  BY <1>1, <1>3, <1>4, Induction
<1> QED
  BY <1>1, <1>5

\* The copy is the last of a chain: an element more each time, or none.
LEMMA CopyChain ==
  ASSUME NEW n \in Nat, NEW list, NEW out, DOMAIN list = 1 .. n
  PROVE  \E v : /\ v[0] = <<>>
                /\ \A k \in 1 .. n : v[k] = Extended(v[k - 1], list[k], out)
                /\ Without(list, out) = v[n]
<1>1. PICK D : D = 1 .. n
  OBVIOUS
<1>2. Without(list, out) = (CHOOSE g : g = [S \in SUBSET D |->
            IF S = {} THEN <<>> ELSE Extended(g[S \ {Max(S)}], list[Max(S)], out)])[D]
  BY <1>1 DEF Without, FoldLeft, MapThenFoldSet, Extended
<1>3. \E g : IsCopy(g, list, out, n)
  BY CopyExists
<1>4. PICK g : /\ IsCopy(g, list, out, n)
               /\ g = CHOOSE h : h = [S \in SUBSET D |->
                    IF S = {} THEN <<>> ELSE Extended(h[S \ {Max(S)}], list[Max(S)], out)]
  BY <1>1, <1>3 DEF IsCopy
<1>5. PICK v : v = [k \in 0 .. n |-> g[1 .. k]]
  OBVIOUS
<1>6. \A S \in SUBSET (1 .. n) :
        g[S] = IF S = {} THEN <<>> ELSE Extended(g[S \ {Max(S)}], list[Max(S)], out)
  BY <1>4 DEF IsCopy
<1>7. v[0] = <<>>
  <2>1. v[0] = g[1 .. 0] /\ 1 .. 0 = {} /\ 1 .. 0 \in SUBSET (1 .. n)
    BY <1>5
  <2> QED
    BY <1>6, <2>1
<1>8. ASSUME NEW k \in 1 .. n PROVE v[k] = Extended(v[k - 1], list[k], out)
  <2>1. PICK S : S = 1 .. k
    OBVIOUS
  <2>2. S \in SUBSET (1 .. n) /\ S # {} /\ v[k] = g[S]
    <3>1. S \subseteq 1 .. n /\ k \in S
      BY <2>1
    <3>2. k \in 0 .. n
      OBVIOUS
    <3> QED
      BY <1>5, <2>1, <3>1, <3>2
  <2>3. PICK m \in Nat : k = m + 1
    <3>1. k - 1 \in Nat /\ k = (k - 1) + 1
      OBVIOUS
    <3> QED
      BY <3>1
  <2>4. Max(S) = k
    <3>1. S \in SUBSET (1 .. m + 1) /\ m + 1 \in S
      BY <2>1, <2>3
    <3>2. Max(S) = m + 1
      BY <3>1, MaxIs
    <3> QED
      BY <2>3, <3>2
  <2>5. S \ {k} = 1 .. k - 1 /\ v[k - 1] = g[1 .. k - 1]
    BY <1>5, <2>1
  <2> QED
    BY <1>6, <2>2, <2>4, <2>5
<1>9. Without(list, out) = v[n]
  BY <1>1, <1>2, <1>4, <1>5
<1> QED
  BY <1>7, <1>8, <1>9

\* What is copied is a list of the others, and nothing is copied twice.
LEMMA WithoutIs ==
  ASSUME NEW T, NEW list \in Seq(T), NEW out
  PROVE  /\ Without(list, out) \in Seq(T \ out)
         /\ Len(Without(list, out)) + Cardinality({i \in DOMAIN list : list[i] \in out}) = Len(list)
<1>1. PICK n \in Nat : n = Len(list)
  OBVIOUS
<1>2. DOMAIN list = 1 .. n
  BY <1>1
<1>3. PICK v : /\ v[0] = <<>>
               /\ \A k \in 1 .. n : v[k] = Extended(v[k - 1], list[k], out)
               /\ Without(list, out) = v[n]
  BY <1>2, CopyChain
<1> DEFINE Left(k) == {i \in 1 .. k : list[i] \in out}
<1>4. PICK good : good = {k \in Nat : k <= n => v[k] \in Seq(T \ out) /\ Len(v[k]) + Cardinality(Left(k)) = k}
  OBVIOUS
<1>5. 0 \in good
  <2>1. Left(0) = {} /\ v[0] \in Seq(T \ out) /\ Len(v[0]) = 0
    BY <1>3
  <2> QED
    BY <1>4, <2>1, FS_EmptySet
<1>6. ASSUME NEW k \in good PROVE k + 1 \in good
  <2>1. k \in Nat
    BY <1>4
  <2> SUFFICES ASSUME k + 1 <= n
               PROVE  v[k + 1] \in Seq(T \ out) /\ Len(v[k + 1]) + Cardinality(Left(k + 1)) = k + 1
    BY <1>4, <2>1
  <2>2. v[k] \in Seq(T \ out) /\ Len(v[k]) + Cardinality(Left(k)) = k
    BY <1>4, <2>1
  <2>3. k + 1 \in 1 .. n /\ (k + 1) - 1 = k
    BY <2>1
  <2>4. v[k + 1] = Extended(v[k], list[k + 1], out) /\ list[k + 1] \in T
    BY <1>2, <1>3, <2>3
  <2>5. IsFiniteSet(Left(k)) /\ Cardinality(Left(k)) \in Nat
    <3>1. IsFiniteSet(1 .. k)
      BY <2>1, FS_Interval
    <3> QED
      BY <3>1, FS_Subset, FS_CardinalityType
  <2>6. CASE list[k + 1] \in out
    <3>1. Left(k + 1) = Left(k) \cup {k + 1} /\ k + 1 \notin Left(k)
      BY <2>1, <2>6
    <3>2. Cardinality(Left(k + 1)) = Cardinality(Left(k)) + 1
      BY <2>5, <3>1, FS_AddElement
    <3>3. v[k + 1] = v[k]
      BY <2>4, <2>6 DEF Extended
    <3>4. Len(v[k]) \in Nat
      BY <2>2
    <3> HIDE DEF Left
    <3> QED
      BY <2>1, <2>2, <2>5, <3>2, <3>3, <3>4
  <2>7. CASE list[k + 1] \notin out
    <3>1. Left(k + 1) = Left(k)
      BY <2>1, <2>7
    <3>2. v[k + 1] = Append(v[k], list[k + 1]) /\ list[k + 1] \in T \ out
      BY <2>4, <2>7 DEF Extended
    <3>3. v[k + 1] \in Seq(T \ out) /\ Len(v[k + 1]) = Len(v[k]) + 1 /\ Len(v[k]) \in Nat
      BY <2>2, <3>2, AppendProperties
    <3>4. PICK a, b \in Nat : a = Len(v[k]) /\ b = Cardinality(Left(k))
      BY <2>5, <3>3
    <3>5. Cardinality(Left(k + 1)) = b /\ Len(v[k + 1]) = a + 1 /\ a + b = k
      BY <2>2, <3>1, <3>3, <3>4
    <3>6. Len(v[k + 1]) + Cardinality(Left(k + 1)) = k + 1
      BY <2>1, <3>5
    <3> QED
      BY <3>3, <3>6
  <2> QED
    BY <2>6, <2>7
<1>7. n \in good
  <2>1. good \in SUBSET Nat
    BY <1>4
  <2> QED
    BY <1>5, <1>6, <2>1, Induction
<1>8. v[n] \in Seq(T \ out) /\ Len(v[n]) + Cardinality(Left(n)) = n
  BY <1>4, <1>7
<1> QED
  BY <1>1, <1>2, <1>3, <1>8

-----------------------------------------------------------------------------
(* The scopes.                                                             *)

ScopeType == [tag : Tags \cup {Null}, prev : Tags \cup {General}]

\* Records that have kept the tag they were born with.
Faithful ==
  {rec \in [tag : Tags \cup {General}, size : Sizes, stack : Captures, born : Tags \cup {General}] :
     rec.tag = rec.born}

\* What the text says at the end of a nest of scopes.
TagOf(s) == IF s = <<>> \/ Last(s).tag = Null THEN General ELSE Last(s).tag

\* What the i-th scope of a nest has around it.
Around(s, i) == IF i = 1 \/ s[i - 1].tag = Null THEN General ELSE s[i - 1].tag

Chained(s) == \A i \in DOMAIN s : s[i].prev = Around(s, i)

IInv ==
  /\ raw \in [Threads -> Tags \cup {Null, General}]
  /\ scopes \in [Threads -> Seq(ScopeType)]
  /\ records \in Seq(Faithful)
  /\ \A t \in Threads : Chained(scopes[t]) /\ CurrentTag(t) = TagOf(scopes[t])

\* The nest with one scope more.
LEMMA Opened ==
  ASSUME NEW s \in Seq(ScopeType), NEW e \in ScopeType, Chained(s), e.prev = TagOf(s)
  PROVE  /\ Append(s, e) \in Seq(ScopeType) /\ Chained(Append(s, e))
         /\ TagOf(Append(s, e)) = IF e.tag = Null THEN General ELSE e.tag
<1> DEFINE n == Len(s)
           new == Append(s, e)
<1>1. /\ n \in Nat /\ DOMAIN s = 1 .. n
      /\ new \in Seq(ScopeType) /\ DOMAIN new = 1 .. n + 1 /\ Len(new) = n + 1
      /\ \A i \in 1 .. n : new[i] = s[i]
      /\ new[n + 1] = e
      /\ s = <<>> <=> n = 0
  OBVIOUS
<1> HIDE DEF new
<1>2. new # <<>> /\ Last(new) = e
  BY <1>1 DEF Last
<1>3. ASSUME NEW i \in 1 .. n PROVE new[i].prev = Around(new, i)
  <2>1. s[i].prev = Around(s, i) /\ new[i] = s[i]
    BY <1>1 DEF Chained
  <2>2. i = 1 \/ i - 1 \in 1 .. n
    BY <1>1
  <2> QED
    BY <1>1, <2>1, <2>2 DEF Around
<1>4. e.prev = Around(new, n + 1)
  <2>1. CASE n = 0
    BY <1>1, <2>1 DEF Around, TagOf
  <2>2. CASE n # 0
    <3>1. n \in 1 .. n /\ (n + 1) - 1 = n /\ n + 1 # 1
      BY <1>1, <2>2
    <3>2. Last(s) = s[n] /\ s # <<>>
      BY <1>1, <2>2 DEF Last
    <3>3. new[(n + 1) - 1] = s[n]
      BY <1>1, <3>1
    <3> QED
      BY <3>1, <3>2, <3>3 DEF Around, TagOf
  <2> QED
    BY <2>1, <2>2
<1>5. \A i \in 1 .. n + 1 : i \in 1 .. n \/ i = n + 1
  BY <1>1
<1>6. Chained(new)
  BY <1>1, <1>3, <1>4, <1>5 DEF Chained
<1>7. TagOf(new) = IF e.tag = Null THEN General ELSE e.tag
  BY <1>2 DEF TagOf
<1> QED
  BY <1>1, <1>6, <1>7 DEF new

\* The nest without its innermost scope, which knew what is around it.
LEMMA Closed ==
  ASSUME NEW s \in Seq(ScopeType), s # <<>>, Chained(s)
  PROVE  /\ Front(s) \in Seq(ScopeType) /\ Chained(Front(s))
         /\ Last(s) \in ScopeType
         /\ TagOf(Front(s)) = Last(s).prev
<1> DEFINE n == Len(s)
           rest == Front(s)
<1>1. n \in Nat /\ n >= 1 /\ DOMAIN s = 1 .. n /\ s[n] \in ScopeType
  OBVIOUS
<1>2. rest = [i \in 1 .. n - 1 |-> s[i]]
  BY DEF Front
<1>3. rest \in Seq(ScopeType) /\ Len(rest) = n - 1 /\ DOMAIN rest = 1 .. n - 1
  <2>1. \A i \in 1 .. n - 1 : s[i] \in ScopeType
    BY <1>1
  <2> QED
    BY <1>1, <1>2, <2>1
<1>4. \A i \in 1 .. n - 1 : rest[i] = s[i]
  BY <1>2
<1> HIDE DEF rest
<1>5. Chained(rest)
  <2> SUFFICES ASSUME NEW i \in 1 .. n - 1 PROVE rest[i].prev = Around(rest, i)
    BY <1>3 DEF Chained
  <2>1. s[i].prev = Around(s, i) /\ rest[i] = s[i]
    BY <1>1, <1>4 DEF Chained
  <2>2. i = 1 \/ i - 1 \in 1 .. n - 1
    BY <1>1
  <2> QED
    BY <1>4, <2>1, <2>2 DEF Around
<1>6. TagOf(rest) = Last(s).prev
  <2>1. Last(s) = s[n] /\ s[n].prev = Around(s, n)
    BY <1>1 DEF Last, Chained
  <2>2. CASE n = 1
    <3>1. rest = <<>>
      BY <1>3, <2>2
    <3> QED
      BY <2>1, <2>2, <3>1 DEF TagOf, Around
  <2>3. CASE n # 1
    <3>1. n - 1 \in 1 .. n - 1 /\ rest # <<>>
      BY <1>1, <1>3, <2>3
    <3>2. Last(rest) = s[n - 1]
      BY <1>3, <1>4, <3>1 DEF Last
    <3> QED
      BY <2>1, <2>3, <3>1, <3>2 DEF TagOf, Around
  <2> QED
    BY <2>2, <2>3
<1> QED
  BY <1>1, <1>3, <1>5, <1>6 DEF rest, Last

\* A list without one of its entries is a list of the others.
LEMMA Removed ==
  ASSUME NEW s \in Seq(Faithful), NEW i \in DOMAIN s
  PROVE  RemoveAt(s, i) \in Seq(Faithful)
<1>1. Len(s) \in Nat /\ i \in 1 .. Len(s)
  OBVIOUS
<1>2. SubSeq(s, 1, i - 1) \in Seq(Faithful)
  BY <1>1, SubSeqProperties
<1>3. SubSeq(s, i + 1, Len(s)) \in Seq(Faithful)
  BY <1>1, SubSeqProperties
<1> QED
  BY <1>2, <1>3, ConcatProperties DEF RemoveAt

-----------------------------------------------------------------------------

\* No scope is open and nothing is allocated.
LEMMA InitInv == Init => IInv
<1> SUFFICES ASSUME Init PROVE IInv
  OBVIOUS
<1>1. <<>> \in Seq(ScopeType) /\ <<>> \in Seq(Faithful) /\ Chained(<<>>) /\ TagOf(<<>>) = General
  BY DEF Chained, TagOf
<1> QED
  BY <1>1 DEF Init, IInv, CurrentTag

\* The current tag is never null.
LEMMA CurrentType ==
  ASSUME IInv, NEW t \in Threads
  PROVE  CurrentTag(t) \in Tags \cup {General} /\ CurrentTag(t) # Null
  BY ProfileAssumption DEF IInv, CurrentTag

\* The constructor of ScopedTag saves what is around it.
LEMMA OpenKeeps ==
  ASSUME IInv, NEW t \in Threads, NEW tag \in Tags \cup {Null}, OpenScope(t, tag)
  PROVE  IInv'
<1> DEFINE e == [tag |-> tag, prev |-> CurrentTag(t)]
<1>1. /\ raw' = [raw EXCEPT ![t] = tag]
      /\ scopes' = [scopes EXCEPT ![t] = Append(scopes[t], e)]
      /\ records' = records
  BY DEF OpenScope
<1>2. e \in ScopeType /\ e.tag = tag /\ e.prev = TagOf(scopes[t]) /\ scopes[t] \in Seq(ScopeType)
      /\ Chained(scopes[t])
  BY CurrentType DEF ScopeType, IInv
<1> HIDE DEF e
<1>3. /\ Append(scopes[t], e) \in Seq(ScopeType) /\ Chained(Append(scopes[t], e))
      /\ TagOf(Append(scopes[t], e)) = IF tag = Null THEN General ELSE tag
  BY <1>2, Opened
<1>4. /\ raw' \in [Threads -> Tags \cup {Null, General}]
      /\ scopes' \in [Threads -> Seq(ScopeType)]
      /\ records' \in Seq(Faithful)
  BY <1>1, <1>3 DEF IInv
<1>5. ASSUME NEW u \in Threads
      PROVE  Chained(scopes'[u]) /\ CurrentTag(u)' = TagOf(scopes'[u])
  <2>1. CASE u = t
    BY <1>1, <1>3, <2>1 DEF IInv, CurrentTag
  <2>2. CASE u # t
    BY <1>1, <2>2 DEF IInv, CurrentTag
  <2> QED
    BY <2>1, <2>2
<1>6. \A u \in Threads : Chained(scopes[u])' /\ (CurrentTag(u) = TagOf(scopes[u]))'
  BY <1>5 DEF Chained, Around, TagOf
<1> QED
  BY <1>4, <1>6 DEF IInv

\* The destructor puts back what the scope around it left.
LEMMA CloseKeeps ==
  ASSUME IInv, NEW t \in Threads, CloseScope(t)
  PROVE  IInv'
<1>1. /\ scopes[t] # <<>>
      /\ raw' = [raw EXCEPT ![t] = Last(scopes[t]).prev]
      /\ scopes' = [scopes EXCEPT ![t] = Front(scopes[t])]
      /\ records' = records
  BY DEF CloseScope, Restored
<1>2. scopes[t] \in Seq(ScopeType) /\ Chained(scopes[t])
  BY DEF IInv
<1>3. /\ Front(scopes[t]) \in Seq(ScopeType) /\ Chained(Front(scopes[t]))
      /\ Last(scopes[t]) \in ScopeType
      /\ TagOf(Front(scopes[t])) = Last(scopes[t]).prev
  BY <1>1, <1>2, Closed
<1>4. Last(scopes[t]).prev \in Tags \cup {General} /\ Last(scopes[t]).prev # Null
  BY <1>3, ProfileAssumption DEF ScopeType
<1>5. /\ raw' \in [Threads -> Tags \cup {Null, General}]
      /\ scopes' \in [Threads -> Seq(ScopeType)]
      /\ records' \in Seq(Faithful)
  BY <1>1, <1>3, <1>4 DEF IInv
<1>6. ASSUME NEW u \in Threads
      PROVE  Chained(scopes'[u]) /\ CurrentTag(u)' = TagOf(scopes'[u])
  <2>1. CASE u = t
    BY <1>1, <1>3, <1>4, <2>1 DEF IInv, CurrentTag
  <2>2. CASE u # t
    BY <1>1, <2>2 DEF IInv, CurrentTag
  <2> QED
    BY <2>1, <2>2
<1>7. \A u \in Threads : Chained(scopes[u])' /\ (CurrentTag(u) = TagOf(scopes[u]))'
  BY <1>6 DEF Chained, Around, TagOf
<1> QED
  BY <1>5, <1>7 DEF IInv

\* allocate, reallocate and deallocate, on any thread, leave the scopes alone.
LEMMA RecordsKeep ==
  ASSUME IInv, raw' = raw, scopes' = scopes, records' \in Seq(Faithful)
  PROVE  IInv'
  BY DEF IInv, CurrentTag, TagOf, Chained, Around

\* A new record has the tag the text asks for.
LEMMA AllocateKeeps ==
  ASSUME IInv, NEW t \in Threads, NEW tag \in Tags \cup {Null}, NEW size \in Sizes,
         NEW stack \in Captures, Allocate(t, tag, size, stack)
  PROVE  IInv'
<1> DEFINE rec == [tag |-> FinalTag(t, tag), size |-> size, stack |-> stack, born |-> Written(t, tag)]
<1>1. raw' = raw /\ scopes' = scopes /\ records' = Append(records, rec)
  BY DEF Allocate
<1>2. FinalTag(t, tag) \in Tags \cup {General} /\ FinalTag(t, tag) = Written(t, tag)
  BY CurrentType DEF FinalTag, Written, TagOf, IInv
<1>3. rec \in Faithful
  BY <1>2 DEF Faithful
<1> HIDE DEF rec
<1>4. Append(records, rec) \in Seq(Faithful)
  BY <1>3 DEF IInv
<1> QED
  BY <1>1, <1>4, RecordsKeep

\* A reallocated block keeps its tag, whatever scopes the thread is in.
LEMMA ReallocateKeeps ==
  ASSUME IInv, NEW t \in Threads, NEW i \in DOMAIN records, NEW size \in Sizes,
         NEW stack \in Captures, Reallocate(t, i, size, stack)
  PROVE  IInv'
<1> DEFINE rec == [tag |-> TagKept(t, records[i]), size |-> size, stack |-> stack, born |-> records[i].born]
<1>1. raw' = raw /\ scopes' = scopes /\ records' = Append(RemoveAt(records, i), rec)
  BY DEF Reallocate
<1>2. records \in Seq(Faithful) /\ records[i] \in Faithful
  BY DEF IInv
<1>3. rec \in Faithful
  BY <1>2, ProfileAssumption DEF Faithful, TagKept, FinalTag
<1>4. RemoveAt(records, i) \in Seq(Faithful)
  BY <1>2, Removed
<1> HIDE DEF rec
<1>5. Append(RemoveAt(records, i), rec) \in Seq(Faithful)
  BY <1>3, <1>4
<1> QED
  BY <1>1, <1>5, RecordsKeep

\* Every step keeps the chain of the scopes and the tags of the records.
LEMMA StepInv == IInv /\ [Next]_vars => IInv'
<1> SUFFICES ASSUME IInv, [Next]_vars PROVE IInv'
  OBVIOUS
<1>1. CASE UNCHANGED vars
  BY <1>1, RecordsKeep DEF vars, IInv
<1>2. ASSUME NEW i \in DOMAIN records, Free(i) PROVE IInv'
  <2>1. RemoveAt(records, i) \in Seq(Faithful)
    BY Removed DEF IInv
  <2> QED
    BY <1>2, <2>1, RecordsKeep DEF Free
<1> QED
  BY <1>1, <1>2, OpenKeeps, CloseKeeps, AllocateKeeps, ReallocateKeeps DEF Next

\* Every allocation carries the tag that the scopes around it in the source
\* text give it, and keeps it (scope_tag.hpp:36-37, memsentry.cpp:241-242, 363).
THEOREM TagsAlwaysFollow == Spec => []TagsFollowScopes
<1>1. IInv => TagsFollowScopes
  <2> SUFFICES ASSUME IInv PROVE TagsFollowScopes
    OBVIOUS
  <2>1. \A t \in Threads : CurrentTag(t) = Written(t, Null)
    BY DEF IInv, TagOf, Written
  <2>2. \A i \in DOMAIN records : records[i] \in Faithful
    BY DEF IInv
  <2>3. \A i \in DOMAIN records : records[i].tag = records[i].born
    BY <2>2 DEF Faithful
  <2> QED
    BY <2>1, <2>3 DEF TagsFollowScopes
<1> QED
  BY InitInv, StepInv, <1>1, PTL DEF Spec

-----------------------------------------------------------------------------
(* Paths.                                                                  *)

Frames == {Null} \cup DOMAIN SymbolOf

Names == {Unknown} \cup {SymbolOf[a] : a \in DOMAIN SymbolOf}

\* What is captured is a piece of a call stack.
LEMMA CaptureType ==
  ASSUME NEW stack \in Captures
  PROVE  stack \in Seq(Frames)
<1>1. PICK c \in Configs, all \in Stacks : stack = Capture(c, all)
  BY DEF Captures
<1>2. /\ c.stack_skip_frames \in Nat /\ c.max_stack_depth \in Nat
      /\ Slots \in Nat /\ MaxCapture \in Nat
      /\ all \in Seq(Frames) /\ Len(all) \in Nat
  BY ProfileAssumption DEF ConfigType, Frames
<1>3. PICK depth \in Nat : depth = Least(c.max_stack_depth, Slots)
  BY <1>2 DEF Least
<1>4. PICK found \in Nat : /\ found = Least(Len(all), Least(depth + c.stack_skip_frames, MaxCapture))
                           /\ found <= Len(all)
  BY <1>2, <1>3 DEF Least
<1>5. PICK last \in Nat : last = Least(found, depth + c.stack_skip_frames) /\ last <= Len(all)
  BY <1>2, <1>3, <1>4 DEF Least
<1>6. stack = <<>> \/ stack = SubSeq(all, c.stack_skip_frames + 1, last)
  BY <1>1, <1>3, <1>4, <1>5 DEF Capture
<1>7. \A i \in c.stack_skip_frames + 1 .. last : all[i] \in Frames
  BY <1>2, <1>5
<1>8. SubSeq(all, c.stack_skip_frames + 1, last) \in Seq(Frames)
  BY <1>2, <1>7, SubSeqProperties
<1>9. <<>> \in Seq(Frames)
  OBVIOUS
<1> QED
  BY <1>6, <1>8, <1>9

\* Its names are names, and there are none where there are no frames.
LEMMA ResolveType ==
  ASSUME NEW stack \in Seq(Frames)
  PROVE  Resolve(stack) \in Seq(Names) /\ (stack = <<>> => Resolve(stack) = <<>>)
<1>1. PICK real : real = Without(stack, {Null})
  OBVIOUS
<1>2. /\ real \in Seq(Frames \ {Null})
      /\ Len(real) + Cardinality({i \in DOMAIN stack : stack[i] \in {Null}}) = Len(stack)
  BY <1>1, WithoutIs
<1>3. Frames \ {Null} \subseteq DOMAIN SymbolOf
  BY DEF Frames
<1>4. DOMAIN real = 1 .. Len(real) /\ Len(real) \in Nat /\ \A i \in 1 .. Len(real) : real[i] \in DOMAIN SymbolOf
  BY <1>2, <1>3
<1>5. Resolve(stack) = [i \in 1 .. Len(real) |-> SymbolOf[real[i]]]
  BY <1>1, <1>4 DEF Resolve
<1>6. Resolve(stack) \in Seq(Names)
  BY <1>4, <1>5 DEF Names
<1>7. ASSUME stack = <<>> PROVE Resolve(stack) = <<>>
  <2>1. {i \in DOMAIN stack : stack[i] \in {Null}} = {} /\ Len(stack) = 0
    BY <1>7
  <2>2. Len(real) = 0
    BY <1>2, <1>4, <2>1, FS_EmptySet
  <2> QED
    BY <1>5, <1>6, <2>2
<1> QED
  BY <1>6, <1>7

\* Back to front.
LEMMA ReverseIs ==
  ASSUME NEW T, NEW s \in Seq(T)
  PROVE  Reverse(s) \in Seq(T)
<1>1. Len(s) \in Nat
  OBVIOUS
<1>2. ASSUME NEW i \in 1 .. Len(s) PROVE s[(Len(s) - i) + 1] \in T
  BY <1>1
<1> QED
  BY <1>1, <1>2 DEF Reverse

\* The path of a record is a sequence of names, its size is a number.
LEMMA RecordType ==
  ASSUME NEW rec \in Faithful
  PROVE  Path(rec) \in Seq(Names) /\ rec.size \in Nat /\ rec.stack \in Seq(Frames)
<1>1. rec.stack \in Seq(Frames) /\ rec.size \in Nat
  BY CaptureType, ProfileAssumption DEF Faithful
<1>2. Reverse(Resolve(rec.stack)) \in Seq(Names)
  BY <1>1, ResolveType, ReverseIs
<1>3. <<Unknown>> \in Seq(Names)
  BY DEF Names
<1> QED
  BY <1>1, <1>2, <1>3 DEF Path

\* A path passes through a node.
Through(p, path) == Len(p) <= Len(path) /\ \A i \in 1 .. Len(p) : p[i] = path[i]

\* Those are its prefixes.
LEMMA PrefixIs ==
  ASSUME NEW T, NEW path \in Seq(T), NEW p
  PROVE  p \in Prefixes(path) <=> p \in Seq(T) /\ Through(p, path)
<1>1. Len(path) \in Nat /\ DOMAIN path = 1 .. Len(path)
  OBVIOUS
<1>2. ASSUME NEW l \in 0 .. Len(path)
      PROVE  /\ SubSeq(path, 1, l) \in Seq(T) /\ Len(SubSeq(path, 1, l)) = l
             /\ \A i \in 1 .. l : SubSeq(path, 1, l)[i] = path[i]
  BY <1>1
<1>3. ASSUME p \in Prefixes(path) PROVE p \in Seq(T) /\ Through(p, path)
  <2>1. PICK l \in 0 .. Len(path) : p = SubSeq(path, 1, l)
    BY <1>3 DEF Prefixes
  <2> QED
    BY <1>1, <1>2, <2>1 DEF Through
<1>4. ASSUME p \in Seq(T), Through(p, path) PROVE p \in Prefixes(path)
  <2>1. PICK l : l = Len(p)
    OBVIOUS
  <2>2. l \in 0 .. Len(path)
    BY <1>1, <1>4, <2>1 DEF Through
  <2>3. PICK q : q = SubSeq(path, 1, l)
    OBVIOUS
  <2>4. q \in Seq(T) /\ Len(q) = Len(p) /\ \A i \in 1 .. Len(p) : q[i] = p[i]
    BY <1>2, <1>4, <2>1, <2>2, <2>3 DEF Through
  <2>5. p = q
    BY <1>4, <2>4, SeqEqual
  <2> QED
    BY <2>2, <2>3, <2>5 DEF Prefixes
<1> QED
  BY <1>3, <1>4

-----------------------------------------------------------------------------
(* The tree.  After k records, P[i] the path and W[i] the size of the      *)
(* i-th, a node counts the records whose paths pass through it, keeps      *)
(* those whose paths end there, and has a child for each way they go on.   *)

Data(n, P, W) == n \in Nat /\ P \in [1 .. n -> Seq(Names)] /\ W \in [1 .. n -> Nat]

Thru(P, k, p) == {i \in 1 .. k : Through(p, P[i])}

Here(P, k, p) == {i \in 1 .. k : P[i] = p}

NodeType == [self : Nat, total : Nat, selfCount : Nat, count : Nat, children : Seq(Names)]

Counts(node, P, W, k, p) ==
  /\ node.total = Weigh(W, Thru(P, k, p)) /\ node.count = Cardinality(Thru(P, k, p))
  /\ node.self = Weigh(W, Here(P, k, p)) /\ node.selfCount = Cardinality(Here(P, k, p))

Distinct(s) == \A i, j \in DOMAIN s : s[i] = s[j] => i = j

Among(s, e) == \E i \in DOMAIN s : s[i] = e

Family(children, P, k, p) ==
  /\ Distinct(children)
  /\ \A name \in Names : Among(children, name) <=> Thru(P, k, Append(p, name)) # {}

NodeIs(node, P, W, k, p) ==
  /\ node \in NodeType
  /\ Counts(node, P, W, k, p)
  /\ Family(node.children, P, k, p)

Nodes(P, k) == {p \in Seq(Names) : p = Root \/ Thru(P, k, p) # {}}

Grown(tree, P, W, k) ==
  /\ DOMAIN tree = Nodes(P, k)
  /\ \A p \in Nodes(P, k) : NodeIs(tree[p], P, W, k, p)

\* Every path passes through the root and through its own end.
LEMMA Ends ==
  ASSUME NEW p \in Seq(Names), NEW path \in Seq(Names)
  PROVE  /\ Through(Root, path) /\ Through(path, path)
         /\ Through(p, path) /\ Len(p) = Len(path) => p = path
<1>1. Len(path) \in Nat /\ Len(p) \in Nat
  OBVIOUS
<1>2. Through(Root, path)
  BY <1>1 DEF Through, Root
<1>3. Through(path, path)
  BY <1>1 DEF Through
<1>4. ASSUME Through(p, path), Len(p) = Len(path) PROVE p = path
  BY <1>4, SeqEqual DEF Through
<1> QED
  BY <1>2, <1>3, <1>4

\* A path passes through a child if it passes through the node and goes on there.
LEMMA ThroughChild ==
  ASSUME NEW p \in Seq(Names), NEW name \in Names, NEW path \in Seq(Names)
  PROVE  /\ Append(p, name) \in Seq(Names)
         /\ Through(Append(p, name), path)
              <=> Through(p, path) /\ Len(p) < Len(path) /\ path[Len(p) + 1] = name
<1>1. PICK q : q = Append(p, name)
  OBVIOUS
<1>2. PICK m \in Nat : m = Len(p)
  OBVIOUS
<1>3. PICK l \in Nat : l = Len(path)
  OBVIOUS
<1>4. /\ q \in Seq(Names) /\ Len(q) = m + 1 /\ q[m + 1] = name
      /\ \A i \in 1 .. m : q[i] = p[i]
  BY <1>1, <1>2, AppendProperties
<1>5. ASSUME Through(q, path) PROVE Through(p, path) /\ m < l /\ path[m + 1] = name
  <2>1. m + 1 <= l /\ \A i \in 1 .. m + 1 : q[i] = path[i]
    BY <1>3, <1>4, <1>5 DEF Through
  <2>2. \A i \in 1 .. m : p[i] = path[i]
    BY <1>4, <2>1
  <2> QED
    BY <1>2, <1>3, <1>4, <2>1, <2>2 DEF Through
<1>6. ASSUME Through(p, path), m < l, path[m + 1] = name PROVE Through(q, path)
  <2>1. \A i \in 1 .. m : q[i] = path[i]
    BY <1>2, <1>4, <1>6 DEF Through
  <2>2. \A i \in 1 .. m + 1 : i \in 1 .. m \/ i = m + 1
    OBVIOUS
  <2>3. \A i \in 1 .. m + 1 : q[i] = path[i]
    BY <1>4, <1>6, <2>1, <2>2
  <2> QED
    BY <1>3, <1>4, <1>6, <2>3 DEF Through
<1> QED
  BY <1>1, <1>2, <1>3, <1>4, <1>5, <1>6

\* What one more record changes.
LEMMA ThruNext ==
  ASSUME NEW P, NEW k \in Nat, NEW p
  PROVE  /\ Through(p, P[k + 1]) => Thru(P, k + 1, p) = Thru(P, k, p) \cup {k + 1}
         /\ ~Through(p, P[k + 1]) => Thru(P, k + 1, p) = Thru(P, k, p)
         /\ P[k + 1] = p => Here(P, k + 1, p) = Here(P, k, p) \cup {k + 1}
         /\ P[k + 1] # p => Here(P, k + 1, p) = Here(P, k, p)
         /\ k + 1 \notin Thru(P, k, p) /\ k + 1 \notin Here(P, k, p)
         /\ Thru(P, k, p) \subseteq 1 .. k /\ Here(P, k, p) \subseteq 1 .. k
         /\ IsFiniteSet(Thru(P, k, p)) /\ IsFiniteSet(Here(P, k, p))
<1>1. IsFiniteSet(1 .. k)
  BY FS_Interval
<1>2. \A i \in 1 .. k + 1 : i \in 1 .. k \/ i = k + 1
  OBVIOUS
<1>3. 1 .. k \subseteq 1 .. k + 1 /\ k + 1 \in 1 .. k + 1 /\ k + 1 \notin 1 .. k
  OBVIOUS
<1>4. Thru(P, k, p) \subseteq 1 .. k /\ Here(P, k, p) \subseteq 1 .. k
  BY DEF Thru, Here
<1>5. IsFiniteSet(Thru(P, k, p)) /\ IsFiniteSet(Here(P, k, p))
  BY <1>1, <1>4, FS_Subset
<1>6. /\ Through(p, P[k + 1]) => Thru(P, k + 1, p) = Thru(P, k, p) \cup {k + 1}
      /\ ~Through(p, P[k + 1]) => Thru(P, k + 1, p) = Thru(P, k, p)
  BY <1>2, <1>3 DEF Thru
<1>7. /\ P[k + 1] = p => Here(P, k + 1, p) = Here(P, k, p) \cup {k + 1}
      /\ P[k + 1] # p => Here(P, k + 1, p) = Here(P, k, p)
  BY <1>2, <1>3 DEF Here
<1> QED
  BY <1>3, <1>4, <1>5, <1>6, <1>7

\* One more record at a set adds its size and one.
LEMMA OneMore ==
  ASSUME NEW n, NEW P, NEW W, Data(n, P, W), NEW k \in Nat, k + 1 <= n, NEW S \in SUBSET (1 .. k)
  PROVE  /\ Weigh(W, S \cup {k + 1}) = Weigh(W, S) + W[k + 1] /\ Weigh(W, S) \in Nat
         /\ Cardinality(S \cup {k + 1}) = Cardinality(S) + 1 /\ Cardinality(S) \in Nat
         /\ W[k + 1] \in Nat
<1>1. IsFiniteSet(1 .. k) /\ k + 1 \notin 1 .. k /\ 1 .. k \subseteq 1 .. n /\ k + 1 \in 1 .. n
  BY FS_Interval DEF Data
<1>2. IsFiniteSet(S) /\ S \in SUBSET (1 .. n) /\ k + 1 \in (1 .. n) \ S
  BY <1>1, FS_Subset
<1>3. Weigh(W, S \cup {k + 1}) = Weigh(W, S) + W[k + 1] /\ Weigh(W, S) \in Nat
  <2>1. PICK D, x : D = 1 .. n /\ x = k + 1
    OBVIOUS
  <2>2. W \in [D -> Nat] /\ S \in SUBSET D /\ x \in D \ S /\ W[x] \in Nat
    BY <1>1, <1>2, <2>1 DEF Data
  <2>3. IsFiniteSet(S)
    BY <1>2
  <2>4. Weigh(W, S \cup {x}) = W[x] + Weigh(W, S)
    <3>1. \A y \in D \ S : Weigh(W, S \cup {y}) = W[y] + Weigh(W, S)
      BY <2>2, <2>3, WeighAdd
    <3> QED
      BY <2>2, <3>1
  <2>5. Weigh(W, S) \in Nat
    BY <2>2, <2>3, WeighType
  <2> QED
    BY <2>1, <2>2, <2>4, <2>5
<1>4. Cardinality(S \cup {k + 1}) = Cardinality(S) + 1 /\ Cardinality(S) \in Nat
  BY <1>2, FS_AddElement, FS_CardinalityType
<1>5. W[k + 1] \in Nat
  BY <1>1 DEF Data
<1> QED
  BY <1>3, <1>4, <1>5

\* A node that the next record passes, ends at or leaves alone.
LEMMA CountsNext ==
  ASSUME NEW n, NEW P, NEW W, Data(n, P, W), NEW k \in Nat, k + 1 <= n, NEW p, NEW node, Counts(node, P, W, k, p), NEW new,
         new.total = IF Through(p, P[k + 1]) THEN node.total + W[k + 1] ELSE node.total,
         new.count = IF Through(p, P[k + 1]) THEN node.count + 1 ELSE node.count,
         new.self = IF P[k + 1] = p THEN node.self + W[k + 1] ELSE node.self,
         new.selfCount = IF P[k + 1] = p THEN node.selfCount + 1 ELSE node.selfCount
  PROVE  Counts(new, P, W, k + 1, p)
<1>1. PICK t : t = Thru(P, k, p)
  OBVIOUS
<1>2. PICK h : h = Here(P, k, p)
  OBVIOUS
<1>3. t \in SUBSET (1 .. k) /\ h \in SUBSET (1 .. k)
  BY <1>1, <1>2, ThruNext
<1>4. /\ Through(p, P[k + 1]) => Thru(P, k + 1, p) = t \cup {k + 1}
      /\ ~Through(p, P[k + 1]) => Thru(P, k + 1, p) = t
      /\ P[k + 1] = p => Here(P, k + 1, p) = h \cup {k + 1}
      /\ P[k + 1] # p => Here(P, k + 1, p) = h
  BY <1>1, <1>2, ThruNext
<1>5. /\ Weigh(W, t \cup {k + 1}) = Weigh(W, t) + W[k + 1]
      /\ Cardinality(t \cup {k + 1}) = Cardinality(t) + 1
  BY <1>3, OneMore
<1>6. /\ Weigh(W, h \cup {k + 1}) = Weigh(W, h) + W[k + 1]
      /\ Cardinality(h \cup {k + 1}) = Cardinality(h) + 1
  BY <1>3, OneMore
<1>7. /\ node.total = Weigh(W, t) /\ node.count = Cardinality(t)
      /\ node.self = Weigh(W, h) /\ node.selfCount = Cardinality(h)
  BY <1>1, <1>2 DEF Counts
<1>8. new.total = Weigh(W, Thru(P, k + 1, p)) /\ new.count = Cardinality(Thru(P, k + 1, p))
  BY <1>4, <1>5, <1>7
<1>9. new.self = Weigh(W, Here(P, k + 1, p)) /\ new.selfCount = Cardinality(Here(P, k + 1, p))
  BY <1>4, <1>6, <1>7
<1> QED
  BY <1>8, <1>9 DEF Counts

\* A node that the next record does not pass, or passes no further, keeps its
\* children.
LEMMA FamilyKept ==
  ASSUME NEW n, NEW P, NEW W, Data(n, P, W), NEW k \in Nat, k + 1 <= n,
         NEW p \in Seq(Names), NEW children, Family(children, P, k, p),
         ~Through(p, P[k + 1]) \/ p = P[k + 1]
  PROVE  Family(children, P, k + 1, p)
<1>1. PICK path \in Seq(Names) : path = P[k + 1]
  <2>1. k + 1 \in 1 .. n
    BY DEF Data
  <2> QED
    BY <2>1 DEF Data
<1>2. ASSUME NEW name \in Names PROVE ~Through(Append(p, name), path)
  <2>1. Len(p) \in Nat
    OBVIOUS
  <2> QED
    BY <1>1, <2>1, ThroughChild
<1>3. \A name \in Names : Thru(P, k + 1, Append(p, name)) = Thru(P, k, Append(p, name))
  BY <1>1, <1>2, ThruNext
<1> QED
  BY <1>3 DEF Family

\* A node is passed once the next path passes through it.
LEMMA ThruReached ==
  ASSUME NEW P, NEW k \in Nat, NEW p, NEW path, path = P[k + 1]
  PROVE  Thru(P, k + 1, p) # {} <=> Through(p, path) \/ Thru(P, k, p) # {}
<1>1. \A i : i \in 1 .. k + 1 <=> i \in 1 .. k \/ i = k + 1
  OBVIOUS
<1> QED
  BY <1>1 DEF Thru

\* A node that the next record passes has the child where it goes on, the last
\* one if it is new.
LEMMA FamilyGrows ==
  ASSUME NEW n, NEW P, NEW W, Data(n, P, W), NEW k \in Nat, k + 1 <= n,
         NEW p \in Seq(Names), NEW children \in Seq(Names), Family(children, P, k, p),
         NEW path \in Seq(Names), path = P[k + 1],
         Through(p, path), p # path, NEW next, next = path[Len(p) + 1],
         NEW new, new = IF Contains(children, next) THEN children ELSE Append(children, next)
  PROVE  new \in Seq(Names) /\ Family(new, P, k + 1, p)
<1>1. path = P[k + 1]
  OBVIOUS
<1>2. Len(p) < Len(path) /\ next \in Names
  <2>1. Len(p) \in Nat /\ Len(path) \in Nat /\ Len(p) <= Len(path)
    BY <1>1 DEF Through
  <2>2. Len(p) # Len(path)
    BY <1>1, Ends
  <2>3. Len(p) < Len(path) /\ Len(p) + 1 \in 1 .. Len(path)
    BY <2>1, <2>2
  <2> QED
    BY <1>1, <2>3
<1>3. ASSUME NEW name \in Names PROVE Through(Append(p, name), path) <=> name = next
  BY <1>1, <1>2, ThroughChild
<1>4. ASSUME NEW name \in Names
      PROVE  Thru(P, k + 1, Append(p, name)) # {} <=> name = next \/ Among(children, name)
  <2>1. PICK q : q = Append(p, name)
    OBVIOUS
  <2>2. Through(q, path) <=> name = next
    BY <1>1, <1>3, <2>1
  <2>3. Thru(P, k + 1, q) # {} <=> name = next \/ Thru(P, k, q) # {}
    BY <1>1, <2>2, ThruReached
  <2>4. Among(children, name) <=> Thru(P, k, q) # {}
    BY <2>1 DEF Family
  <2> QED
    BY <2>1, <2>3, <2>4
<1>5. PICK m \in Nat : m = Len(children) /\ DOMAIN children = 1 .. m
  OBVIOUS
<1>6. Contains(children, next) <=> Among(children, next)
  BY <1>5 DEF Contains, Among
<1>7. CASE Among(children, next)
  <2>1. new = children
    BY <1>6, <1>7
  <2>2. \A name \in Names : Among(children, name) <=> Thru(P, k + 1, Append(p, name)) # {}
    BY <1>4, <1>7
  <2> QED
    BY <2>1, <2>2 DEF Family
<1>8. CASE ~Among(children, next)
  <2>1. new = Append(children, next)
    BY <1>6, <1>8
  <2>2. /\ new \in Seq(Names) /\ DOMAIN new = 1 .. m + 1 /\ new[m + 1] = next
        /\ \A i \in 1 .. m : new[i] = children[i]
    BY <1>2, <1>5, <2>1, AppendProperties
  <2>3. \A i \in 1 .. m + 1 : i \in 1 .. m \/ i = m + 1
    OBVIOUS
  <2>4. \A i \in 1 .. m : i \in 1 .. m + 1
    OBVIOUS
  <2>5. m + 1 \in 1 .. m + 1 /\ m + 1 \notin 1 .. m
    OBVIOUS
  <2>6. \A i \in 1 .. m : children[i] # next
    BY <1>5, <1>8 DEF Among
  <2>7. \A i, j \in 1 .. m : children[i] = children[j] => i = j
    BY <1>5 DEF Family, Distinct
  <2>8. Distinct(new)
    <3>1. ASSUME NEW i \in 1 .. m + 1, NEW j \in 1 .. m + 1, new[i] = new[j] PROVE i = j
      <4>1. (i \in 1 .. m \/ i = m + 1) /\ (j \in 1 .. m \/ j = m + 1)
        BY <2>3
      <4>2. CASE i \in 1 .. m /\ j \in 1 .. m
        BY <2>2, <2>7, <3>1, <4>2
      <4>3. CASE i = m + 1 /\ j \in 1 .. m
        BY <2>2, <2>6, <3>1, <4>3
      <4>4. CASE i \in 1 .. m /\ j = m + 1
        BY <2>2, <2>6, <3>1, <4>4
      <4> QED
        BY <4>1, <4>2, <4>3, <4>4
    <3> QED
      BY <2>2, <3>1 DEF Distinct
  <2>9. \A name : Among(new, name) <=> Among(children, name) \/ name = next
    BY <1>5, <2>2, <2>3, <2>4, <2>5 DEF Among
  <2>10. \A name \in Names : Among(new, name) <=> Thru(P, k + 1, Append(p, name)) # {}
    BY <1>4, <2>9
  <2> QED
    BY <2>2, <2>8, <2>10 DEF Family
<1> QED
  BY <1>7, <1>8

\* A node nobody has passed yet.
LEMMA NodeNew ==
  ASSUME NEW P, NEW W, NEW k \in Nat, NEW p \in Seq(Names), Thru(P, k, p) = {}, p = Root \/ Len(p) # 0,
         \A i \in 1 .. k : P[i] \in Seq(Names)
  PROVE  NodeIs(NewNode, P, W, k, p)
<1>1. ASSUME NEW i \in 1 .. k, P[i] = p PROVE FALSE
  <2>1. Through(p, P[i])
    BY <1>1, Ends
  <2> QED
    BY <2>1 DEF Thru
<1>2. Here(P, k, p) = {}
  BY <1>1 DEF Here
<1>3. Weigh(W, {}) = 0
  <2>1. Units(W, {}) = {}
    BY DEF Units
  <2> QED
    BY <2>1, FS_EmptySet DEF Weigh
<1>4. Counts(NewNode, P, W, k, p)
  BY <1>2, <1>3, FS_EmptySet DEF Counts, NewNode
<1>5. ASSUME NEW name \in Names PROVE Thru(P, k, Append(p, name)) = {}
  <2>1. \A i \in 1 .. k : ~Through(p, P[i])
    BY DEF Thru
  <2>2. \A i \in 1 .. k : ~Through(Append(p, name), P[i])
    BY <2>1, ThroughChild
  <2> QED
    BY <2>2 DEF Thru
<1>6. Family(<<>>, P, k, p)
  BY <1>5 DEF Family, Distinct, Among
<1>7. NewNode \in NodeType
  BY DEF NewNode, NodeType
<1> QED
  BY <1>4, <1>6, <1>7 DEF NodeIs, NewNode

\* What AddRecord makes of a node, for a record of this size and path.
Visited(node, p, path, size) ==
  IF ~Through(p, path) THEN node
  ELSE IF p = path
       THEN [node EXCEPT !.total = @ + size, !.count = @ + 1, !.self = @ + size, !.selfCount = @ + 1]
       ELSE [node EXCEPT !.total = @ + size, !.count = @ + 1,
               !.children = IF Contains(@, path[Len(p) + 1]) THEN @ ELSE Append(@, path[Len(p) + 1])]

\* It keeps the account.
LEMMA NodeNext ==
  ASSUME NEW n, NEW P, NEW W, Data(n, P, W), NEW k \in Nat, k + 1 <= n,
         NEW p \in Seq(Names), NEW node, NodeIs(node, P, W, k, p)
  PROVE  NodeIs(Visited(node, p, P[k + 1], W[k + 1]), P, W, k + 1, p)
<1>1. PICK new : new = Visited(node, p, P[k + 1], W[k + 1])
  OBVIOUS
<1>2. PICK path \in Seq(Names) : path = P[k + 1]
  <2>1. k + 1 \in 1 .. n
    BY DEF Data
  <2> QED
    BY <2>1 DEF Data
<1>3. PICK size \in Nat : size = W[k + 1]
  <2>1. k + 1 \in 1 .. n
    BY DEF Data
  <2> QED
    BY <2>1 DEF Data
<1>4. node \in NodeType /\ Counts(node, P, W, k, p) /\ Family(node.children, P, k, p)
  BY DEF NodeIs
<1>5. node.children \in Seq(Names)
  BY <1>4 DEF NodeType
<1>9. /\ node.self + size \in Nat /\ node.total + size \in Nat /\ node.self \in Nat
      /\ node.selfCount + 1 \in Nat /\ node.count + 1 \in Nat /\ node.selfCount \in Nat
  BY <1>4 DEF NodeType
<1>6. CASE ~Through(p, path)
  <2>1. new = node /\ p # path
    BY <1>1, <1>2, <1>6, Ends DEF Visited
  <2>2. Counts(node, P, W, k + 1, p)
    BY <1>2, <1>4, <1>6, <2>1, CountsNext
  <2>3. Family(node.children, P, k + 1, p)
    BY <1>2, <1>4, <1>6, FamilyKept
  <2> QED
    BY <1>1, <1>4, <2>1, <2>2, <2>3 DEF NodeIs
<1>7. CASE p = path
  <2>1. Through(p, path)
    BY <1>7, Ends
  <2>2. new = [node EXCEPT !.total = @ + size, !.count = @ + 1, !.self = @ + size, !.selfCount = @ + 1]
    BY <1>1, <1>2, <1>3, <1>7, <2>1 DEF Visited
  <2>3. /\ new \in NodeType /\ new.children = node.children
        /\ new.total = node.total + size /\ new.count = node.count + 1
        /\ new.self = node.self + size /\ new.selfCount = node.selfCount + 1
    <3>1. new = [self |-> node.self + size, total |-> node.total + size, selfCount |-> node.selfCount + 1,
                 count |-> node.count + 1, children |-> node.children]
      BY <1>4, <2>2 DEF NodeType
    <3> QED
      BY <1>5, <1>9, <3>1 DEF NodeType
  <2>4. Counts(new, P, W, k + 1, p)
    BY <1>2, <1>3, <1>4, <1>7, <2>1, <2>3, CountsNext
  <2>5. Family(node.children, P, k + 1, p)
    BY <1>2, <1>4, <1>7, FamilyKept
  <2> QED
    BY <1>1, <2>3, <2>4, <2>5 DEF NodeIs
<1>8. CASE Through(p, path) /\ p # path
  <2>1. PICK next : next = path[Len(p) + 1]
    OBVIOUS
  <2>2. PICK c : c = IF Contains(node.children, next) THEN node.children ELSE Append(node.children, next)
    OBVIOUS
  <2>3. new = [node EXCEPT !.total = @ + size, !.count = @ + 1, !.children = c]
    BY <1>1, <1>2, <1>3, <1>8, <2>1, <2>2 DEF Visited
  <2>4. c \in Seq(Names) /\ Family(c, P, k + 1, p)
    BY <1>2, <1>4, <1>5, <1>8, <2>1, <2>2, FamilyGrows
  <2>5. /\ new \in NodeType /\ new.children = c
        /\ new.total = node.total + size /\ new.count = node.count + 1
        /\ new.self = node.self /\ new.selfCount = node.selfCount
    <3>1. new = [self |-> node.self, total |-> node.total + size, selfCount |-> node.selfCount,
                 count |-> node.count + 1, children |-> c]
      BY <1>4, <2>3 DEF NodeType
    <3> QED
      BY <1>9, <2>4, <3>1 DEF NodeType
  <2>6. Counts(new, P, W, k + 1, p)
    BY <1>2, <1>3, <1>4, <1>8, <2>5, CountsNext
  <2> QED
    BY <1>1, <2>4, <2>5, <2>6 DEF NodeIs
<1> QED
  BY <1>6, <1>7, <1>8

\* The steps of AddRecord at one node of the path, taken together.
LEMMA VisitIs ==
  ASSUME NEW node \in NodeType, NEW rec, rec.size \in Nat, NEW p, NEW path, Through(p, path),
         NEW v, v = [node EXCEPT !.total = @ + rec.size, !.count = @ + 1]
  PROVE  /\ p = path => Kept(v, rec, TRUE) = Visited(node, p, path, rec.size)
         /\ p # path => Kept(WithChild(v, path[Len(p) + 1]), rec, FALSE) = Visited(node, p, path, rec.size)
<1>1. PICK size \in Nat : size = rec.size
  OBVIOUS
<1>2. /\ v = [node EXCEPT !.total = node.total + size, !.count = node.count + 1]
      /\ v \in NodeType
      /\ v.self = node.self /\ v.selfCount = node.selfCount /\ v.children = node.children
  <2>1. node.total \in Nat /\ node.count \in Nat
    BY DEF NodeType
  <2>2. node.total + size \in Nat /\ node.count + 1 \in Nat
    BY <2>1
  <2>3. v = [node EXCEPT !.total = node.total + size, !.count = node.count + 1]
    BY <1>1
  <2> QED
    BY <2>2, <2>3 DEF NodeType
<1>3. CASE p = path
  <2>1. Kept(v, rec, TRUE) = [v EXCEPT !.self = v.self + size, !.selfCount = v.selfCount + 1]
    BY <1>1 DEF Kept
  <2>2. Visited(node, p, path, size)
          = [node EXCEPT !.total = @ + size, !.count = @ + 1, !.self = @ + size, !.selfCount = @ + 1]
    BY <1>3 DEF Visited
  <2>3. [v EXCEPT !.self = v.self + size, !.selfCount = v.selfCount + 1]
          = [node EXCEPT !.total = node.total + size, !.count = node.count + 1,
                         !.self = node.self + size, !.selfCount = node.selfCount + 1]
    BY <1>2 DEF NodeType
  <2> QED
    BY <1>1, <1>3, <2>1, <2>2, <2>3
<1>4. CASE p # path
  <2>1. PICK next : next = path[Len(p) + 1]
    OBVIOUS
  <2>2. PICK c : c = IF Contains(node.children, next) THEN node.children ELSE Append(node.children, next)
    OBVIOUS
  <2>3. Visited(node, p, path, size) = [node EXCEPT !.total = @ + size, !.count = @ + 1, !.children = c]
    BY <1>4, <2>1, <2>2 DEF Visited
  <2>4. WithChild(v, next) = [v EXCEPT !.children = c]
    <3>1. CASE Contains(v.children, next)
      <4>1. c = v.children
        BY <1>2, <2>2, <3>1
      <4>2. [v EXCEPT !.children = c] = v
        BY <1>2, <4>1 DEF NodeType
      <4> QED
        BY <3>1, <4>2 DEF WithChild
    <3>2. CASE ~Contains(v.children, next)
      BY <1>2, <2>2, <3>2 DEF WithChild
    <3> QED
      BY <3>1, <3>2
  <2>5. [v EXCEPT !.children = c]
          = [node EXCEPT !.total = node.total + size, !.count = node.count + 1, !.children = c]
    BY <1>2 DEF NodeType
  <2>6. Kept(WithChild(v, next), rec, FALSE) = WithChild(v, next)
    BY DEF Kept
  <2> QED
    BY <1>1, <1>4, <2>1, <2>3, <2>4, <2>5, <2>6
<1> QED
  BY <1>3, <1>4

\* One record more keeps every account of the tree.
LEMMA TreeNext ==
  ASSUME NEW n, NEW P, NEW W, Data(n, P, W), NEW k \in Nat, k + 1 <= n,
         NEW tree, Grown(tree, P, W, k), NEW rec, Path(rec) = P[k + 1], rec.size = W[k + 1]
  PROVE  Grown(AddRecord(tree, rec), P, W, k + 1)
<1>1. PICK path \in Seq(Names) : path = P[k + 1]
  <2>1. k + 1 \in 1 .. n
    BY DEF Data
  <2> QED
    BY <2>1 DEF Data
<1>2. PICK on : on = Prefixes(path)
  OBVIOUS
<1>3. \A p : p \in on <=> p \in Seq(Names) /\ Through(p, path)
  BY <1>2, PrefixIs
<1>4. PICK D : D = DOMAIN tree \cup on
  OBVIOUS
<1>5. D = Nodes(P, k + 1)
  <2>1. Root \in on
    <3>1. Root \in Seq(Names)
      BY DEF Root
    <3> QED
      BY <1>3, <3>1, Ends
  <2>2. \A p : p \in D <=> p \in Seq(Names) /\ (p = Root \/ Thru(P, k, p) # {} \/ Through(p, path))
    BY <1>3, <1>4, <2>1 DEF Grown, Nodes
  <2>3. \A p : Thru(P, k + 1, p) # {} <=> Through(p, path) \/ Thru(P, k, p) # {}
    BY <1>1, ThruReached
  <2> QED
    BY <2>2, <2>3 DEF Nodes
<1>6. PICK old : old = [p \in D |-> IF p \in DOMAIN tree THEN tree[p] ELSE NewNode]
  OBVIOUS
<1>7. ASSUME NEW p \in D PROVE p \in Seq(Names) /\ NodeIs(old[p], P, W, k, p)
  <2>1. p \in Seq(Names)
    BY <1>5 DEF Nodes
  <2>2. CASE p \in DOMAIN tree
    BY <1>6, <2>1, <2>2 DEF Grown
  <2>3. CASE p \notin DOMAIN tree
    <3>1. p # Root /\ Thru(P, k, p) = {}
      BY <2>1, <2>3 DEF Grown, Nodes
    <3>2. Len(p) # 0
      BY <2>1, <3>1 DEF Root
    <3>3. \A i \in 1 .. k : i \in 1 .. n
      BY DEF Data
    <3>4. \A i \in 1 .. k : P[i] \in Seq(Names)
      BY <3>3 DEF Data
    <3>5. NodeIs(NewNode, P, W, k, p)
      BY <2>1, <3>1, <3>2, <3>4, NodeNew
    <3>6. old[p] = NewNode
      BY <1>6, <2>3
    <3> QED
      BY <2>1, <3>5, <3>6
  <2> QED
    BY <2>1, <2>2, <2>3
<1>8. PICK new : new = AddRecord(tree, rec)
  OBVIOUS
<1>9. new = [p \in D |-> IF p \in on
                         THEN Kept(IF p = path
                                   THEN [old[p] EXCEPT !.total = @ + rec.size, !.count = @ + 1]
                                   ELSE WithChild([old[p] EXCEPT !.total = @ + rec.size, !.count = @ + 1],
                                                  path[Len(p) + 1]), rec, p = path)
                         ELSE old[p]]
  BY <1>1, <1>2, <1>4, <1>6, <1>8 DEF AddRecord
<1>10. ASSUME NEW p \in D PROVE new[p] = Visited(old[p], p, path, rec.size)
  <2>1. old[p] \in NodeType /\ (p \in on <=> Through(p, path))
    BY <1>3, <1>7 DEF NodeIs
  <2>2. CASE p \in on
    <3>1. PICK node, v : node = old[p] /\ v = [node EXCEPT !.total = @ + rec.size, !.count = @ + 1]
      OBVIOUS
    <3>2. node \in NodeType /\ Through(p, path) /\ v = [node EXCEPT !.total = @ + rec.size, !.count = @ + 1]
      BY <2>1, <2>2, <3>1
    <3>3. rec.size \in Nat
      <4>1. k + 1 \in 1 .. n
        BY DEF Data
      <4> QED
        BY <4>1 DEF Data
    <3>4. CASE p = path
      <4>1. new[p] = Kept(v, rec, TRUE)
        BY <1>9, <2>2, <3>1, <3>4
      <4>2. Kept(v, rec, TRUE) = Visited(node, p, path, rec.size)
        BY <3>2, <3>3, <3>4, VisitIs
      <4> QED
        BY <3>1, <4>1, <4>2
    <3>5. CASE p # path
      <4>1. new[p] = Kept(WithChild(v, path[Len(p) + 1]), rec, FALSE)
        BY <1>9, <2>2, <3>1, <3>5
      <4>2. Kept(WithChild(v, path[Len(p) + 1]), rec, FALSE) = Visited(node, p, path, rec.size)
        BY <3>2, <3>3, <3>5, VisitIs
      <4> QED
        BY <3>1, <4>1, <4>2
    <3> QED
      BY <3>4, <3>5
  <2>3. CASE p \notin on
    BY <1>9, <2>1, <2>3 DEF Visited
  <2> QED
    BY <2>2, <2>3
<1>11. ASSUME NEW p \in D PROVE NodeIs(new[p], P, W, k + 1, p)
  <2>1. NodeIs(Visited(old[p], p, P[k + 1], W[k + 1]), P, W, k + 1, p)
    BY <1>7, NodeNext
  <2> QED
    BY <1>1, <1>10, <2>1
<1>12. DOMAIN new = D
  BY <1>9
<1> QED
  BY <1>5, <1>8, <1>11, <1>12 DEF Grown

\* build_tree keeps account of every record.
LEMMA TreeIs ==
  ASSUME NEW list \in Seq(Faithful), NEW n, n = Len(list),
         NEW P, P = [i \in 1 .. n |-> Path(list[i])], NEW W, W = [i \in 1 .. n |-> list[i].size]
  PROVE  Data(n, P, W) /\ Grown(BuildTree(list), P, W, n)
<1>1. n \in Nat /\ DOMAIN list = 1 .. n
  OBVIOUS
<1>2. \A i \in 1 .. n : list[i] \in Faithful
  BY <1>1
<1>3. Data(n, P, W)
  BY <1>1, <1>2, RecordType DEF Data
<1>4. PICK v : /\ v[0] = [p \in {Root} |-> NewNode]
               /\ \A k \in 1 .. n : v[k] = AddRecord(v[k - 1], list[k])
               /\ BuildTree(list) = v[n]
  BY <1>1, BuildChain
<1>5. PICK good : good = {k \in Nat : k <= n => Grown(v[k], P, W, k)}
  OBVIOUS
<1>6. 0 \in good
  <2>1. \A p : Thru(P, 0, p) = {}
    BY DEF Thru
  <2>2. Nodes(P, 0) = {Root} /\ Root \in Seq(Names)
    <3>1. Root \in Seq(Names)
      BY DEF Root
    <3> QED
      BY <2>1, <3>1 DEF Nodes
  <2>3. NodeIs(NewNode, P, W, 0, Root)
    BY <2>1, <2>2, NodeNew
  <2>4. Grown([p \in {Root} |-> NewNode], P, W, 0)
    BY <2>2, <2>3 DEF Grown
  <2> QED
    BY <1>4, <1>5, <2>4
<1>7. ASSUME NEW k \in good PROVE k + 1 \in good
  <2>1. k \in Nat
    BY <1>5
  <2> SUFFICES ASSUME k + 1 <= n PROVE Grown(v[k + 1], P, W, k + 1)
    BY <1>5, <2>1
  <2>2. Grown(v[k], P, W, k)
    BY <1>1, <1>5, <2>1
  <2>3. k + 1 \in 1 .. n /\ (k + 1) - 1 = k
    BY <1>1, <2>1
  <2>4. v[k + 1] = AddRecord(v[k], list[k + 1])
    BY <1>4, <2>3
  <2>5. Path(list[k + 1]) = P[k + 1] /\ list[k + 1].size = W[k + 1]
    BY <2>3
  <2>6. PICK rec : rec = list[k + 1]
    OBVIOUS
  <2>7. Grown(AddRecord(v[k], rec), P, W, k + 1)
    BY <1>3, <2>1, <2>2, <2>5, <2>6, TreeNext
  <2> QED
    BY <2>4, <2>6, <2>7
<1>8. n \in good
  <2>1. good \in SUBSET Nat
    BY <1>5
  <2> QED
    BY <1>1, <1>6, <1>7, <2>1, Induction
<1> QED
  BY <1>1, <1>3, <1>4, <1>5, <1>8

\* Two sums: the sizes of some records ...
LEMMA SizesAre ==
  ASSUME NEW n \in Nat, NEW W \in [1 .. n -> Nat], NEW list, \A i \in 1 .. n : list[i].size = W[i],
         NEW S \in SUBSET (1 .. n)
  PROVE  SizesAt(list, S) = Weigh(W, S)
<1>1. IsFiniteSet(S)
  <2>1. IsFiniteSet(1 .. n)
    BY FS_Interval
  <2> QED
    BY <2>1, FS_Subset
<1>2. PICK w \in [S -> Nat] : w = [i \in S |-> W[i]]
  OBVIOUS
<1>3. SizesAt(list, S) = (CHOOSE g : g = [s \in SUBSET S |->
            IF s = {} THEN 0 ELSE list[Pick(s)].size + g[s \ {Pick(s)}]])[S]
  BY DEF SizesAt, MapThenSumSet, MapThenFoldSet, Pick
<1>4. ASSUME NEW s \in SUBSET S, s # {} PROVE Pick(s) \in s /\ list[Pick(s)].size = w[Pick(s)]
  BY <1>2, <1>4 DEF Pick
<1>5. ASSUME NEW g
      PROVE  IsSum(g, w, S)
             <=> g = [s \in SUBSET S |-> IF s = {} THEN 0 ELSE list[Pick(s)].size + g[s \ {Pick(s)}]]
  BY <1>4 DEF IsSum
<1>6. PICK g : /\ IsSum(g, w, S)
               /\ g = CHOOSE h : h = [s \in SUBSET S |-> IF s = {} THEN 0 ELSE list[Pick(s)].size + h[s \ {Pick(s)}]]
  BY <1>1, <1>5, SumExists
<1>7. Units(w, S) = Units(W, S)
  BY <1>2 DEF Units
<1> QED
  BY <1>1, <1>3, <1>6, <1>7, SumIs DEF Weigh

\* ... and the totals of the children.
LEMMA BytesAre ==
  ASSUME NEW tree, NEW p, NEW children, IsFiniteSet(DOMAIN children),
         NEW v \in [DOMAIN children -> Nat], \A i \in DOMAIN children : tree[Append(p, children[i])].total = v[i]
  PROVE  Bytes(tree, p, children) = Weigh(v, DOMAIN children)
<1>1. PICK S : S = DOMAIN children
  OBVIOUS
<1>3. Bytes(tree, p, children) = (CHOOSE g : g = [s \in SUBSET S |->
            IF s = {} THEN 0 ELSE tree[Append(p, children[Pick(s)])].total + g[s \ {Pick(s)}]])[S]
  BY <1>1 DEF Bytes, MapThenSumSet, MapThenFoldSet, Pick
<1>4. ASSUME NEW s \in SUBSET S, s # {} PROVE Pick(s) \in s /\ tree[Append(p, children[Pick(s)])].total = v[Pick(s)]
  BY <1>1, <1>4 DEF Pick
<1>5. ASSUME NEW g
      PROVE  IsSum(g, v, S)
             <=> g = [s \in SUBSET S |->
                        IF s = {} THEN 0 ELSE tree[Append(p, children[Pick(s)])].total + g[s \ {Pick(s)}]]
  BY <1>4 DEF IsSum
<1>6. PICK g : /\ IsSum(g, v, S)
               /\ g = CHOOSE h : h = [s \in SUBSET S |->
                        IF s = {} THEN 0 ELSE tree[Append(p, children[Pick(s)])].total + h[s \ {Pick(s)}]]
  BY <1>1, <1>5, SumExists
<1> QED
  BY <1>1, <1>3, <1>6, SumIs

\* The records that go on from p into one of the first m of the children c.
Ahead(P, n, p, c, m) == {i \in 1 .. n : \E j \in 1 .. m : Through(Append(p, c[j]), P[i])}

\* The children of a node are nodes, and each record goes into one of them.
LEMMA Children ==
  ASSUME NEW n, NEW P, NEW W, Data(n, P, W), NEW tree, Grown(tree, P, W, n), NEW p \in Nodes(P, n),
         NEW c, c = tree[p].children
  PROVE  /\ p \in Seq(Names) /\ c \in Seq(Names) /\ Distinct(c)
         /\ \A j \in DOMAIN c : Append(p, c[j]) \in Nodes(P, n)
         /\ \A i, j \in DOMAIN c : i # j => Thru(P, n, Append(p, c[i])) \cap Thru(P, n, Append(p, c[j])) = {}
<1>1. NodeIs(tree[p], P, W, n, p) /\ p \in Seq(Names)
  BY DEF Grown, Nodes
<1>2. c \in Seq(Names) /\ Family(c, P, n, p)
  BY <1>1 DEF NodeIs, NodeType
<1>3. ASSUME NEW j \in DOMAIN c PROVE c[j] \in Names /\ Append(p, c[j]) \in Nodes(P, n)
  <2>1. PICK name : name = c[j]
    OBVIOUS
  <2>2. name \in Names /\ Among(c, name)
    BY <1>2, <2>1 DEF Among
  <2>3. Thru(P, n, Append(p, name)) # {}
    BY <1>2, <2>2 DEF Family
  <2>4. Append(p, name) \in Seq(Names)
    BY <1>1, <2>2
  <2> QED
    BY <2>1, <2>2, <2>3, <2>4 DEF Nodes
<1>4. ASSUME NEW i \in DOMAIN c, NEW j \in DOMAIN c, i # j,
             NEW l \in Thru(P, n, Append(p, c[i])) \cap Thru(P, n, Append(p, c[j]))
      PROVE  FALSE
  <2>1. PICK a, b : a = c[i] /\ b = c[j]
    OBVIOUS
  <2>2. a \in Names /\ b \in Names /\ a # b
    BY <1>2, <1>3, <1>4, <2>1 DEF Family, Distinct
  <2>3. l \in 1 .. n /\ Through(Append(p, a), P[l]) /\ Through(Append(p, b), P[l])
    BY <1>4, <2>1 DEF Thru
  <2>4. PICK path \in Seq(Names) : path = P[l]
    BY <2>3 DEF Data
  <2>5. path[Len(p) + 1] = a
    BY <1>1, <2>2, <2>3, <2>4, ThroughChild
  <2>6. path[Len(p) + 1] = b
    BY <1>1, <2>2, <2>3, <2>4, ThroughChild
  <2> QED
    BY <2>2, <2>5, <2>6
<1> QED
  BY <1>1, <1>2, <1>3, <1>4 DEF Family

\* Children weigh together what goes into them.
LEMMA ChildrenWeigh ==
  ASSUME NEW n, NEW P, NEW W, Data(n, P, W), NEW tree, Grown(tree, P, W, n), NEW p \in Nodes(P, n),
         NEW c, c = tree[p].children, NEW m \in 0 .. Len(c)
  PROVE  Bytes(tree, p, SubSeq(c, 1, m)) = Weigh(W, Ahead(P, n, p, c, m))
<1>1. /\ p \in Seq(Names) /\ c \in Seq(Names)
      /\ \A j \in DOMAIN c : Append(p, c[j]) \in Nodes(P, n)
      /\ \A i, j \in DOMAIN c : i # j => Thru(P, n, Append(p, c[i])) \cap Thru(P, n, Append(p, c[j])) = {}
  BY Children
<1>2. PICK s : s = SubSeq(c, 1, m)
  OBVIOUS
<1>3. PICK J : J = 1 .. m
  OBVIOUS
<1>4. DOMAIN s = J /\ J \subseteq DOMAIN c /\ \A j \in J : s[j] = c[j]
  BY <1>1, <1>2, <1>3
<1>5. IsFiniteSet(J)
  BY <1>3, FS_Interval
<1>6. PICK D : D = 1 .. n
  OBVIOUS
<1>7. W \in [D -> Nat] /\ IsFiniteSet(D)
  <2>1. n \in Nat /\ W \in [1 .. n -> Nat]
    BY DEF Data
  <2>2. IsFiniteSet(1 .. n)
    BY <2>1, FS_Interval
  <2> QED
    BY <1>6, <2>1, <2>2
<1>8. PICK K : K = [j \in J |-> Thru(P, n, Append(p, c[j]))]
  OBVIOUS
<1>9. K \in [J -> SUBSET D]
  BY <1>6, <1>8 DEF Thru
<1>10. PICK v : v = [j \in J |-> Weigh(W, K[j])]
  OBVIOUS
<1>11. ASSUME NEW j \in J PROVE v[j] = Weigh(W, K[j]) /\ v[j] \in Nat
  <2>1. K[j] \in SUBSET D /\ IsFiniteSet(K[j])
    BY <1>7, <1>9, FS_Subset
  <2> QED
    BY <1>7, <1>10, <2>1, WeighType
<1>12. v \in [J -> Nat]
  BY <1>10, <1>11
<1>13. \A i, j \in J : i # j => K[i] \cap K[j] = {}
  BY <1>1, <1>4, <1>8
<1>14. Weigh(v, J) = Weigh(W, All(K, J))
  BY <1>5, <1>7, <1>9, <1>11, <1>12, <1>13, WeighParts
<1>15. All(K, J) = Ahead(P, n, p, c, m)
  BY <1>3, <1>8 DEF All, Ahead, Thru
<1>16. ASSUME NEW j \in J PROVE tree[Append(p, s[j])].total = v[j]
  <2>1. PICK q : q = Append(p, c[j])
    OBVIOUS
  <2>2. q \in Nodes(P, n) /\ K[j] = Thru(P, n, q) /\ Append(p, s[j]) = q
    BY <1>1, <1>4, <1>8, <2>1
  <2>3. tree[q].total = Weigh(W, Thru(P, n, q))
    BY <2>2 DEF Grown, NodeIs, Counts
  <2> QED
    BY <1>11, <2>2, <2>3
<1>17. Bytes(tree, p, s) = Weigh(v, DOMAIN s)
  BY <1>4, <1>5, <1>12, <1>16, BytesAre
<1> QED
  BY <1>2, <1>4, <1>14, <1>15, <1>17

\* A record that passes a node stays there or goes on into one child.
LEMMA Partition ==
  ASSUME NEW n, NEW P, NEW W, Data(n, P, W), NEW tree, Grown(tree, P, W, n), NEW p \in Nodes(P, n)
  PROVE  tree[p].total = tree[p].self + Bytes(tree, p, tree[p].children)
<1>1. PICK c : c = tree[p].children
  OBVIOUS
<1>2. p \in Seq(Names) /\ c \in Seq(Names)
  BY <1>1, Children
<1>3. PICK m \in Nat : m = Len(c) /\ DOMAIN c = 1 .. m
  BY <1>2
<1>4. SubSeq(c, 1, m) = c
  BY <1>2, <1>3, SubSeqFull
<1>5. m \in 0 .. Len(c)
  BY <1>3
<1>6. Bytes(tree, p, c) = Weigh(W, Ahead(P, n, p, c, m))
  <2>1. Bytes(tree, p, SubSeq(c, 1, m)) = Weigh(W, Ahead(P, n, p, c, m))
    BY <1>1, <1>5, ChildrenWeigh
  <2> QED
    BY <1>4, <2>1
<1>7. NodeIs(tree[p], P, W, n, p)
  BY DEF Grown
<1>8. PICK h, a, t : h = Here(P, n, p) /\ a = Ahead(P, n, p, c, m) /\ t = Thru(P, n, p)
  OBVIOUS
<1>9. ASSUME NEW i \in 1 .. n
      PROVE  /\ i \in t <=> i \in h \/ i \in a
             /\ ~(i \in h /\ i \in a)
  <2>1. PICK path \in Seq(Names) : path = P[i]
    BY DEF Data
  <2>2. Len(path) \in Nat /\ Len(p) \in Nat
    BY <1>2, <2>1
  <2>3. ASSUME NEW j \in 1 .. m, Through(Append(p, c[j]), path) PROVE Through(p, path) /\ Len(p) < Len(path)
    <3>1. c[j] \in Names
      BY <1>2, <1>3
    <3> QED
      BY <1>2, <2>1, <2>3, <3>1, ThroughChild
  <2>4. ASSUME Through(p, path), p # path PROVE \E j \in 1 .. m : Through(Append(p, c[j]), path)
    <3>1. Len(p) < Len(path)
      <4>1. Len(p) <= Len(path)
        BY <2>4 DEF Through
      <4>2. Len(p) # Len(path)
        BY <1>2, <2>1, <2>4, Ends
      <4> QED
        BY <2>2, <4>1, <4>2
    <3>2. PICK name : name = path[Len(p) + 1]
      OBVIOUS
    <3>3. name \in Names
      <4>1. Len(p) + 1 \in 1 .. Len(path)
        BY <2>2, <3>1
      <4> QED
        BY <2>1, <3>2, <4>1
    <3>4. Through(Append(p, name), path)
      BY <1>2, <2>1, <2>4, <3>1, <3>2, <3>3, ThroughChild
    <3>5. Thru(P, n, Append(p, name)) # {}
      BY <2>1, <3>4 DEF Thru
    <3>6. Among(c, name)
      BY <1>1, <1>7, <3>3, <3>5 DEF NodeIs, Family
    <3> QED
      BY <1>3, <3>4, <3>6 DEF Among
  <2>5. Through(path, path)
    BY <2>1, Ends
  <2>6. i \in t <=> Through(p, path)
    BY <1>8, <2>1 DEF Thru
  <2>7. i \in h <=> p = path
    BY <1>8, <2>1 DEF Here
  <2>8. i \in a <=> \E j \in 1 .. m : Through(Append(p, c[j]), path)
    BY <1>8, <2>1 DEF Ahead
  <2> QED
    BY <2>2, <2>3, <2>4, <2>5, <2>6, <2>7, <2>8
<1>10. t \subseteq 1 .. n /\ h \subseteq 1 .. n /\ a \subseteq 1 .. n
  BY <1>8 DEF Thru, Here, Ahead
<1>11. t = h \cup a /\ h \cap a = {}
  BY <1>9, <1>10
<1>12. PICK D : D = 1 .. n
  OBVIOUS
<1>13. W \in [D -> Nat] /\ IsFiniteSet(D)
  <2>1. n \in Nat /\ W \in [1 .. n -> Nat]
    BY DEF Data
  <2>2. IsFiniteSet(1 .. n)
    BY <2>1, FS_Interval
  <2> QED
    BY <1>12, <2>1, <2>2
<1>14. h \in SUBSET D /\ a \in SUBSET D /\ IsFiniteSet(h) /\ IsFiniteSet(a)
  BY <1>10, <1>12, <1>13, FS_Subset
<1>15. Weigh(W, t) = Weigh(W, h) + Weigh(W, a)
  BY <1>11, <1>13, <1>14, WeighUnion
<1> QED
  BY <1>1, <1>6, <1>7, <1>8, <1>15 DEF NodeIs, Counts

\* The books of the tree of one list.
LEMMA Accounts ==
  ASSUME NEW list \in Seq(Faithful), NEW tree, tree = BuildTree(list)
  PROVE  /\ Root \in DOMAIN tree
         /\ tree[Root].total = SizeSum(list) /\ tree[Root].count = Len(list)
         /\ \A i \in DOMAIN list : Path(list[i]) \in DOMAIN tree
<1>1. PICK n \in Nat : n = Len(list) /\ DOMAIN list = 1 .. n
  OBVIOUS
<1>2. PICK P : P = [i \in 1 .. n |-> Path(list[i])]
  OBVIOUS
<1>3. PICK W : W = [i \in 1 .. n |-> list[i].size]
  OBVIOUS
<1>4. Data(n, P, W) /\ Grown(tree, P, W, n)
  BY <1>1, <1>2, <1>3, TreeIs
<1>5. Root \in Nodes(P, n)
  BY DEF Nodes, Root
<1>6. Thru(P, n, Root) = 1 .. n
  <2>1. \A i \in 1 .. n : Through(Root, P[i])
    BY <1>4, Ends DEF Data
  <2> QED
    BY <2>1 DEF Thru
<1>7. tree[Root].total = Weigh(W, 1 .. n) /\ tree[Root].count = Cardinality(1 .. n)
  BY <1>4, <1>5, <1>6 DEF Grown, NodeIs, Counts
<1>8. Cardinality(1 .. n) = n
  BY FS_Interval
<1>9. SizeSum(list) = Weigh(W, 1 .. n)
  <2>1. W \in [1 .. n -> Nat] /\ \A i \in 1 .. n : list[i].size = W[i]
    BY <1>3, <1>4 DEF Data
  <2> QED
    BY <1>1, <2>1, SizesAre DEF SizeSum
<1>10. ASSUME NEW i \in 1 .. n PROVE Path(list[i]) \in DOMAIN tree
  <2>1. PICK path \in Seq(Names) : path = P[i]
    BY <1>4 DEF Data
  <2>2. Through(path, path)
    BY <2>1, Ends
  <2>3. i \in Thru(P, n, path)
    BY <2>1, <2>2 DEF Thru
  <2>4. path \in DOMAIN tree
    BY <1>4, <2>1, <2>3 DEF Grown, Nodes
  <2> QED
    BY <1>2, <2>1, <2>4
<1> QED
  BY <1>1, <1>4, <1>5, <1>7, <1>8, <1>9, <1>10 DEF Grown

\* Every byte is counted once: a node's total is its own and its children's,
\* what it keeps is what the folded stacks say of its path, and the root has
\* all (flamegraph.hpp:49-109).
THEOREM TreeAlwaysAccounts == Spec => []TreeAccounts
<1>1. IInv => TreeAccounts
  <2> SUFFICES ASSUME IInv PROVE TreeAccounts
    OBVIOUS
  <2>1. PICK tree, lines : tree = Flamegraph /\ lines = Folded(records)
    OBVIOUS
  <2>2. records \in Seq(Faithful) /\ tree = BuildTree(records)
    BY <2>1 DEF IInv, Flamegraph
  <2>3. PICK n \in Nat : n = Len(records) /\ DOMAIN records = 1 .. n
    BY <2>2
  <2>4. PICK P : P = [i \in 1 .. n |-> Path(records[i])]
    OBVIOUS
  <2>5. PICK W : W = [i \in 1 .. n |-> records[i].size]
    OBVIOUS
  <2>6. Data(n, P, W) /\ Grown(tree, P, W, n)
    BY <2>2, <2>3, <2>4, <2>5, TreeIs
  <2>7. tree[Root].total = SizeSum(records) /\ tree[Root].count = Len(records)
    BY <2>2, Accounts
  <2>8. /\ DOMAIN lines = 1 .. n
        /\ \A i \in 1 .. n : lines[i].path = P[i] /\ lines[i].size = W[i]
    BY <2>1, <2>3, <2>4, <2>5 DEF Folded
  <2>9. W \in [1 .. n -> Nat]
    BY <2>6 DEF Data
  <2>10. ASSUME NEW p \in DOMAIN tree, NEW at, at = {i \in DOMAIN lines : lines[i].path = p}
         PROVE  /\ tree[p].total = tree[p].self + Bytes(tree, p, tree[p].children)
                /\ tree[p].self = SizesAt(lines, at)
                /\ tree[p].selfCount = Cardinality(at)
    <3>1. p \in Nodes(P, n) /\ NodeIs(tree[p], P, W, n, p)
      BY <2>6 DEF Grown
    <3>2. at = Here(P, n, p) /\ at \in SUBSET (1 .. n)
      BY <2>8, <2>10 DEF Here
    <3>3. tree[p].self = Weigh(W, at) /\ tree[p].selfCount = Cardinality(at)
      BY <3>1, <3>2 DEF NodeIs, Counts
    <3>4. SizesAt(lines, at) = Weigh(W, at)
      BY <2>8, <2>9, <3>2, SizesAre
    <3>5. tree[p].total = tree[p].self + Bytes(tree, p, tree[p].children)
      BY <2>6, <3>1, Partition
    <3> QED
      BY <3>3, <3>4, <3>5
  <2> QED
    BY <2>1, <2>7, <2>10 DEF TreeAccounts
<1> QED
  BY InitInv, StepInv, <1>1, PTL DEF Spec

-----------------------------------------------------------------------------
(* The drawing.  To the left of a node's rectangle are the records that    *)
(* part from its path, somewhere, into an earlier child; so positions are  *)
(* weights of sets of records, and rectangles nest and are apart as the    *)
(* sets are.                                                               *)

Stem(p, m) == SubSeq(p, 1, m)

Earlier(c, a, b) == \E i, j \in DOMAIN c : i < j /\ c[i] = a /\ c[j] = b

\* The path parts from p at p's m-th name, into an earlier child.
Aside(tree, p, path, m) ==
  /\ m <= Len(path)
  /\ \A l \in 1 .. m - 1 : path[l] = p[l]
  /\ Earlier(tree[Stem(p, m - 1)].children, path[m], p[m])

Beside(P, n, tree, p, m) == {i \in 1 .. n : Aside(tree, p, P[i], m)}

Left(P, n, tree, p) == {i \in 1 .. n : \E m \in 1 .. Len(p) : Aside(tree, p, P[i], m)}

\* In a family no child comes before itself, and of two one comes first.
LEMMA EarlierIs ==
  ASSUME NEW c \in Seq(Names), Distinct(c), NEW a, NEW b, NEW d
  PROVE  /\ ~Earlier(c, a, a)
         /\ Earlier(c, a, b) /\ Earlier(c, b, d) => Earlier(c, a, d)
         /\ Among(c, a) /\ Among(c, b) => a = b \/ Earlier(c, a, b) \/ Earlier(c, b, a)
<1>1. PICK m \in Nat : m = Len(c) /\ DOMAIN c = 1 .. m
  OBVIOUS
<1>2. \A i, j \in 1 .. m : c[i] = c[j] => i = j
  BY <1>1 DEF Distinct
<1>3. ~Earlier(c, a, a)
  <2> SUFFICES ASSUME Earlier(c, a, a) PROVE FALSE
    OBVIOUS
  <2>1. PICK i, j \in 1 .. m : i < j /\ c[i] = a /\ c[j] = a
    BY <1>1 DEF Earlier
  <2> QED
    BY <1>2, <2>1
<1>4. ASSUME Earlier(c, a, b), Earlier(c, b, d) PROVE Earlier(c, a, d)
  <2>1. PICK i, j \in 1 .. m : i < j /\ c[i] = a /\ c[j] = b
    BY <1>1, <1>4 DEF Earlier
  <2>2. PICK k, l \in 1 .. m : k < l /\ c[k] = b /\ c[l] = d
    BY <1>1, <1>4 DEF Earlier
  <2>3. j = k
    BY <1>2, <2>1, <2>2
  <2>4. i < l
    BY <2>1, <2>2, <2>3
  <2> QED
    BY <1>1, <2>1, <2>2, <2>4 DEF Earlier
<1>5. ASSUME Among(c, a), Among(c, b) PROVE a = b \/ Earlier(c, a, b) \/ Earlier(c, b, a)
  <2>1. PICK i \in 1 .. m : c[i] = a
    BY <1>1, <1>5 DEF Among
  <2>2. PICK j \in 1 .. m : c[j] = b
    BY <1>1, <1>5 DEF Among
  <2>3. i = j \/ i < j \/ j < i
    OBVIOUS
  <2> QED
    BY <1>1, <2>1, <2>2, <2>3 DEF Earlier
<1> QED
  BY <1>3, <1>4, <1>5

\* The first names of a path.
LEMMA StemIs ==
  ASSUME NEW p \in Seq(Names), NEW m \in 0 .. Len(p)
  PROVE  /\ Stem(p, m) \in Seq(Names) /\ Len(Stem(p, m)) = m
         /\ \A l \in 1 .. m : Stem(p, m)[l] = p[l]
<1>1. Len(p) \in Nat
  OBVIOUS
<1> QED
  BY <1>1 DEF Stem

\* Paths that start alike have the same stem.
LEMMA StemSame ==
  ASSUME NEW p \in Seq(Names), NEW q \in Seq(Names), NEW m, m \in 0 .. Len(p), m \in 0 .. Len(q),
         \A l \in 1 .. m : p[l] = q[l]
  PROVE  Stem(p, m) = Stem(q, m)
<1>1. PICK a, b : a = Stem(p, m) /\ b = Stem(q, m)
  OBVIOUS
<1>2. a \in Seq(Names) /\ Len(a) = m /\ \A l \in 1 .. m : a[l] = p[l]
  BY <1>1, StemIs
<1>3. b \in Seq(Names) /\ Len(b) = m /\ \A l \in 1 .. m : b[l] = q[l]
  BY <1>1, StemIs
<1>4. a = b
  BY <1>2, <1>3, SeqEqual
<1> QED
  BY <1>1, <1>4

\* The stems of a node are nodes, each a child of the one before.
LEMMA StemNode ==
  ASSUME NEW n, NEW P, NEW W, Data(n, P, W), NEW tree, Grown(tree, P, W, n), NEW p \in Nodes(P, n),
         NEW m \in 1 .. Len(p)
  PROVE  /\ Stem(p, m) \in Nodes(P, n) /\ Stem(p, m - 1) \in Nodes(P, n)
         /\ tree[Stem(p, m - 1)].children \in Seq(Names) /\ Distinct(tree[Stem(p, m - 1)].children)
         /\ Among(tree[Stem(p, m - 1)].children, p[m])
<1>1. p \in Seq(Names) /\ Len(p) \in Nat /\ m \in Nat /\ m - 1 \in Nat /\ p # Root
  BY DEF Nodes, Root
<1>2. PICK i \in 1 .. n : Through(p, P[i])
  BY <1>1 DEF Nodes, Thru
<1>3. PICK path \in Seq(Names) : path = P[i]
  BY DEF Data
<1>4. Len(p) <= Len(path) /\ Len(path) \in Nat /\ \A l \in 1 .. Len(p) : p[l] = path[l]
  BY <1>2, <1>3 DEF Through
<1>5. PICK k \in Nat : k = m - 1 /\ k < Len(p) /\ k + 1 = m
  BY <1>1
<1>6. PICK f, q : f = Stem(p, k) /\ q = Stem(p, m)
  OBVIOUS
<1>7. f \in Seq(Names) /\ Len(f) = k /\ \A l \in 1 .. k : f[l] = p[l]
  <2>1. k \in 0 .. Len(p)
    BY <1>1, <1>5
  <2> QED
    BY <1>1, <1>6, <2>1, StemIs
<1>8. q \in Seq(Names) /\ Len(q) = m /\ \A l \in 1 .. m : q[l] = p[l]
  <2>1. m \in 0 .. Len(p)
    BY <1>1
  <2> QED
    BY <1>1, <1>6, <2>1, StemIs
<1>9. Through(f, path)
  BY <1>1, <1>4, <1>5, <1>7 DEF Through
<1>10. Through(q, path)
  BY <1>1, <1>4, <1>8 DEF Through
<1>11. f \in Nodes(P, n) /\ q \in Nodes(P, n)
  BY <1>3, <1>7, <1>8, <1>9, <1>10 DEF Nodes, Thru
<1>12. NodeIs(tree[f], P, W, n, f)
  BY <1>11 DEF Grown
<1>13. tree[f].children \in Seq(Names) /\ Family(tree[f].children, P, n, f)
  BY <1>12 DEF NodeIs, NodeType
<1>14. p[m] \in Names
  BY <1>1
<1>15. PICK name \in Names : name = p[m]
  BY <1>14
<1>16. Through(Append(f, name), path)
  <2>1. Len(f) < Len(path)
    BY <1>1, <1>4, <1>5, <1>7
  <2>2. path[Len(f) + 1] = name
    BY <1>1, <1>4, <1>5, <1>7, <1>15
  <2> QED
    BY <1>7, <1>9, <2>1, <2>2, ThroughChild
<1>17. Thru(P, n, Append(f, name)) # {}
  BY <1>3, <1>16 DEF Thru
<1>18. Among(tree[f].children, name)
  BY <1>13, <1>17 DEF Family
<1> QED
  BY <1>5, <1>6, <1>11, <1>13, <1>15, <1>18 DEF Family

\* A path that parts from a node takes another name there.
LEMMA AsideParts ==
  ASSUME NEW n, NEW P, NEW W, Data(n, P, W), NEW tree, Grown(tree, P, W, n), NEW p \in Nodes(P, n),
         NEW m \in 1 .. Len(p), NEW path, Aside(tree, p, path, m)
  PROVE  path[m] # p[m]
<1>1. PICK c \in Seq(Names) : c = tree[Stem(p, m - 1)].children /\ Distinct(c)
  BY StemNode
<1>2. Earlier(c, path[m], p[m])
  BY <1>1 DEF Aside
<1> QED
  BY <1>1, <1>2, EarlierIs

\* Whether a path parts from p at some name depends on p up to there.
LEMMA AsideSame ==
  ASSUME NEW p \in Seq(Names), NEW q \in Seq(Names), NEW m, m \in 1 .. Len(p), m \in 1 .. Len(q),
         \A l \in 1 .. m : p[l] = q[l], NEW tree, NEW path
  PROVE  Aside(tree, p, path, m) <=> Aside(tree, q, path, m)
<1>1. PICK k \in Nat : k = m - 1 /\ k + 1 = m
  <2>1. m - 1 \in Nat /\ (m - 1) + 1 = m
    OBVIOUS
  <2> QED
    BY <2>1
<1>2. k \in 0 .. Len(p) /\ k \in 0 .. Len(q) /\ \A l \in 1 .. k : p[l] = q[l]
  BY <1>1
<1>3. Stem(p, k) = Stem(q, k)
  BY <1>2, StemSame
<1>4. p[m] = q[m]
  OBVIOUS
<1> QED
  BY <1>1, <1>2, <1>3, <1>4 DEF Aside

\* child_x weighs the records that part into an earlier sibling.
LEMMA LeftOfIs ==
  ASSUME NEW n, NEW P, NEW W, Data(n, P, W), NEW tree, Grown(tree, P, W, n), NEW p \in Nodes(P, n),
         NEW m, m = Len(p), p # Root
  PROVE  LeftOf(tree, p) = Weigh(W, Beside(P, n, tree, p, m))
<1>1. p \in Seq(Names) /\ m \in Nat /\ m # 0
  <2>1. p \in Seq(Names)
    BY DEF Nodes
  <2> QED
    BY <2>1 DEF Root
<1>2. m \in 1 .. Len(p)
  BY <1>1
<1>3. PICK k \in Nat : k = m - 1 /\ k + 1 = m
  <2>1. m - 1 \in Nat /\ (m - 1) + 1 = m
    BY <1>1
  <2> QED
    BY <2>1
<1>4. PICK f : f = Stem(p, k)
  OBVIOUS
<1>5. Front(p) = f /\ Last(p) = p[m]
  BY <1>3, <1>4 DEF Front, Last, Stem
<1>6. PICK c : c = tree[f].children
  OBVIOUS
<1>7. f \in Nodes(P, n) /\ c \in Seq(Names) /\ Distinct(c) /\ Among(c, p[m])
  BY <1>2, <1>3, <1>4, <1>6, StemNode
<1>8. PICK place : place = CHOOSE i \in DOMAIN c : c[i] = p[m]
  OBVIOUS
<1>9. place \in DOMAIN c /\ c[place] = p[m]
  BY <1>7, <1>8 DEF Among
<1>10. PICK j \in Nat : j = place - 1 /\ j + 1 = place /\ j \in 0 .. Len(c)
  <2>1. Len(c) \in Nat /\ place \in 1 .. Len(c)
    BY <1>7, <1>9
  <2> QED
    BY <2>1
<1>11. LeftOf(tree, p) = Bytes(tree, f, SubSeq(c, 1, j))
  BY <1>5, <1>6, <1>8, <1>10 DEF LeftOf
<1>12. Bytes(tree, f, SubSeq(c, 1, j)) = Weigh(W, Ahead(P, n, f, c, j))
  BY <1>6, <1>7, <1>10, ChildrenWeigh
<1>13. f \in Seq(Names) /\ Len(f) = k /\ \A l \in 1 .. k : f[l] = p[l]
  <2>1. k \in 0 .. Len(p)
    BY <1>1, <1>3
  <2> QED
    BY <1>1, <1>4, <2>1, StemIs
<1>14. ASSUME NEW i \in 1 .. n PROVE i \in Ahead(P, n, f, c, j) <=> i \in Beside(P, n, tree, p, m)
  <2>1. PICK path \in Seq(Names) : path = P[i]
    BY DEF Data
  <2>2. Len(path) \in Nat /\ Len(c) \in Nat /\ DOMAIN c = 1 .. Len(c)
    BY <1>7
  <2>3. Through(f, path) <=> k <= Len(path) /\ \A l \in 1 .. k : path[l] = p[l]
    BY <1>13 DEF Through
  <2>4. ASSUME NEW h \in 1 .. j
        PROVE  Through(Append(f, c[h]), path) <=> Through(f, path) /\ k < Len(path) /\ path[m] = c[h]
    <3>1. PICK name : name = c[h]
      OBVIOUS
    <3>2. name \in Names
      BY <1>7, <1>10, <2>2, <3>1
    <3>3. Through(Append(f, name), path) <=> Through(f, path) /\ Len(f) < Len(path) /\ path[Len(f) + 1] = name
      BY <1>13, <3>2, ThroughChild
    <3> QED
      BY <1>3, <1>13, <3>1, <3>3
  <2>5. ASSUME NEW h \in DOMAIN c PROVE c[h] = p[m] => h = place
    BY <1>7, <1>9, <2>5 DEF Distinct
  <2>6. Earlier(c, path[m], p[m]) <=> \E h \in 1 .. j : path[m] = c[h]
    <3>1. ASSUME Earlier(c, path[m], p[m]) PROVE \E h \in 1 .. j : path[m] = c[h]
      <4>1. PICK h, l \in DOMAIN c : h < l /\ c[h] = path[m] /\ c[l] = p[m]
        BY <3>1 DEF Earlier
      <4>2. l = place
        BY <2>5, <4>1
      <4>3. h \in 1 .. j
        BY <1>10, <2>2, <4>1, <4>2
      <4> QED
        BY <4>1, <4>3
    <3>2. ASSUME NEW h \in 1 .. j, path[m] = c[h] PROVE Earlier(c, path[m], p[m])
      <4>1. h \in DOMAIN c /\ h < place
        BY <1>10, <2>2
      <4> QED
        BY <1>9, <3>2, <4>1 DEF Earlier
    <3> QED
      BY <3>1, <3>2
  <2>7. Aside(tree, p, path, m) <=> /\ k < Len(path) /\ \A l \in 1 .. k : path[l] = p[l]
                                    /\ \E h \in 1 .. j : path[m] = c[h]
    <3>1. m <= Len(path) <=> k < Len(path)
      BY <1>3, <2>2
    <3> QED
      BY <1>3, <1>4, <1>6, <2>6, <3>1 DEF Aside
  <2>8. i \in Ahead(P, n, f, c, j) <=> \E h \in 1 .. j : Through(Append(f, c[h]), path)
    BY <2>1 DEF Ahead
  <2>9. i \in Beside(P, n, tree, p, m) <=> Aside(tree, p, path, m)
    BY <2>1 DEF Beside
  <2>10. k < Len(path) => k <= Len(path)
    BY <2>2
  <2> QED
    BY <2>3, <2>4, <2>7, <2>8, <2>9, <2>10
<1>15. Ahead(P, n, f, c, j) \subseteq 1 .. n /\ Beside(P, n, tree, p, m) \subseteq 1 .. n
  BY DEF Ahead, Beside
<1>16. Ahead(P, n, f, c, j) = Beside(P, n, tree, p, m)
  BY <1>14, <1>15
<1> QED
  BY <1>11, <1>12, <1>16

\* The same for every stem of a node.
LEMMA StemLeft ==
  ASSUME NEW n, NEW P, NEW W, Data(n, P, W), NEW tree, Grown(tree, P, W, n), NEW p \in Nodes(P, n),
         NEW m \in 1 .. Len(p)
  PROVE  LeftOf(tree, SubSeq(p, 1, m)) = Weigh(W, Beside(P, n, tree, p, m))
<1>1. p \in Seq(Names) /\ Len(p) \in Nat /\ m \in Nat /\ m # 0
  BY DEF Nodes
<1>2. PICK q : q = Stem(p, m)
  OBVIOUS
<1>3. q \in Seq(Names) /\ Len(q) = m /\ \A l \in 1 .. m : q[l] = p[l]
  <2>1. m \in 0 .. Len(p)
    BY <1>1
  <2> QED
    BY <1>1, <1>2, <2>1, StemIs
<1>4. q \in Nodes(P, n)
  BY <1>2, StemNode
<1>5. q # Root
  BY <1>1, <1>3 DEF Root
<1>6. LeftOf(tree, q) = Weigh(W, Beside(P, n, tree, q, m))
  BY <1>3, <1>4, <1>5, LeftOfIs
<1>7. \A path : Aside(tree, q, path, m) <=> Aside(tree, p, path, m)
  <2>1. m \in 1 .. Len(q)
    BY <1>1, <1>3
  <2> QED
    BY <1>1, <1>3, <2>1, AsideSame
<1>8. Beside(P, n, tree, q, m) = Beside(P, n, tree, p, m)
  BY <1>7 DEF Beside
<1> QED
  BY <1>2, <1>6, <1>8 DEF Stem

\* The x of a rectangle weighs all records to its left.
LEMMA XOfIs ==
  ASSUME NEW n, NEW P, NEW W, Data(n, P, W), NEW tree, Grown(tree, P, W, n), NEW p \in Nodes(P, n)
  PROVE  XOf(tree, p) = Weigh(W, Left(P, n, tree, p))
<1>1. PICK J : J = 1 .. Len(p)
  OBVIOUS
<1>2. IsFiniteSet(J) /\ J \subseteq Nat
  <2>1. p \in Seq(Names)
    BY DEF Nodes
  <2>2. Len(p) \in Nat
    BY <2>1
  <2> QED
    BY <1>1, <2>2, FS_Interval
<1>3. PICK D : D = 1 .. n
  OBVIOUS
<1>4. W \in [D -> Nat] /\ IsFiniteSet(D)
  <2>1. n \in Nat /\ W \in [1 .. n -> Nat]
    BY DEF Data
  <2>2. IsFiniteSet(1 .. n)
    BY <2>1, FS_Interval
  <2> QED
    BY <1>3, <2>1, <2>2
<1>5. PICK K : K = [m \in J |-> Beside(P, n, tree, p, m)]
  OBVIOUS
<1>6. K \in [J -> SUBSET D]
  BY <1>3, <1>5 DEF Beside
<1>7. PICK v : v = [m \in J |-> Weigh(W, K[m])]
  OBVIOUS
<1>8. ASSUME NEW m \in J PROVE v[m] = Weigh(W, K[m]) /\ v[m] \in Nat
  <2>1. K[m] \in SUBSET D /\ IsFiniteSet(K[m])
    BY <1>4, <1>6, FS_Subset
  <2> QED
    BY <1>4, <1>7, <2>1, WeighType
<1>9. v \in [J -> Nat]
  BY <1>7, <1>8
<1>10. ASSUME NEW m \in J PROVE LeftOf(tree, SubSeq(p, 1, m)) = v[m]
  <2>1. m \in 1 .. Len(p) /\ K[m] = Beside(P, n, tree, p, m)
    BY <1>1, <1>5
  <2>2. LeftOf(tree, SubSeq(p, 1, m)) = Weigh(W, Beside(P, n, tree, p, m))
    BY <2>1, StemLeft
  <2> QED
    BY <1>8, <2>1, <2>2
<1>11. ASSUME NEW l \in J, NEW m \in J, l < m, NEW i \in K[l] \cap K[m] PROVE FALSE
  <2>1. PICK path : path = P[i]
    OBVIOUS
  <2>2. Aside(tree, p, path, l) /\ Aside(tree, p, path, m)
    BY <1>5, <1>11, <2>1 DEF Beside
  <2>3. path[l] # p[l]
    BY <1>1, <2>2, AsideParts
  <2>4. l \in 1 .. m - 1
    BY <1>1, <1>2, <1>11
  <2> QED
    BY <2>2, <2>3, <2>4 DEF Aside
<1>12. \A l, m \in J : l # m => K[l] \cap K[m] = {}
  <2>1. \A l, m \in J : l # m => l < m \/ m < l
    BY <1>2
  <2> QED
    BY <1>11, <2>1
<1>13. Weigh(v, J) = Weigh(W, All(K, J))
  <2>1. IsFiniteSet(D) /\ W \in [D -> Nat] /\ IsFiniteSet(J)
    BY <1>2, <1>4
  <2>2. \A l \in J : v[l] = Weigh(W, K[l])
    BY <1>8
  <2> QED
    BY <1>6, <1>9, <1>12, <2>1, <2>2, WeighParts
<1>14. All(K, J) = Left(P, n, tree, p)
  BY <1>1, <1>5 DEF All, Left, Beside
<1>15. XOf(tree, p) = (CHOOSE g : g = [s \in SUBSET J |->
            IF s = {} THEN 0 ELSE LeftOf(tree, SubSeq(p, 1, Pick(s))) + g[s \ {Pick(s)}]])[J]
  BY <1>1 DEF XOf, MapThenSumSet, MapThenFoldSet, Pick
<1>16. ASSUME NEW s \in SUBSET J, s # {} PROVE Pick(s) \in s /\ LeftOf(tree, SubSeq(p, 1, Pick(s))) = v[Pick(s)]
  <2>1. Pick(s) \in s
    BY <1>16 DEF Pick
  <2> QED
    BY <1>10, <2>1
<1>17. ASSUME NEW g
       PROVE  IsSum(g, v, J)
              <=> g = [s \in SUBSET J |->
                         IF s = {} THEN 0 ELSE LeftOf(tree, SubSeq(p, 1, Pick(s))) + g[s \ {Pick(s)}]]
  BY <1>16 DEF IsSum
<1>18. PICK g : /\ IsSum(g, v, J)
                /\ g = CHOOSE h : h = [s \in SUBSET J |->
                         IF s = {} THEN 0 ELSE LeftOf(tree, SubSeq(p, 1, Pick(s))) + h[s \ {Pick(s)}]]
  BY <1>2, <1>9, <1>17, SumExists
<1>19. XOf(tree, p) = Weigh(v, J)
  BY <1>2, <1>9, <1>15, <1>18, SumIs
<1> QED
  BY <1>13, <1>14, <1>19

\* Where the rectangle of a node begins and ends.
LEMMA Edges ==
  ASSUME NEW n, NEW P, NEW W, Data(n, P, W), NEW tree, Grown(tree, P, W, n), NEW p \in Nodes(P, n)
  PROVE  /\ XOf(tree, p) = Weigh(W, Left(P, n, tree, p))
         /\ XOf(tree, p) + tree[p].total = Weigh(W, Left(P, n, tree, p) \cup Thru(P, n, p))
<1>1. XOf(tree, p) = Weigh(W, Left(P, n, tree, p))
  BY XOfIs
<1>2. tree[p].total = Weigh(W, Thru(P, n, p))
  BY DEF Grown, NodeIs, Counts
<1>3. PICK a, b : a = Left(P, n, tree, p) /\ b = Thru(P, n, p)
  OBVIOUS
<1>4. ASSUME NEW i \in a \cap b PROVE FALSE
  <2>1. i \in 1 .. n /\ Through(p, P[i]) /\ \E m \in 1 .. Len(p) : Aside(tree, p, P[i], m)
    BY <1>3, <1>4 DEF Left, Thru
  <2>2. PICK m \in 1 .. Len(p) : Aside(tree, p, P[i], m)
    BY <2>1
  <2>3. PICK path : path = P[i]
    OBVIOUS
  <2>4. path[m] # p[m]
    BY <2>2, <2>3, AsideParts
  <2> QED
    BY <2>1, <2>3, <2>4 DEF Through
<1>5. PICK D : D = 1 .. n
  OBVIOUS
<1>6. W \in [D -> Nat] /\ IsFiniteSet(D)
  <2>1. n \in Nat /\ W \in [1 .. n -> Nat]
    BY DEF Data
  <2>2. IsFiniteSet(1 .. n)
    BY <2>1, FS_Interval
  <2> QED
    BY <1>5, <2>1, <2>2
<1>7. a \in SUBSET D /\ b \in SUBSET D
  BY <1>3, <1>5 DEF Left, Thru
<1>8. IsFiniteSet(a) /\ IsFiniteSet(b) /\ a \cap b = {}
  BY <1>4, <1>6, <1>7, FS_Subset
<1>9. Weigh(W, a \cup b) = Weigh(W, a) + Weigh(W, b)
  BY <1>6, <1>7, <1>8, WeighUnion
<1> QED
  BY <1>1, <1>2, <1>3, <1>9

\* What is among the records 1 .. n weighs no more than a set around it.
LEMMA Inside ==
  ASSUME NEW n, NEW P, NEW W, Data(n, P, W), NEW S \in SUBSET (1 .. n), NEW T \in SUBSET S
  PROVE  Weigh(W, T) <= Weigh(W, S) /\ Weigh(W, T) \in Nat /\ Weigh(W, S) \in Nat
<1>1. PICK D : D = 1 .. n
  OBVIOUS
<1>2. W \in [D -> Nat] /\ IsFiniteSet(D)
  <2>1. n \in Nat /\ W \in [1 .. n -> Nat]
    BY DEF Data
  <2>2. IsFiniteSet(1 .. n)
    BY <2>1, FS_Interval
  <2> QED
    BY <1>1, <2>1, <2>2
<1>3. S \in SUBSET D /\ IsFiniteSet(S)
  BY <1>1, <1>2, FS_Subset
<1>4. T \in SUBSET D /\ IsFiniteSet(T)
  BY <1>3, FS_Subset
<1> QED
  BY <1>2, <1>3, <1>4, WeighPart, WeighType

\* A rectangle stands on its caller's.
LEMMA Stands ==
  ASSUME NEW n, NEW P, NEW W, Data(n, P, W), NEW tree, Grown(tree, P, W, n), NEW p \in Nodes(P, n), p # Root,
         NEW f, f = Front(p)
  PROVE  /\ f \in Nodes(P, n) /\ Prefixes(f) \subseteq Prefixes(p)
         /\ XOf(tree, f) <= XOf(tree, p)
         /\ XOf(tree, p) + tree[p].total <= XOf(tree, f) + tree[f].total
<1>1. PICK m \in Nat : m = Len(p) /\ m # 0
  <2>1. p \in Seq(Names)
    BY DEF Nodes
  <2> QED
    BY <2>1 DEF Root
<1>2. p \in Seq(Names) /\ m \in 1 .. Len(p)
  BY <1>1 DEF Nodes
<1>3. PICK k \in Nat : k = m - 1 /\ k + 1 = m
  <2>1. m - 1 \in Nat /\ (m - 1) + 1 = m
    BY <1>1
  <2> QED
    BY <2>1
<1>4. f = Stem(p, k)
  BY <1>1, <1>3 DEF Front, Stem
<1>5. f \in Nodes(P, n)
  BY <1>2, <1>3, <1>4, StemNode
<1>6. f \in Seq(Names) /\ Len(f) = k /\ \A l \in 1 .. k : f[l] = p[l]
  <2>1. k \in 0 .. Len(p)
    BY <1>1, <1>3
  <2> QED
    BY <1>2, <1>4, <2>1, StemIs
<1>7. ASSUME NEW q \in Prefixes(f) PROVE q \in Prefixes(p)
  <2>1. q \in Seq(Names) /\ Through(q, f)
    BY <1>6, <1>7, PrefixIs
  <2>2. Len(q) \in Nat /\ Len(q) <= k /\ \A l \in 1 .. Len(q) : q[l] = f[l]
    BY <1>6, <2>1 DEF Through
  <2>3. Through(q, p)
    BY <1>1, <1>3, <1>6, <2>2 DEF Through
  <2> QED
    BY <1>2, <2>1, <2>3, PrefixIs
<1>8. ASSUME NEW l \in 1 .. k, NEW path PROVE Aside(tree, f, path, l) <=> Aside(tree, p, path, l)
  <2>1. l \in 1 .. Len(p) /\ l \in 1 .. Len(f) /\ \A h \in 1 .. l : f[h] = p[h]
    BY <1>1, <1>3, <1>6
  <2> QED
    BY <1>2, <1>6, <2>1, AsideSame
<1>9. PICK a, b : a = Left(P, n, tree, f) /\ b = Left(P, n, tree, p)
  OBVIOUS
<1>10. PICK s, t : s = a \cup Thru(P, n, f) /\ t = b \cup Thru(P, n, p)
  OBVIOUS
<1>11. s \subseteq 1 .. n /\ b \subseteq 1 .. n
  BY <1>9, <1>10 DEF Left, Thru
<1>12. ASSUME NEW i \in a PROVE i \in b
  <2>1. PICK l \in 1 .. k : i \in 1 .. n /\ Aside(tree, f, P[i], l)
    BY <1>6, <1>9, <1>12 DEF Left
  <2>2. Aside(tree, p, P[i], l) /\ l \in 1 .. Len(p)
    BY <1>1, <1>3, <1>8, <2>1
  <2> QED
    BY <1>9, <2>1, <2>2 DEF Left
<1>13. ASSUME NEW i \in t PROVE i \in s
  <2>1. i \in 1 .. n
    BY <1>9, <1>10, <1>13 DEF Left, Thru
  <2>2. PICK path \in Seq(Names) : path = P[i]
    BY <2>1 DEF Data
  <2>3. Len(path) \in Nat
    BY <2>2
  <2>4. CASE \A l \in 1 .. k : p[l] = path[l] /\ k <= Len(path)
    <3>1. CASE k <= Len(path)
      <4>1. Through(f, path)
        BY <1>6, <2>4, <3>1 DEF Through
      <4> QED
        BY <1>10, <2>1, <2>2, <4>1 DEF Thru
    <3>2. CASE ~(k <= Len(path))
      <4>1. k = 0
        BY <2>3, <2>4, <3>2
      <4> QED
        BY <2>3, <3>2, <4>1
    <3> QED
      BY <3>1, <3>2
  <2>5. CASE ~ \A l \in 1 .. k : p[l] = path[l] /\ k <= Len(path)
    <3>1. ~Through(p, path)
      <4>1. Len(p) <= Len(path) => k <= Len(path)
        BY <1>1, <1>3, <2>3
      <4>2. \A l \in 1 .. k : l \in 1 .. Len(p)
        BY <1>1, <1>3
      <4> QED
        BY <2>5, <4>1, <4>2 DEF Through
    <3>2. i \in b
      BY <1>10, <1>13, <2>2, <3>1 DEF Thru
    <3>3. PICK l \in 1 .. m : Aside(tree, p, path, l)
      BY <1>1, <1>9, <2>2, <3>2 DEF Left
    <3>4. l # m
      <4> SUFFICES ASSUME l = m PROVE FALSE
        OBVIOUS
      <4>1. m <= Len(path) /\ \A h \in 1 .. k : path[h] = p[h]
        BY <1>3, <3>3 DEF Aside
      <4>2. k <= Len(path)
        BY <1>3, <2>3, <4>1
      <4> QED
        BY <2>5, <4>1, <4>2
    <3>5. l \in 1 .. k
      BY <1>3, <3>4
    <3>6. Aside(tree, f, path, l)
      BY <1>8, <3>3, <3>5
    <3> QED
      BY <1>6, <1>9, <1>10, <2>1, <2>2, <3>5, <3>6 DEF Left
  <2> QED
    BY <2>4, <2>5
<1>14. Weigh(W, a) <= Weigh(W, b)
  BY <1>11, <1>12, Inside
<1>15. Weigh(W, t) <= Weigh(W, s)
  BY <1>11, <1>13, Inside
<1>16. XOf(tree, f) = Weigh(W, a) /\ XOf(tree, f) + tree[f].total = Weigh(W, s)
  BY <1>5, <1>9, <1>10, Edges
<1>17. XOf(tree, p) = Weigh(W, b) /\ XOf(tree, p) + tree[p].total = Weigh(W, t)
  BY <1>9, <1>10, Edges
<1> QED
  BY <1>5, <1>7, <1>14, <1>15, <1>16, <1>17

\* Of two nodes that part, the one in the earlier child ends where the other
\* begins, or before.
LEMMA Follows ==
  ASSUME NEW n, NEW P, NEW W, Data(n, P, W), NEW tree, Grown(tree, P, W, n),
         NEW p \in Nodes(P, n), NEW q \in Nodes(P, n), NEW m, m \in 1 .. Len(p), m \in 1 .. Len(q),
         \A l \in 1 .. m - 1 : p[l] = q[l], Earlier(tree[Stem(q, m - 1)].children, p[m], q[m])
  PROVE  XOf(tree, p) + tree[p].total <= XOf(tree, q)
<1>1. p \in Seq(Names) /\ q \in Seq(Names)
  BY DEF Nodes
<1>2. Len(p) \in Nat /\ Len(q) \in Nat /\ m \in Nat /\ m <= Len(p) /\ m <= Len(q)
  BY <1>1
<1>3. PICK k \in Nat : k = m - 1 /\ k + 1 = m
  <2>1. m - 1 \in Nat /\ (m - 1) + 1 = m
    OBVIOUS
  <2> QED
    BY <2>1
<1>4. Stem(p, k) = Stem(q, k)
  <2>1. k \in 0 .. Len(p) /\ k \in 0 .. Len(q) /\ \A l \in 1 .. k : p[l] = q[l]
    BY <1>2, <1>3
  <2> QED
    BY <1>1, <2>1, StemSame
<1>5. PICK c \in Seq(Names) : c = tree[Stem(q, k)].children /\ Distinct(c)
  BY <1>3, StemNode
<1>6. Earlier(c, p[m], q[m])
  BY <1>3, <1>5
<1>7. PICK s, t : s = Left(P, n, tree, q) /\ t = Left(P, n, tree, p) \cup Thru(P, n, p)
  OBVIOUS
<1>8. ASSUME NEW i \in t PROVE i \in s
  <2>1. i \in 1 .. n
    BY <1>7, <1>8 DEF Left, Thru
  <2>2. PICK path \in Seq(Names) : path = P[i]
    BY <2>1 DEF Data
  <2>3. Len(path) \in Nat
    BY <2>2
  <2>4. Through(p, path) \/ \E l \in 1 .. Len(p) : Aside(tree, p, path, l)
    BY <1>7, <1>8, <2>2 DEF Left, Thru
  <2>5. ASSUME m <= Len(path), \A l \in 1 .. k : path[l] = p[l], path[m] = p[m] \/ Earlier(c, path[m], p[m])
        PROVE  Aside(tree, q, path, m)
    <3>1. \A l \in 1 .. m - 1 : path[l] = q[l]
      BY <1>3, <2>5
    <3>2. Earlier(c, path[m], q[m])
      BY <1>5, <1>6, <2>5, EarlierIs
    <3> QED
      BY <1>3, <1>5, <2>5, <3>1, <3>2 DEF Aside
  <2>6. CASE Through(p, path)
    <3>1. Len(p) <= Len(path) /\ \A l \in 1 .. Len(p) : p[l] = path[l]
      BY <2>6 DEF Through
    <3>2. m <= Len(path) /\ path[m] = p[m] /\ \A l \in 1 .. k : path[l] = p[l]
      BY <1>2, <1>3, <2>3, <3>1
    <3> QED
      BY <1>7, <2>1, <2>2, <2>5, <3>2 DEF Left
  <2>7. ASSUME NEW l \in 1 .. Len(p), Aside(tree, p, path, l) PROVE i \in s
    <3>1. l <= Len(path) /\ \A h \in 1 .. l - 1 : path[h] = p[h]
      BY <2>7 DEF Aside
    <3>2. CASE l < m
      <4>1. l \in 1 .. Len(q) /\ \A h \in 1 .. l : p[h] = q[h]
        BY <1>2, <1>3, <3>2
      <4>2. Aside(tree, q, path, l)
        BY <1>1, <2>7, <4>1, AsideSame
      <4> QED
        BY <1>7, <2>1, <2>2, <4>1, <4>2 DEF Left
    <3>3. CASE l = m
      <4>1. Earlier(c, path[m], p[m])
        BY <1>3, <1>4, <1>5, <2>7, <3>3 DEF Aside
      <4>2. m <= Len(path) /\ \A h \in 1 .. k : path[h] = p[h]
        BY <1>3, <3>1, <3>3
      <4> QED
        BY <1>7, <2>1, <2>2, <2>5, <4>1, <4>2 DEF Left
    <3>4. CASE m < l
      <4>1. m <= Len(path) /\ path[m] = p[m] /\ \A h \in 1 .. k : path[h] = p[h]
        BY <1>2, <1>3, <2>3, <3>1, <3>4
      <4> QED
        BY <1>7, <2>1, <2>2, <2>5, <4>1 DEF Left
    <3>5. l < m \/ l = m \/ m < l
      BY <1>2
    <3> QED
      BY <3>2, <3>3, <3>4, <3>5
  <2> QED
    BY <2>4, <2>6, <2>7
<1>9. s \in SUBSET (1 .. n) /\ t \in SUBSET s
  BY <1>7, <1>8 DEF Left
<1>10. Weigh(W, t) <= Weigh(W, s)
  BY <1>9, Inside
<1>11. XOf(tree, q) = Weigh(W, s)
  BY <1>7, XOfIs
<1>12. XOf(tree, p) + tree[p].total = Weigh(W, t)
  BY <1>7, Edges
<1> QED
  BY <1>10, <1>11, <1>12

\* Rectangles of a row do not overlap.
LEMMA RowApart ==
  ASSUME NEW n, NEW P, NEW W, Data(n, P, W), NEW tree, Grown(tree, P, W, n),
         NEW p \in Nodes(P, n), NEW q \in Nodes(P, n), Len(p) = Len(q), p # q
  PROVE  \/ XOf(tree, p) + tree[p].total <= XOf(tree, q)
         \/ XOf(tree, q) + tree[q].total <= XOf(tree, p)
<1>1. p \in Seq(Names) /\ q \in Seq(Names)
  BY DEF Nodes
<1>2. PICK r \in Nat : r = Len(p) /\ r = Len(q)
  BY <1>1
<1>3. PICK differ : differ = {l \in 1 .. r : p[l] # q[l]}
  OBVIOUS
<1>4. differ # {}
  <2> SUFFICES ASSUME differ = {} PROVE FALSE
    OBVIOUS
  <2>1. \A l \in 1 .. r : p[l] = q[l]
    BY <1>3
  <2>2. p = q
    BY <1>1, <1>2, <2>1, SeqEqual
  <2> QED
    BY <2>2
<1>5. PICK m \in differ : \A l \in differ : ~(l < m)
  <2>1. differ \in SUBSET Nat
    BY <1>3
  <2>2. \E x \in differ : \A y \in differ : ~(<<y, x>> \in OpToRel(<, Nat))
    BY <1>4, <2>1, NatLessThanWellFounded, WFMin
  <2> QED
    BY <2>1, <2>2 DEF OpToRel
<1>6. m \in 1 .. r /\ p[m] # q[m] /\ m \in 1 .. Len(p) /\ m \in 1 .. Len(q)
  BY <1>2, <1>3
<1>7. \A l \in 1 .. m - 1 : p[l] = q[l]
  <2>1. \A l \in 1 .. m - 1 : l \in 1 .. r /\ l < m
    BY <1>2, <1>6
  <2> QED
    BY <1>3, <1>5, <2>1
<1>8. Stem(p, m - 1) = Stem(q, m - 1)
  <2>1. m - 1 \in 0 .. Len(p) /\ m - 1 \in 0 .. Len(q)
    BY <1>2, <1>6
  <2>2. PICK k : k = m - 1
    OBVIOUS
  <2>3. Stem(p, k) = Stem(q, k)
    BY <1>1, <1>7, <2>1, <2>2, StemSame
  <2> QED
    BY <2>2, <2>3
<1>9. PICK c : c = tree[Stem(q, m - 1)].children
  OBVIOUS
<1>10. c \in Seq(Names) /\ Distinct(c) /\ Among(c, q[m])
  BY <1>6, <1>9, StemNode
<1>11. Among(c, p[m])
  BY <1>6, <1>8, <1>9, StemNode
<1>12. Earlier(c, p[m], q[m]) \/ Earlier(c, q[m], p[m])
  BY <1>6, <1>10, <1>11, EarlierIs
<1>13. ASSUME Earlier(c, p[m], q[m]) PROVE XOf(tree, p) + tree[p].total <= XOf(tree, q)
  BY <1>6, <1>7, <1>9, <1>13, Follows
<1>14. ASSUME Earlier(c, q[m], p[m]) PROVE XOf(tree, q) + tree[q].total <= XOf(tree, p)
  BY <1>6, <1>7, <1>8, <1>9, <1>14, Follows
<1> QED
  BY <1>12, <1>13, <1>14

\* The drawing is a flamegraph: a rectangle stands on its caller's, and those
\* of a row do not overlap (flamegraph.hpp:144-196).
THEOREM RectanglesAlwaysNested == Spec => []RectanglesNested
<1>1. IInv => RectanglesNested
  <2> SUFFICES ASSUME IInv PROVE RectanglesNested
    OBVIOUS
  <2>1. PICK tree : tree = Flamegraph
    OBVIOUS
  <2>2. records \in Seq(Faithful) /\ tree = BuildTree(records)
    BY <2>1 DEF IInv, Flamegraph
  <2>3. PICK n \in Nat : n = Len(records)
    BY <2>2
  <2>4. PICK P : P = [i \in 1 .. n |-> Path(records[i])]
    OBVIOUS
  <2>5. PICK W : W = [i \in 1 .. n |-> records[i].size]
    OBVIOUS
  <2>6. Data(n, P, W) /\ Grown(tree, P, W, n)
    BY <2>2, <2>3, <2>4, <2>5, TreeIs
  <2>7. PICK drawing : drawing = Rectangles(tree)
    OBVIOUS
  <2>8. ASSUME NEW r \in drawing
        PROVE  /\ r.path \in Nodes(P, n) /\ Drawn(tree, r.path) /\ tree[Root].total # 0
               /\ r = [path |-> r.path, row |-> Len(r.path), x |-> XOf(tree, r.path), w |-> tree[r.path].total]
    <3>1. tree[Root].total # 0
      BY <2>7, <2>8 DEF Rectangles
    <3>2. PICK p \in {q \in DOMAIN tree : Drawn(tree, q)} :
            r = [path |-> p, row |-> Len(p), x |-> XOf(tree, p), w |-> tree[p].total]
      BY <2>7, <2>8, <3>1 DEF Rectangles
    <3>3. p \in Nodes(P, n) /\ Drawn(tree, p) /\ r.path = p
      BY <2>6, <3>2 DEF Grown
    <3> QED
      BY <3>1, <3>2, <3>3
  <2>9. ASSUME NEW r \in drawing, r.path # Root
        PROVE  \E s \in drawing : s.path = Front(r.path) /\ Within(r, s)
    <3>1. PICK p : p = r.path
      OBVIOUS
    <3>2. p \in Nodes(P, n) /\ Drawn(tree, p) /\ tree[Root].total # 0 /\ r.x = XOf(tree, p) /\ r.w = tree[p].total
      BY <2>8, <3>1
    <3>3. PICK f : f = Front(p)
      OBVIOUS
    <3>4. /\ f \in Nodes(P, n) /\ Prefixes(f) \subseteq Prefixes(p)
          /\ XOf(tree, f) <= XOf(tree, p)
          /\ XOf(tree, p) + tree[p].total <= XOf(tree, f) + tree[f].total
      BY <2>6, <2>9, <3>1, <3>2, <3>3, Stands
    <3>5. Drawn(tree, f)
      BY <3>2, <3>4 DEF Drawn
    <3>6. f \in {q \in DOMAIN tree : Drawn(tree, q)}
      BY <2>6, <3>4, <3>5 DEF Grown
    <3>7. PICK s : s = [path |-> f, row |-> Len(f), x |-> XOf(tree, f), w |-> tree[f].total]
      OBVIOUS
    <3>8. s \in drawing
      BY <2>7, <3>2, <3>6, <3>7 DEF Rectangles
    <3>9. s.path = f /\ s.x = XOf(tree, f) /\ s.w = tree[f].total
      BY <3>7
    <3>10. Within(r, s)
      BY <3>2, <3>4, <3>9 DEF Within
    <3> QED
      BY <3>1, <3>3, <3>8, <3>9, <3>10
  <2>10. ASSUME NEW r \in drawing, NEW s \in drawing, r.row = s.row, r # s PROVE Disjoint(r, s)
    <3>1. PICK p, q : p = r.path /\ q = s.path
      OBVIOUS
    <3>2. p \in Nodes(P, n) /\ r = [path |-> p, row |-> Len(p), x |-> XOf(tree, p), w |-> tree[p].total]
      BY <2>8, <3>1
    <3>3. q \in Nodes(P, n) /\ s = [path |-> q, row |-> Len(q), x |-> XOf(tree, q), w |-> tree[q].total]
      BY <2>8, <3>1
    <3>4. p # q
      BY <2>10, <3>2, <3>3
    <3>5. r.row = Len(p) /\ r.x = XOf(tree, p) /\ r.w = tree[p].total
      BY <3>2
    <3>6. s.row = Len(q) /\ s.x = XOf(tree, q) /\ s.w = tree[q].total
      BY <3>3
    <3>7. Len(p) = Len(q)
      BY <2>10, <3>5, <3>6
    <3>8. \/ XOf(tree, p) + tree[p].total <= XOf(tree, q)
          \/ XOf(tree, q) + tree[q].total <= XOf(tree, p)
      BY <2>6, <3>2, <3>3, <3>4, <3>7, RowApart
    <3> QED
      BY <3>5, <3>6, <3>8 DEF Disjoint
  <2> QED
    BY <2>1, <2>7, <2>9, <2>10 DEF RectanglesNested
<1> QED
  BY InitInv, StepInv, <1>1, PTL DEF Spec

-----------------------------------------------------------------------------
(* The reports.                                                            *)

\* A third sum: the bars of the histogram.
LEMMA HeightIs ==
  ASSUME NEW J, IsFiniteSet(J), NEW bars \in [J -> Nat]
  PROVE  HeightOf(bars) = Weigh(bars, J)
<1>1. DOMAIN bars = J
  OBVIOUS
<1>2. HeightOf(bars) = (CHOOSE g : g = [s \in SUBSET J |->
            IF s = {} THEN 0 ELSE bars[Pick(s)] + g[s \ {Pick(s)}]])[J]
  BY <1>1 DEF HeightOf, MapThenSumSet, MapThenFoldSet, Pick
<1>3. ASSUME NEW g
      PROVE  IsSum(g, bars, J) <=> g = [s \in SUBSET J |-> IF s = {} THEN 0 ELSE bars[Pick(s)] + g[s \ {Pick(s)}]]
  BY DEF IsSum
<1>4. PICK g : /\ IsSum(g, bars, J)
               /\ g = CHOOSE h : h = [s \in SUBSET J |-> IF s = {} THEN 0 ELSE bars[Pick(s)] + h[s \ {Pick(s)}]]
  BY <1>3, SumExists
<1> QED
  BY <1>2, <1>4, SumIs

\* Every block that is not empty is in one bar, and no empty one is in any.
LEMMA BarsCount ==
  ASSUME NEW list \in Seq(Faithful)
  PROVE  HeightOf(Feed(list)) = Cardinality({i \in DOMAIN list : list[i].size > 0})
<1>1. PICK D, J : D = DOMAIN list /\ J = DOMAIN Buckets
  OBVIOUS
<1>2. IsFiniteSet(D) /\ IsFiniteSet(J)
  <2>1. Len(list) \in Nat /\ D = 1 .. Len(list)
    BY <1>1
  <2>2. Len(Buckets) \in Nat /\ J = 1 .. Len(Buckets)
    BY <1>1, BucketsAssumption
  <2> QED
    BY <2>1, <2>2, FS_Interval
<1>3. PICK K : K = [k \in J |-> InBucket(list, Buckets[k])]
  OBVIOUS
<1>4. K \in [J -> SUBSET D]
  BY <1>1, <1>3 DEF InBucket
<1>5. PICK bars : bars = Feed(list)
  OBVIOUS
<1>6. bars = [k \in J |-> Cardinality(K[k])]
  BY <1>1, <1>3, <1>5 DEF Feed
<1>7. PICK w : w = [i \in D |-> 1]
  OBVIOUS
<1>8. w \in [D -> Nat]
  BY <1>7
<1>9. ASSUME NEW k \in J PROVE bars[k] = Weigh(w, K[k]) /\ bars[k] \in Nat
  <2>1. K[k] \in SUBSET D /\ IsFiniteSet(K[k])
    BY <1>2, <1>4, FS_Subset
  <2>2. Weigh(w, K[k]) = Cardinality(K[k]) /\ Cardinality(K[k]) \in Nat
    BY <1>7, <2>1, WeighOnes, FS_CardinalityType
  <2> QED
    BY <1>6, <2>2
<1>10. bars \in [J -> Nat]
  BY <1>6, <1>9
<1>11. ASSUME NEW i \in D PROVE list[i].size \in Nat /\ list[i].size \in Sizes
  <2>1. list[i] \in Faithful
    BY <1>1
  <2>2. list[i].size \in Sizes
    BY <2>1 DEF Faithful
  <2> QED
    BY <2>2, ProfileAssumption
<1>12. ASSUME NEW k \in J PROVE Buckets[k].min \in Nat \ {0} /\ Buckets[k].max \in Nat
  <2>1. PICK T : T = [min : Nat \ {0}, max : Nat]
    OBVIOUS
  <2>2. Buckets \in Seq(T)
    BY <2>1, BucketsAssumption
  <2>3. Buckets[k] \in T
    BY <1>1, <2>2
  <2> QED
    BY <2>1, <2>3
<1>13. ASSUME NEW k \in J, NEW l \in J, k # l, NEW i \in K[k] \cap K[l] PROVE FALSE
  <2>1. i \in D
    BY <1>4, <1>13
  <2>2. PICK size \in Nat : size = list[i].size
    BY <1>11, <2>1
  <2>3. /\ Buckets[k].min <= size /\ size <= Buckets[k].max
        /\ Buckets[l].min <= size /\ size <= Buckets[l].max
    BY <1>3, <1>13, <2>2 DEF InBucket
  <2>4. k \in Nat /\ l \in Nat
    BY <1>1, BucketsAssumption
  <2>5. k < l \/ l < k
    BY <1>13, <2>4
  <2>6. Buckets[k].max < Buckets[l].min \/ Buckets[l].max < Buckets[k].min
    BY <1>1, <2>5, BucketsAssumption
  <2> QED
    BY <1>12, <2>2, <2>3, <2>6
<1>14. PICK some : some = {i \in D : list[i].size > 0}
  OBVIOUS
<1>15. ASSUME NEW i \in D PROVE i \in some <=> \E k \in J : i \in K[k]
  <2>1. PICK size \in Nat : size = list[i].size /\ size \in Sizes
    BY <1>11
  <2>2. ASSUME size > 0 PROVE \E k \in J : i \in K[k]
    <3>1. PICK k \in J : Buckets[k].min <= size /\ size <= Buckets[k].max
      <4>1. size \in Sizes \ {0}
        BY <2>1, <2>2
      <4> QED
        BY <1>1, <4>1, BucketsAssumption
    <3>2. i \in InBucket(list, Buckets[k])
      BY <1>1, <2>1, <3>1 DEF InBucket
    <3> QED
      BY <1>3, <3>2
  <2>3. ASSUME NEW k \in J, i \in K[k] PROVE size > 0
    <3>1. Buckets[k].min <= size
      BY <1>3, <2>1, <2>3 DEF InBucket
    <3> QED
      BY <1>12, <2>1, <3>1
  <2> QED
    BY <1>14, <2>1, <2>2, <2>3
<1>16. All(K, J) = some
  <2>1. All(K, J) \subseteq D /\ some \subseteq D
    BY <1>4, <1>14 DEF All
  <2>2. \A i \in D : i \in All(K, J) <=> i \in some
    BY <1>15 DEF All
  <2> QED
    BY <2>1, <2>2
<1>17. Weigh(bars, J) = Weigh(w, All(K, J))
  BY <1>2, <1>4, <1>8, <1>9, <1>10, <1>13, WeighParts
<1>18. Weigh(w, some) = Cardinality(some)
  <2>1. some \in SUBSET D /\ IsFiniteSet(some)
    BY <1>2, <1>14, FS_Subset
  <2> QED
    BY <1>7, <2>1, WeighOnes
<1>19. HeightOf(bars) = Weigh(bars, J)
  BY <1>2, <1>10, HeightIs
<1> QED
  BY <1>1, <1>5, <1>14, <1>16, <1>17, <1>18, <1>19

\* The reports agree about one list: the leaks of the JSON file and what is
\* suppressed make up the standalone flamegraph; the flamegraph of the HTML
\* page has the bytes of the console's summary and each call stack of the
\* page's table, and its histogram all blocks but those of size zero
\* (memsentry.cpp:393-449, 466-471, reporter.cpp:172-412).
THEOREM ReportsAlwaysAgree == Spec => []ReportsAgree
<1>1. IInv => ReportsAgree
  <2> SUFFICES ASSUME IInv PROVE ReportsAgree
    OBVIOUS
  <2>1. records \in Seq(Faithful)
    BY DEF IInv
  <2>2. PICK out : out = {rec \in Range(records) : Suppressed(rec)}
    OBVIOUS
  <2>3. PICK list : list = Unsuppressed
    OBVIOUS
  <2>4. list = Without(records, out)
    BY <2>2, <2>3 DEF Unsuppressed
  <2>5. /\ list \in Seq(Faithful \ out)
        /\ Len(list) + Cardinality({i \in DOMAIN records : records[i] \in out}) = Len(records)
    BY <2>1, <2>4, WithoutIs
  <2>6. {i \in DOMAIN records : records[i] \in out} = {i \in DOMAIN records : Suppressed(records[i])}
    BY <2>2 DEF Range
  <2>7. Len(list) + SuppressedCount = Len(records)
    BY <2>5, <2>6 DEF SuppressedCount
  <2>8. list \in Seq(Faithful)
    BY <2>5
  <2>9. PICK page : page = Html(list)
    OBVIOUS
  <2>10. page.tree = BuildTree(list) /\ page.bars = Feed(list) /\ page.leaks = Listed(list)
    BY <2>9 DEF Html
  <2>11. Json(list).leak_count = Len(list) /\ Console(list).bytes = SizeSum(list)
    BY DEF Json, Console
  <2>12. Flamegraph[Root].count = Len(records)
    BY <2>1, Accounts DEF Flamegraph
  <2>13. page.tree[Root].total = SizeSum(list) /\ \A i \in DOMAIN list : Path(list[i]) \in DOMAIN page.tree
    BY <2>8, <2>10, Accounts
  <2>14. ASSUME NEW i \in DOMAIN list, page.leaks[i].frames # <<>>
         PROVE  Reverse(page.leaks[i].frames) \in DOMAIN page.tree
    <3>1. page.leaks[i].frames = Resolve(list[i].stack)
      BY <2>10 DEF Listed, Shown
    <3>2. list[i].stack \in Seq(Frames)
      BY <2>8, RecordType
    <3>3. list[i].stack # <<>>
      BY <2>14, <3>1, <3>2, ResolveType
    <3>4. Path(list[i]) = Reverse(page.leaks[i].frames)
      BY <3>1, <3>3 DEF Path
    <3> QED
      BY <2>13, <3>4
  <2>15. HeightOf(page.bars) = Cardinality({i \in DOMAIN list : list[i].size > 0})
    BY <2>8, <2>10, BarsCount
  <2> QED
    BY <2>3, <2>7, <2>9, <2>11, <2>12, <2>13, <2>14, <2>15 DEF ReportsAgree
<1> QED
  BY InitInv, StepInv, <1>1, PTL DEF Spec

=============================================================================
