--------------------------- MODULE RegistryProofs ---------------------------
(***************************************************************************)
(* Proofs about LifeCycleRegistry, for any observers, groups and options,  *)
(* and any number of operations and changes.                               *)
(***************************************************************************)
EXTENDS LifeCycleRegistry, SequenceLemmas

(***************************************************************************)
(* Sorting.                                                                *)
(***************************************************************************)

(* compareByOrder is a total preorder.                                     *)
Preordered(a, b, c, order, alphabet) ==
  LET C(x, y) == CompareByOrder(x, y, order, alphabet) IN
  /\ C(a, b) \in Int /\ C(a, a) = 0
  /\ C(b, a) = 0 - C(a, b)
  /\ C(a, b) <= 0 /\ C(b, c) <= 0 => C(a, c) <= 0
  /\ C(a, b) < 0 /\ C(b, c) <= 0 => C(a, c) < 0
  /\ C(a, b) <= 0 /\ C(b, c) < 0 => C(a, c) < 0

LEMMA Compares ==
  ASSUME NEW T, NEW order \in Seq(T), NEW alphabet \in Seq(T), NEW a, NEW b, NEW c
  PROVE  Preordered(a, b, c, order, alphabet)
<1>1. \A x : IndexOf(order, x) \in Nat /\ IndexOf(alphabet, x) \in Nat
  <2>1. Len(order) \in Nat /\ Len(alphabet) \in Nat
    OBVIOUS
  <2> QED BY <2>1, IndexOfFinds
<1> DEFINE C(x, y) == CompareByOrder(x, y, order, alphabet)
           n(x) == IndexOf(order, x)
           m(x) == IndexOf(alphabet, x)
<1>2. \A x, y : C(x, y) = IF n(x) # 0 \/ n(y) # 0 THEN n(x) - n(y) ELSE m(x) - m(y)
  BY DEF CompareByOrder
<1>3. /\ C(a, b) = IF n(a) # 0 \/ n(b) # 0 THEN n(a) - n(b) ELSE m(a) - m(b)
      /\ C(b, a) = IF n(b) # 0 \/ n(a) # 0 THEN n(b) - n(a) ELSE m(b) - m(a)
      /\ C(b, c) = IF n(b) # 0 \/ n(c) # 0 THEN n(b) - n(c) ELSE m(b) - m(c)
      /\ C(a, c) = IF n(a) # 0 \/ n(c) # 0 THEN n(a) - n(c) ELSE m(a) - m(c)
      /\ C(a, a) = IF n(a) # 0 \/ n(a) # 0 THEN n(a) - n(a) ELSE m(a) - m(a)
  BY <1>2
<1>4. n(a) \in Nat /\ n(b) \in Nat /\ n(c) \in Nat /\ m(a) \in Nat /\ m(b) \in Nat /\ m(c) \in Nat
  BY <1>1
<1> HIDE DEF C, n, m
<1>5. /\ C(a, b) \in Int /\ C(a, a) = 0
      /\ C(b, a) = 0 - C(a, b)
      /\ C(a, b) <= 0 /\ C(b, c) <= 0 => C(a, c) <= 0
      /\ C(a, b) < 0 /\ C(b, c) <= 0 => C(a, c) < 0
      /\ C(a, b) <= 0 /\ C(b, c) < 0 => C(a, c) < 0
  BY <1>3, <1>4
<1> QED BY <1>5 DEF C, Preordered

(* Sorting moves everything to another place, and orders it.               *)
LEMMA SortingPermutes ==
  ASSUME NEW T, NEW bindings \in Seq(T), NEW phase,
         NEW N, NEW order \in Seq(N), NEW alphabet \in Seq(N)
  PROVE  \E p \in [1..Len(bindings) -> 1..Len(bindings)] :
           /\ SortBindingsByPhase(bindings, phase, order, alphabet)
                = [k \in 1..Len(bindings) |-> bindings[p[k]]]
           /\ \A i, j \in 1..Len(bindings) : p[i] = p[j] => i = j
           /\ \A x \in 1..Len(bindings) : \E k \in 1..Len(bindings) : p[k] = x
           /\ \A i, j \in 1..Len(bindings) : i < j =>
                LET c == CompareByOrder(phase[bindings[p[i]]], phase[bindings[p[j]]],
                                        order, alphabet)
                IN c < 0 \/ (c = 0 /\ p[i] < p[j])
<1> DEFINE n == Len(bindings)
           c(i, j) == CompareByOrder(phase[bindings[i]], phase[bindings[j]], order, alphabet)
           Before(i, j) == c(i, j) < 0 \/ (c(i, j) = 0 /\ i < j)
           p == InOrder(DOMAIN bindings, Before)
<1>1. n \in Nat /\ DOMAIN bindings = 1..n /\ Cardinality(1..n) = n /\ IsFiniteSet(1..n)
  <2>1. n \in Nat /\ DOMAIN bindings = 1..n
    OBVIOUS
  <2> HIDE DEF n
  <2> QED BY <2>1, FS_Interval
<1>2. \A i, j, k : /\ c(i, j) \in Int /\ c(i, i) = 0 /\ c(j, i) = 0 - c(i, j)
                   /\ c(i, j) <= 0 /\ c(j, k) <= 0 => c(i, k) <= 0
                   /\ c(i, j) < 0 /\ c(j, k) <= 0 => c(i, k) < 0
                   /\ c(i, j) <= 0 /\ c(j, k) < 0 => c(i, k) < 0
  <2> DEFINE f(i) == phase[bindings[i]]
  <2>1. \A i, j, k : Preordered(f(i), f(j), f(k), order, alphabet)
    BY Compares, Zenon
  <2> QED BY <2>1, Zenon DEF Preordered
<1>3. SortBindingsByPhase(bindings, phase, order, alphabet) = [k \in DOMAIN bindings |-> bindings[p[k]]]
  BY DEF SortBindingsByPhase
<1> HIDE DEF c
<1> DEFINE below == [x \in 1..n |-> {y \in 1..n : Before(y, x)}]
<1>4. /\ \A x \in 1..n : below[x] = {y \in 1..n : Before(y, x)}
      /\ \A k \in 1..n : \E x \in 1..n : Cardinality(below[x]) = k - 1
      /\ \A x, y \in 1..n : Cardinality(below[x]) < Cardinality(below[y]) => x \in below[y]
  <2>0. \A x \in 1..n : below[x] = {y \in 1..n : Before(y, x)}
    OBVIOUS
  <2>1. \A a \in 1..n : below[a] \subseteq 1..n /\ a \notin below[a]
    BY <1>2, <2>0
  <2>2. \A a, b \in 1..n : a # b => a \in below[b] \/ b \in below[a]
    <3> SUFFICES ASSUME NEW a \in 1..n, NEW b \in 1..n, a # b
                 PROVE  Before(a, b) \/ Before(b, a)
      BY <2>0
    <3> QED BY <1>1, <1>2
  <2>3. \A a, b, d \in 1..n : a \in below[b] /\ b \in below[d] => a \in below[d]
    <3> SUFFICES ASSUME NEW a \in 1..n, NEW b \in 1..n, NEW d \in 1..n, Before(a, b), Before(b, d)
                 PROVE  Before(a, d)
      BY <2>0
    <3>1. /\ c(a, b) \in Int /\ c(b, d) \in Int /\ c(a, d) \in Int /\ c(d, a) = 0 - c(a, d)
          /\ c(a, b) <= 0 /\ c(b, d) <= 0 => c(a, d) <= 0
          /\ c(a, b) < 0 /\ c(b, d) <= 0 => c(a, d) < 0
          /\ c(a, b) <= 0 /\ c(b, d) < 0 => c(a, d) < 0
      BY <1>2
    <3> QED BY <1>1, <3>1
  <2> DEFINE S == 1..n
  <2>4. IsFiniteSet(S) /\ Cardinality(S) = n
    BY <1>1
  <2>5. /\ \A x \in S : below[x] \subseteq S /\ x \notin below[x]
        /\ \A x, y \in S : x # y => x \in below[y] \/ y \in below[x]
        /\ \A x, y, z \in S : x \in below[y] /\ y \in below[z] => x \in below[z]
    BY <2>1, <2>2, <2>3, Zenon
  <2> HIDE DEF below, Before, n, S
  <2>6. /\ \A k \in 1..Cardinality(S) : \E x \in S : Cardinality(below[x]) = k - 1
        /\ \A x, y \in S : Cardinality(below[x]) < Cardinality(below[y]) => x \in below[y]
    BY <2>4, <2>5, OrderPlaces
  <2> USE DEF S
  <2> QED BY <2>0, <2>4, <2>6, Zenon
<1> HIDE DEF below
<1>5. p \in [1..n -> 1..n] /\ \A i, j \in 1..n : i < j => Before(p[i], p[j])
  <2>1. p = [k \in 1..n |-> CHOOSE x \in 1..n : Cardinality({y \in 1..n : Before(y, x)}) = k - 1]
    BY <1>1 DEF InOrder
  <2> HIDE DEF p, Before
  <2>2. ASSUME NEW k \in 1..n
        PROVE  p[k] \in 1..n /\ Cardinality(below[p[k]]) = k - 1
    <3>1. \E x \in 1..n : Cardinality({y \in 1..n : Before(y, x)}) = k - 1
      BY <1>4
    <3>2. p[k] \in 1..n /\ Cardinality({y \in 1..n : Before(y, p[k])}) = k - 1
      BY <2>1, <3>1
    <3> QED BY <1>4, <3>2
  <2>3. ASSUME NEW i \in 1..n, NEW j \in 1..n, i < j
        PROVE  Before(p[i], p[j])
    <3>1. i - 1 < j - 1
      BY <1>1, <2>3
    <3>2. p[i] \in below[p[j]]
      BY <1>4, <2>2, <3>1
    <3> QED BY <1>4, <2>2, <3>2
  <2>4. p \in [1..n -> 1..n]
    BY <2>1, <2>2
  <2> QED BY <2>3, <2>4
<1> HIDE DEF p
<1>6. \A i, j \in 1..n : p[i] = p[j] => i = j
  <2> SUFFICES ASSUME NEW i \in 1..n, NEW j \in 1..n, p[i] = p[j], i < j
               PROVE  FALSE
    BY <1>1
  <2>1. Before(p[i], p[i])
    BY <1>5
  <2>2. p[i] \in 1..n
    BY <1>5
  <2> QED BY <1>1, <1>2, <2>1, <2>2
<1>7. \A x \in 1..n : \E k \in 1..n : p[k] = x
  <2>1. p \in Injection(1..n, 1..n)
    BY <1>5, <1>6 DEF Injection, IsInjective
  <2>2. p \in Surjection(1..n, 1..n)
    BY <1>1, <2>1, FS_Injection
  <2> QED BY <2>2 DEF Surjection
<1> QED BY <1>1, <1>3, <1>5, <1>6, <1>7 DEF c

-----------------------------------------------------------------------------
(***************************************************************************)
(* Groups and their observers.                                             *)
(***************************************************************************)

LEMMA GroupType1 ==
  ASSUME TypeOK, NEW o \in Observers
  PROVE  Group(o) \in Names
<1>1. options.orderedGroups \in Seq(Names) /\ "" \in Names /\ Explicit[o] \in Names
  <2>1. options.orderedGroups \in Seq(Names)
    BY ObserversAssumption DEF TypeOK
  <2>2. Alphabet \in Seq(Names) /\ Alphabet # <<>>
    BY ObserversAssumption
  <2>3. "" \in Names
    <3>1. Head(Alphabet) \in Names
      BY <2>2, HeadTailProperties
    <3>2. Head(Alphabet) = ""
      BY ObserversAssumption
    <3> QED BY <3>1, <3>2, Zenon
  <2> QED BY <2>1, <2>3, ObserversAssumption
<1> DEFINE order == options.orderedGroups
           I == {i \in 1..Len(order) : order[i] \in Tagged[o]}
<1>2. Group(o) = IF Explicit[o] # "" THEN Explicit[o]
                 ELSE IF (IF I # {} THEN Min(I) ELSE 0) # 0
                      THEN order[IF I # {} THEN Min(I) ELSE 0] ELSE ""
  BY DEF Group, GroupIn, SelectInSeq
<1>4. Len(order) \in Nat /\ \A i \in 1..Len(order) : order[i] \in Names
  <2>1. order \in Seq(Names)
    BY <1>1
  <2> HIDE DEF order
  <2> QED BY <2>1
<1>3. I # {} => Min(I) \in I
  <2>1. I \in SUBSET (1..Len(order)) /\ Len(order) \in Nat
    BY <1>4
  <2> QED BY <2>1, LeastAndGreatest
<1> HIDE DEF order
<1> QED BY <1>1, <1>2, <1>3, <1>4

LEMMA SortedPermutes ==
  ASSUME TypeOK, NEW s \in Seq(Observers)
  PROVE  \E p \in [1..Len(s) -> 1..Len(s)] :
           /\ Sorted(s) = [k \in 1..Len(s) |-> s[p[k]]]
           /\ \A i, j \in 1..Len(s) : p[i] = p[j] => i = j
           /\ \A x \in 1..Len(s) : \E k \in 1..Len(s) : p[k] = x
           /\ \A i, j \in 1..Len(s) : i < j =>
                LET c == CompareByOrder(Explicit[s[p[i]]], Explicit[s[p[j]]],
                                        options.orderedGroups, Alphabet)
                IN c < 0 \/ (c = 0 /\ p[i] < p[j])
<1>1. options.orderedGroups \in Seq(Names) /\ Alphabet \in Seq(Names)
  <2>1. options.orderedGroups \in Seq(Names)
    BY ObserversAssumption DEF TypeOK
  <2> QED BY <2>1, ObserversAssumption
<1> QED BY <1>1, SortingPermutes DEF Sorted

LEMMA SortedKeeps ==
  ASSUME TypeOK, NEW s \in Seq(Observers)
  PROVE  /\ Sorted(s) \in Seq(Observers)
         /\ Len(Sorted(s)) = Len(s)
         /\ ToSet(Sorted(s)) = ToSet(s)
         /\ IsInjective(s) => IsInjective(Sorted(s))
<1>1. PICK p \in [1..Len(s) -> 1..Len(s)] :
           /\ Sorted(s) = [k \in 1..Len(s) |-> s[p[k]]]
           /\ \A i, j \in 1..Len(s) : p[i] = p[j] => i = j
           /\ \A x \in 1..Len(s) : \E k \in 1..Len(s) : p[k] = x
  BY SortedPermutes
<1>2. Len(s) \in Nat /\ DOMAIN s = 1..Len(s) /\ \A i \in 1..Len(s) : s[i] \in Observers
  OBVIOUS
<1>3. Sorted(s) \in Seq(Observers) /\ Len(Sorted(s)) = Len(s) /\ DOMAIN Sorted(s) = 1..Len(s)
  BY <1>1, <1>2
<1>4. ToSet(Sorted(s)) = ToSet(s)
  <2>1. \A k \in 1..Len(s) : p[k] \in 1..Len(s) /\ Sorted(s)[k] = s[p[k]]
    BY <1>1
  <2>2. \A x \in 1..Len(s) : s[x] \in ToSet(Sorted(s))
    BY <1>1, <1>3 DEF ToSet
  <2>3. \A k \in 1..Len(s) : Sorted(s)[k] \in ToSet(s)
    BY <1>2, <2>1 DEF ToSet
  <2> QED BY <1>2, <1>3, <2>2, <2>3 DEF ToSet
<1>5. ASSUME IsInjective(s)
      PROVE  IsInjective(Sorted(s))
  <2>1. SUFFICES ASSUME NEW i \in 1..Len(s), NEW j \in 1..Len(s), Sorted(s)[i] = Sorted(s)[j]
                 PROVE  i = j
    BY <1>3 DEF IsInjective
  <2>2. p[i] \in DOMAIN s /\ p[j] \in DOMAIN s /\ s[p[i]] = s[p[j]]
    BY <1>1, <1>2, <2>1
  <2>3. p[i] = p[j]
    BY <1>5, <2>2 DEF IsInjective
  <2> QED BY <1>1, <2>3
<1> QED BY <1>3, <1>4, <1>5

(* No binding is in two groups, or twice in one.                           *)
Partitioned(groups) ==
  /\ \A k \in 1..Len(groups) : IsInjective(groups[k].bindings)
  /\ \A k, l \in 1..Len(groups), o \in Observers :
       o \in ToSet(groups[k].bindings) /\ o \in ToSet(groups[l].bindings) => k = l

LEMMA GroupsPartition ==
  ASSUME TypeOK, NEW s \in Seq(Observers), IsInjective(s)
  PROVE  /\ Groups(s) \in Seq(GroupType)
         /\ \A k \in 1..Len(Groups(s)) : \A o \in ToSet(Groups(s)[k].bindings) :
              o \in ToSet(s) /\ Group(o) = Groups(s)[k].group
         /\ \A o \in ToSet(s) : \E k \in 1..Len(Groups(s)) : o \in ToSet(Groups(s)[k].bindings)
         /\ \A k, l \in 1..Len(Groups(s)) :
              Groups(s)[k].group = Groups(s)[l].group => k = l
         /\ Partitioned(Groups(s))
<1> DEFINE F == {i \in 1..Len(s) : \A j \in 1..(i - 1) : Group(s[j]) # Group(s[i])}
           leaders == Filtered(s, F)
           gs == Groups(s)
           Of(o) == {i \in 1..Len(s) : Group(s[i]) = Group(o)}
<1>1. /\ Len(s) \in Nat /\ DOMAIN s = 1..Len(s) /\ \A i \in 1..Len(s) : s[i] \in Observers
      /\ F \in SUBSET (1..Len(s)) /\ \A o : Of(o) \in SUBSET (1..Len(s))
  OBVIOUS
<1>2. leaders \in Seq(Observers)
  BY <1>1, FilteredKeeps
<1>3. /\ DOMAIN gs = DOMAIN leaders
      /\ \A k \in DOMAIN leaders :
           gs[k] = [group |-> Group(leaders[k]), bindings |-> Filtered(s, Of(leaders[k]))]
      /\ gs = [k \in DOMAIN leaders |->
                 [group |-> Group(leaders[k]), bindings |-> Filtered(s, Of(leaders[k]))]]
  BY <1>1 DEF Groups, GroupEntry
<1>4. \A o : Filtered(s, Of(o)) \in Seq(Observers) /\ ToSet(Filtered(s, Of(o))) = {s[i] : i \in Of(o)}
  <2> SUFFICES ASSUME NEW o
               PROVE  Filtered(s, Of(o)) \in Seq(Observers) /\ ToSet(Filtered(s, Of(o))) = {s[i] : i \in Of(o)}
    OBVIOUS
  <2>1. PICK I : I = Of(o)
    OBVIOUS
  <2>2. I \in SUBSET (1..Len(s))
    BY <2>1
  <2>3. Filtered(s, I) \in Seq(Observers) /\ ToSet(Filtered(s, I)) = {s[i] : i \in I}
    BY <2>2, FilteredKeeps, FilteredElements
  <2> QED BY <2>1, <2>3
<1>5. \A o : IsInjective(Filtered(s, Of(o)))
  <2> SUFFICES ASSUME NEW o PROVE IsInjective(Filtered(s, Of(o)))
    OBVIOUS
  <2>1. \A i, j \in Of(o) : s[i] = s[j] => i = j
    BY <1>1 DEF IsInjective
  <2> HIDE DEF Of
  <2> QED BY <1>1, <2>1, FilteredInjective
<1>6. ToSet(leaders) = {s[i] : i \in F}
  BY <1>1, FilteredElements
<1>7. \A k, l \in DOMAIN leaders : Group(leaders[k]) = Group(leaders[l]) => k = l
  <2>1. PICK p \in [1..Cardinality(F) -> F] :
           /\ \A i, j \in 1..Cardinality(F) : i < j => p[i] < p[j]
           /\ \A k \in 1..Cardinality(F) : leaders[k] = s[p[k]]
    <3> HIDE DEF F
    <3> QED BY <1>1, FilteredKeeps
  <2>2. DOMAIN leaders = 1..Cardinality(F) /\ Cardinality(F) \in Nat
    <3> HIDE DEF F
    <3> QED BY <1>1, FilteredKeeps
  <2> DEFINE n == Cardinality(F)
  <2> HIDE DEF n, leaders
  <2> SUFFICES ASSUME NEW k \in 1..n, NEW l \in 1..n, k < l,
                      Group(leaders[k]) = Group(leaders[l])
               PROVE  FALSE
    BY <2>2 DEF n
  <2>3. p[k] \in F /\ p[l] \in F /\ p[k] < p[l]
    BY <2>1 DEF n
  <2>4. p[k] \in 1..(p[l] - 1)
    BY <1>1, <2>3
  <2> QED BY <2>1, <2>3, <2>4 DEF n
<1>8. \A o \in ToSet(s) : \E k \in DOMAIN leaders : Group(leaders[k]) = Group(o)
  <2> SUFFICES ASSUME NEW x \in 1..Len(s)
               PROVE  \E k \in DOMAIN leaders : Group(leaders[k]) = Group(s[x])
    BY <1>1 DEF ToSet
  <2> DEFINE I == {i \in 1..Len(s) : Group(s[i]) = Group(s[x])}
  <2>1. I # {} /\ I \in SUBSET (1..Len(s))
    OBVIOUS
  <2>2. Min(I) \in I /\ \A y \in I : Min(I) <= y
    BY <1>1, <2>1, LeastAndGreatest
  <2> DEFINE m == Min(I)
  <2> HIDE DEF m
  <2>3. m \in 1..Len(s) /\ Group(s[m]) = Group(s[x]) /\ \A y \in 1..Len(s) : Group(s[y]) = Group(s[x]) => m <= y
    BY <2>2 DEF m
  <2>4. m \in F
    <3> SUFFICES ASSUME NEW j \in 1..(m - 1) PROVE Group(s[j]) # Group(s[m])
      BY <2>3
    <3>1. j \in 1..Len(s) /\ ~(m <= j)
      BY <1>1, <2>3
    <3> QED BY <2>3, <3>1
  <2>5. s[m] \in ToSet(leaders)
    BY <1>6, <2>4
  <2> QED BY <2>3, <2>5 DEF ToSet
<1> HIDE DEF leaders, gs, F
<1>9. DOMAIN leaders = 1..Len(leaders) /\ Len(leaders) \in Nat /\ \A k \in DOMAIN leaders : leaders[k] \in Observers
  BY <1>2
<1>10. \A k \in DOMAIN leaders : gs[k] \in GroupType
  BY <1>3, <1>4, <1>9, GroupType1 DEF GroupType
<1>11. gs \in Seq(GroupType) /\ Len(gs) = Len(leaders)
  BY <1>3, <1>9, <1>10
<1>12. \A k \in 1..Len(gs) : \A o \in ToSet(gs[k].bindings) :
              o \in ToSet(s) /\ Group(o) = gs[k].group
  <2> SUFFICES ASSUME NEW k \in 1..Len(gs), NEW o \in ToSet(gs[k].bindings)
               PROVE  o \in ToSet(s) /\ Group(o) = gs[k].group
    OBVIOUS
  <2>1. k \in DOMAIN leaders /\ gs[k].group = Group(leaders[k])
    BY <1>3, <1>9, <1>11
  <2>2. o \in {s[i] : i \in Of(leaders[k])}
    BY <1>3, <1>4, <2>1
  <2> QED BY <1>1, <2>1, <2>2 DEF ToSet
<1>13. \A o \in ToSet(s) : \E k \in 1..Len(gs) : o \in ToSet(gs[k].bindings)
  <2> SUFFICES ASSUME NEW x \in 1..Len(s) PROVE \E k \in 1..Len(gs) : s[x] \in ToSet(gs[k].bindings)
    BY <1>1 DEF ToSet
  <2>1. PICK k \in DOMAIN leaders : Group(leaders[k]) = Group(s[x])
    BY <1>1, <1>8 DEF ToSet
  <2>2. s[x] \in {s[i] : i \in Of(leaders[k])}
    BY <2>1
  <2> QED BY <1>3, <1>4, <1>9, <1>11, <2>1, <2>2
<1>14. \A k, l \in 1..Len(gs) : gs[k].group = gs[l].group => k = l
  BY <1>3, <1>7, <1>9, <1>11
<1>15. Partitioned(gs)
  <2>1. \A k \in 1..Len(gs) : IsInjective(gs[k].bindings)
    BY <1>3, <1>5, <1>9, <1>11
  <2>2. \A k, l \in 1..Len(gs), o \in Observers :
       o \in ToSet(gs[k].bindings) /\ o \in ToSet(gs[l].bindings) => k = l
    BY <1>12, <1>14
  <2> QED BY <2>1, <2>2 DEF Partitioned
<1> QED BY <1>11, <1>12, <1>13, <1>14, <1>15 DEF gs

-----------------------------------------------------------------------------
(***************************************************************************)
(* Nobody is notified twice.                                               *)
(***************************************************************************)

(* Nothing occurs twice, except for undefined.                             *)
NoTwice(s) == \A i, j \in 1..Len(s) : s[i] = s[j] /\ s[i] # NULL => i = j

Unique ==
  /\ IsInjective(registered)
  /\ view.bindings # NULL => IsInjective(view.bindings)
  /\ view.values # NULL => NoTwice(V!CachedValues(view))
  /\ NoTwice(run.observers) /\ NoTwice(run.members)

(* Binding b is in a group that is still to come.                          *)
ToCome(b) == \E k \in 1..Len(run.groups) : b \in ToSet(run.groups[k].bindings)

(* Who is still to be notified has not been notified.                      *)
NotYet ==
  /\ run.at \in {"tick", "resolving", "collect"} => log = <<>> /\ run.members = <<>>
  /\ \A i \in 1..Len(run.members) : run.members[i] # NULL => run.members[i] \notin ToSet(log)
  /\ \A b \in Observers : ToCome(b) /\ ObserverOf(b) # NULL =>
       ObserverOf(b) \notin ToSet(log) /\ ObserverOf(b) \notin ToSet(run.members)

IInv == TypeOK /\ Unique /\ Partitioned(run.groups) /\ NotYet /\ NotifiedOnce

LEMMA RefreshedType == V!Refreshed \in ViewType
BY DEF V!Refreshed, ViewType

LEMMA IdleType ==
  /\ Idle \in RunType
  /\ Idle.observers = <<>> /\ Idle.members = <<>> /\ Idle.groups = <<>>
BY DEF Idle, RunType, Events, Points

LEMMA InitIInv == Init => IInv
<1> SUFFICES ASSUME Init PROVE IInv
  OBVIOUS
<1>1. registered \in Seq(Observers) /\ IsInjective(registered)
  <2>1. Cardinality(Observers) \in Nat
    BY ObserversAssumption, FS_CardinalityType
  <2> QED BY <2>1 DEF Init
<1>2. run \in RunType
  BY IdleType DEF Init
<1>3. TypeOK
  <2>1. options \in [orderedGroups : Orders, disabledGroups : SUBSET Names, parallel : BOOLEAN]
    BY ObserversAssumption DEF Init
  <2> QED BY <1>1, <1>2, <2>1, RefreshedType DEF Init, TypeOK
<1>4. Unique /\ Partitioned(run.groups) /\ NotYet /\ NotifiedOnce
  BY <1>1 DEF Init, Idle, V!Refreshed, Unique, NoTwice, Partitioned, NotYet, ToCome, NotifiedOnce,
              IsInjective, ToSet
<1> QED BY <1>3, <1>4 DEF IInv

LEMMA UniqueKeeps ==
  ASSUME Unique, UNCHANGED view, UNCHANGED registered,
         NoTwice(run'.observers), NoTwice(run'.members)
  PROVE  Unique'
<1>1. view.values # NULL => NoTwice(V!CachedValues(view))
  BY DEF Unique
<1>2. view'.values # NULL => NoTwice(V!CachedValues(view'))
  BY <1>1
<1>3. IsInjective(registered') /\ (view'.bindings # NULL => IsInjective(view'.bindings))
  BY DEF Unique
<1> QED BY <1>2, <1>3 DEF Unique

(* The context and the view change around an operation.                    *)
LEMMA AroundKeeps ==
  ASSUME IInv, TypeOK', UNCHANGED <<run, log>>,
         IsInjective(registered'),
         \/ UNCHANGED view
         \/ view' = V!Refreshed
  PROVE  IInv'
<1>1. UNCHANGED <<run.observers, run.members, run.groups, run.bindings, run.at>>
  OBVIOUS
<1>2. Unique'
  <2>1. CASE UNCHANGED view
    <3>1. view'.values # NULL => NoTwice(V!CachedValues(view'))
      <4>1. view.values # NULL => NoTwice(V!CachedValues(view))
        BY DEF IInv, Unique
      <4> QED BY <2>1, <4>1
    <3>2. view'.bindings # NULL => IsInjective(view'.bindings)
      BY <2>1 DEF IInv, Unique
    <3>3. NoTwice(run'.observers) /\ NoTwice(run'.members)
      BY <1>1 DEF IInv, Unique
    <3> QED BY <3>1, <3>2, <3>3 DEF Unique
  <2>2. CASE view' = V!Refreshed
    <3>1. view'.bindings = NULL /\ view'.values = NULL
      BY <2>2 DEF V!Refreshed
    <3> QED BY <1>1, <3>1 DEF IInv, Unique, NoTwice
  <2> QED BY <2>1, <2>2
<1>3. Partitioned(run.groups)' /\ NotYet' /\ NotifiedOnce'
  BY DEF IInv, Partitioned, NotYet, ToCome, ObserverOf, NotifiedOnce
<1> QED BY <1>2, <1>3 DEF IInv

LEMMA BindKeeps ==
  ASSUME IInv, NEW o \in Observers, Bind(o)
  PROVE  IInv'
<1>1. /\ registered' \in Seq(Observers) /\ IsInjective(registered')
  <2>1. registered \in Seq(Observers) /\ IsInjective(registered)
    BY DEF IInv, TypeOK, Unique
  <2> QED BY <2>1, AppendAdds DEF Bind
<1>2. TypeOK'
  BY <1>1 DEF IInv, TypeOK, Bind
<1> QED BY <1>1, <1>2, AroundKeeps DEF Bind

LEMMA UnbindKeeps ==
  ASSUME IInv, NEW o \in Observers, Unbind(o)
  PROVE  IInv'
<1>1. /\ registered' \in Seq(Observers) /\ IsInjective(registered')
  <2>1. registered \in Seq(Observers) /\ IsInjective(registered)
    BY DEF IInv, TypeOK, Unique
  <2> QED BY <2>1, RemoveFirstRemoves DEF Unbind
<1>2. TypeOK'
  BY <1>1 DEF IInv, TypeOK, Unbind
<1> QED BY <1>1, <1>2, AroundKeeps DEF Unbind

LEMMA NotifyKeeps ==
  ASSUME IInv, Notify
  PROVE  IInv'
<1>1. TypeOK'
  BY RefreshedType DEF IInv, TypeOK, Notify, bounds
<1>2. IsInjective(registered')
  BY DEF IInv, Unique, Notify
<1> QED BY <1>1, <1>2, AroundKeeps DEF Notify

LEMMA SetOrderedGroupsKeeps ==
  ASSUME IInv, NEW order \in Orders, SetOrderedGroups(order)
  PROVE  IInv'
<1>1. TypeOK'
  BY DEF IInv, TypeOK, SetOrderedGroups
<1>2. IsInjective(registered')
  BY DEF IInv, Unique, SetOrderedGroups
<1> QED BY <1>1, <1>2, AroundKeeps DEF SetOrderedGroups

(* As long as nobody has been notified ...                                 *)
LEMMA EarlyKeeps ==
  ASSUME TypeOK', Unique', Partitioned(run.groups)',
         log' = <<>>, run'.members = <<>>
  PROVE  IInv'
<1>1. ToSet(log') = {} /\ ToSet(run'.members) = {} /\ Len(run'.members) = 0
  BY DEF ToSet
<1>2. NotYet' /\ NotifiedOnce'
  BY <1>1 DEF NotYet, NotifiedOnce, IsInjective
<1> QED BY <1>2 DEF IInv

LEMMA FoundBindings ==
  ASSUME IInv
  PROVE  /\ V!WithBindings(view, registered) \in ViewType
         /\ V!WithBindings(view, registered).bindings \in Seq(Observers)
         /\ IsInjective(V!WithBindings(view, registered).bindings)
         /\ V!WithBindings(view, registered).values = view.values
<1>1. /\ view \in ViewType /\ registered \in Seq(Observers) /\ IsInjective(registered)
      /\ view.bindings # NULL => IsInjective(view.bindings)
  BY DEF IInv, TypeOK, Unique
<1>2. CASE view.bindings = NULL
  <2>1. V!WithBindings(view, registered) = [view EXCEPT !.bindings = registered]
    BY <1>2 DEF V!WithBindings
  <2> QED BY <1>1, <2>1 DEF ViewType
<1>3. CASE view.bindings # NULL
  <2>1. V!WithBindings(view, registered) = view
    BY <1>3 DEF V!WithBindings
  <2> QED BY <1>1, <1>3, <2>1 DEF ViewType
<1> QED BY <1>2, <1>3

LEMMA ReverseKeeps ==
  ASSUME NEW T, NEW s \in Seq(T)
  PROVE  /\ Reverse(s) \in Seq(T) /\ Len(Reverse(s)) = Len(s)
         /\ \A i \in 1..Len(s) : Reverse(s)[i] = s[Len(s) - i + 1]
         /\ ToSet(Reverse(s)) = ToSet(s)
         /\ IsInjective(s) => IsInjective(Reverse(s))
<1> DEFINE n == Len(s)
           r == Reverse(s)
<1>1. n \in Nat /\ DOMAIN s = 1..n /\ \A i \in 1..n : s[i] \in T
  OBVIOUS
<1>2. r = [i \in 1..n |-> s[(n - i) + 1]]
  BY DEF Reverse
<1> HIDE DEF n, r
<1>3. \A i \in 1..n : (n - i) + 1 \in 1..n /\ (n - ((n - i) + 1)) + 1 = i
  BY <1>1
<1>4. r \in Seq(T) /\ Len(r) = n /\ DOMAIN r = 1..n /\ \A i \in 1..n : r[i] = s[(n - i) + 1]
  BY <1>1, <1>2, <1>3
<1>5. ToSet(r) = ToSet(s)
  <2>1. \A i \in 1..n : r[i] \in ToSet(s)
    BY <1>1, <1>3, <1>4 DEF ToSet
  <2>2. ASSUME NEW i \in 1..n
        PROVE  s[i] \in ToSet(r)
    <3>1. (n - i) + 1 \in 1..n /\ r[(n - i) + 1] = s[i]
      BY <1>3, <1>4
    <3> QED BY <1>4, <3>1 DEF ToSet
  <2> QED BY <1>1, <1>4, <2>1, <2>2 DEF ToSet
<1>6. ASSUME IsInjective(s)
      PROVE  IsInjective(r)
  <2>1. SUFFICES ASSUME NEW i \in 1..n, NEW j \in 1..n, r[i] = r[j]
                 PROVE  i = j
    BY <1>4 DEF IsInjective
  <2>2. (n - i) + 1 \in DOMAIN s /\ (n - j) + 1 \in DOMAIN s /\ s[(n - i) + 1] = s[(n - j) + 1]
    BY <1>1, <1>3, <1>4, <2>1
  <2>3. (n - i) + 1 = (n - j) + 1
    BY <1>6, <2>2 DEF IsInjective
  <2> QED BY <1>1, <2>3
<1> QED BY <1>4, <1>5, <1>6 DEF n, r

(* The groups in the order in which they are stopped.                      *)
Reversed(groups) == [k \in DOMAIN groups |-> Backwards(Reverse(groups)[k])]

LEMMA ReversedPartition ==
  ASSUME NEW gs \in Seq(GroupType)
  PROVE  /\ Reversed(gs) \in Seq(GroupType) /\ Len(Reversed(gs)) = Len(gs)
         /\ \A k \in 1..Len(gs) :
              /\ Len(gs) - k + 1 \in 1..Len(gs)
              /\ Reversed(gs)[k].group = gs[Len(gs) - k + 1].group
              /\ ToSet(Reversed(gs)[k].bindings) = ToSet(gs[Len(gs) - k + 1].bindings)
         /\ Partitioned(gs) => Partitioned(Reversed(gs))
<1> DEFINE n == Len(gs)
           r == Reversed(gs)
<1>1. n \in Nat /\ DOMAIN gs = 1..n /\ \A k \in 1..n : gs[k] \in GroupType
  OBVIOUS
<1>2. \A k \in 1..n : Reverse(gs)[k] = gs[n - k + 1]
  BY ReverseKeeps
<1>3. r = [k \in DOMAIN gs |-> Backwards(Reverse(gs)[k])]
  BY DEF Reversed
<1> HIDE DEF n, r
<1>4. \A k \in 1..n : n - k + 1 \in 1..n
  BY <1>1
<1>5. ASSUME NEW k \in 1..n
      PROVE  /\ r[k] \in GroupType
             /\ r[k].group = gs[n - k + 1].group
             /\ ToSet(r[k].bindings) = ToSet(gs[n - k + 1].bindings)
             /\ IsInjective(gs[n - k + 1].bindings) => IsInjective(r[k].bindings)
  <2>1. PICK g \in GroupType : g = gs[n - k + 1]
    BY <1>1, <1>4
  <2>2. r[k] = [g EXCEPT !.bindings = Reverse(g.bindings)]
    BY <1>1, <1>2, <1>3, <2>1 DEF Backwards
  <2>3. g.bindings \in Seq(Observers) /\ g.group \in Names
    BY DEF GroupType
  <2>4. /\ Reverse(g.bindings) \in Seq(Observers)
        /\ ToSet(Reverse(g.bindings)) = ToSet(g.bindings)
        /\ IsInjective(g.bindings) => IsInjective(Reverse(g.bindings))
    BY <2>3, ReverseKeeps
  <2>5. r[k].group = g.group /\ r[k].bindings = Reverse(g.bindings) /\ r[k] \in GroupType
    BY <2>2, <2>3, <2>4 DEF GroupType
  <2> QED BY <2>1, <2>4, <2>5
<1>6. r \in Seq(GroupType) /\ Len(r) = n
  BY <1>1, <1>3, <1>5
<1>7. ASSUME Partitioned(gs)
      PROVE  Partitioned(r)
  <2>1. \A k \in 1..Len(r) : IsInjective(r[k].bindings)
    BY <1>4, <1>5, <1>6, <1>7 DEF Partitioned, n
  <2>2. ASSUME NEW k \in 1..n, NEW l \in 1..n, NEW o \in Observers,
               o \in ToSet(r[k].bindings), o \in ToSet(r[l].bindings)
        PROVE  k = l
    <3>1. n - k + 1 = n - l + 1
      BY <1>4, <1>5, <1>7, <2>2 DEF Partitioned, n
    <3> QED BY <1>1, <3>1
  <2> QED BY <1>6, <2>1, <2>2 DEF Partitioned
<1> QED BY <1>4, <1>5, <1>6, <1>7 DEF n, r

LEMMA BeginKeeps ==
  ASSUME IInv, NEW event \in Events, Begin(event)
  PROVE  IInv'
<1>1. PICK v : v = V!WithBindings(view, registered)
  OBVIOUS
<1>2. v \in ViewType /\ v.bindings \in Seq(Observers) /\ IsInjective(v.bindings) /\ v.values = view.values
  BY <1>1, FoundBindings
<1>3. PICK sorted : sorted = Sorted(v.bindings)
  OBVIOUS
<1>4. sorted \in Seq(Observers) /\ IsInjective(sorted)
  BY <1>2, <1>3, SortedKeeps DEF IInv
<1>5. PICK gs : gs = Groups(sorted)
  OBVIOUS
<1>6. gs \in Seq(GroupType) /\ Partitioned(gs)
  BY <1>4, <1>5, GroupsPartition DEF IInv
<1>7. PICK turned : turned = Reversed(gs)
  OBVIOUS
<1>8. turned \in Seq(GroupType) /\ Partitioned(turned)
  BY <1>6, <1>7, ReversedPartition
<1>9. /\ view' = [v EXCEPT !.bindings = sorted]
      /\ run' = [Idle EXCEPT !.event = event, !.at = "tick", !.order = options.orderedGroups,
                             !.groups = IF event = "stop" THEN turned ELSE gs]
      /\ log' = <<>>
      /\ runs' = runs + 1
      /\ UNCHANGED <<registered, options, pending, busy, rebinds, regroups>>
  BY <1>1, <1>3, <1>5, <1>7 DEF Begin, Reversed
<1>10. /\ run' \in RunType
       /\ run'.groups = IF event = "stop" THEN turned ELSE gs
       /\ run'.observers = <<>> /\ run'.members = <<>>
  <2>1. options.orderedGroups \in Orders
    BY DEF IInv, TypeOK
  <2>2. PICK groups \in Seq(GroupType) : groups = IF event = "stop" THEN turned ELSE gs
    BY <1>6, <1>8
  <2>3. PICK idle \in RunType : idle = Idle
    BY IdleType
  <2>4. run' = [idle EXCEPT !.event = event, !.at = "tick", !.order = options.orderedGroups,
                            !.groups = groups]
    BY <1>9, <2>2, <2>3
  <2>5. run' \in RunType /\ run'.groups = groups
        /\ run'.observers = idle.observers /\ run'.members = idle.members
    BY <2>1, <2>4 DEF RunType, Points
  <2> QED BY <2>2, <2>3, <2>5, IdleType
<1>11. view' \in ViewType /\ view'.bindings = sorted /\ view'.values = view.values
  BY <1>2, <1>4, <1>9 DEF ViewType
<1>12. TypeOK'
  BY <1>9, <1>10, <1>11 DEF IInv, TypeOK
<1>13. Unique'
  <2>1. NoTwice(run'.observers) /\ NoTwice(run'.members)
    BY <1>10 DEF NoTwice
  <2>2. view'.values # NULL => NoTwice(V!CachedValues(view'))
    BY <1>11 DEF IInv, Unique, V!CachedValues
  <2>3. IsInjective(registered')
    BY <1>9 DEF IInv, Unique
  <2> QED BY <1>4, <1>11, <2>1, <2>2, <2>3 DEF Unique
<1>14. Partitioned(run'.groups)
  BY <1>6, <1>8, <1>10
<1> QED BY <1>9, <1>10, <1>12, <1>13, <1>14, EarlyKeeps

LEMMA ValuesOfBindings ==
  ASSUME NEW s \in Seq(Observers), IsInjective(s)
  PROVE  ValuesOf(s) \in Seq(Observers \cup {NULL}) /\ NoTwice(ValuesOf(s))
<1> DEFINE t == [i \in DOMAIN s |-> Value(s[i])]
           I == {i \in DOMAIN s : Value(s[i]) # NULL}
<1>1. Len(s) \in Nat /\ DOMAIN s = 1..Len(s) /\ \A i \in 1..Len(s) : s[i] \in Observers
  OBVIOUS
<1>2. \A o : Value(o) = NULL \/ Value(o) = o
  BY DEF Value
<1>3. t \in Seq(Observers \cup {NULL}) /\ Len(t) = Len(s) /\ \A i \in 1..Len(s) : t[i] = Value(s[i])
  BY <1>1, <1>2
<1>4. I \in SUBSET (1..Len(t))
  BY <1>1, <1>3
<1>5. \A i, j \in I : t[i] = t[j] => i = j
  BY <1>1, <1>2 DEF IsInjective
<1>6. ValuesOf(s) = Filtered(t, I)
  BY DEF ValuesOf
<1> HIDE DEF t, I
<1>7. Filtered(t, I) \in Seq(Observers \cup {NULL})
  BY <1>3, <1>4, FilteredKeeps
<1>8. IsInjective(Filtered(t, I))
  BY <1>3, <1>4, <1>5, FilteredInjective
<1>9. PICK list \in Seq(Observers \cup {NULL}) : list = ValuesOf(s)
  BY <1>6, <1>7
<1>10. NoTwice(list)
  BY <1>6, <1>8, <1>9 DEF NoTwice, IsInjective
<1> QED BY <1>9, <1>10

LEMMA TickKeeps ==
  ASSUME IInv, Tick
  PROVE  IInv'
<1>1. run \in RunType /\ view \in ViewType /\ log = <<>> /\ run.members = <<>>
  BY DEF IInv, TypeOK, NotYet, Tick
<1>2. PICK observers \in Seq(Observers \cup {NULL}), at \in Points :
        /\ run' = [run EXCEPT !.at = at, !.observers = observers]
        /\ NoTwice(observers)
        /\ view' = view \/ view' = V!WithBindings(view, registered)
  <2>1. CASE view.values # NULL /\ run' = [run EXCEPT !.at = "collect", !.observers = V!CachedValues(view)]
                                /\ UNCHANGED view
    <3>1. V!CachedValues(view) \in Seq(Observers \cup {NULL})
      <4>1. PICK s \in Seq([binding : Observers, value : Observers \cup {NULL}]) : s = view.values
        BY <1>1, <2>1 DEF ViewType
      <4>2. Len(s) \in Nat /\ DOMAIN s = 1..Len(s)
            /\ \A i \in 1..Len(s) : s[i].value \in Observers \cup {NULL}
        <5>1. PICK P : P = [binding : Observers, value : Observers \cup {NULL}]
          OBVIOUS
        <5>2. \A e \in P : e.value \in Observers \cup {NULL}
          BY <5>1
        <5>3. s \in Seq(P)
          BY <5>1
        <5>4. Len(s) \in Nat /\ DOMAIN s = 1..Len(s) /\ \A i \in 1..Len(s) : s[i] \in P
          BY <5>3
        <5> QED BY <5>2, <5>4
      <4>3. [i \in 1..Len(s) |-> s[i].value] \in Seq(Observers \cup {NULL})
        BY <4>2
      <4> QED BY <4>1, <4>2, <4>3 DEF V!CachedValues
    <3>2. NoTwice(V!CachedValues(view))
      BY <2>1 DEF IInv, Unique
    <3> QED BY <2>1, <3>1, <3>2 DEF Points
  <2>2. CASE /\ view' = V!WithBindings(view, registered)
             /\ run' = [run EXCEPT !.at = "resolving", !.observers = ValuesOf(view'.bindings)]
    <3>1. view'.bindings \in Seq(Observers) /\ IsInjective(view'.bindings)
      BY <2>2, FoundBindings
    <3>2. ValuesOf(view'.bindings) \in Seq(Observers \cup {NULL}) /\ NoTwice(ValuesOf(view'.bindings))
      BY <3>1, ValuesOfBindings
    <3> QED BY <2>2, <3>2 DEF Points
  <2> QED BY <2>1, <2>2 DEF Tick
<1>3. /\ run' \in RunType /\ run'.observers = observers
      /\ run'.members = run.members /\ run'.groups = run.groups
  BY <1>1, <1>2 DEF RunType
<1>4. /\ view' \in ViewType /\ view'.values = view.values
      /\ view'.bindings # NULL => IsInjective(view'.bindings)
  BY <1>1, <1>2, FoundBindings DEF IInv, Unique
<1>5. TypeOK'
  BY <1>3, <1>4 DEF IInv, TypeOK, Tick, bounds
<1>6. Unique'
  <2>1. NoTwice(run'.observers) /\ NoTwice(run'.members)
    BY <1>2, <1>3 DEF IInv, Unique
  <2>2. view'.values # NULL => NoTwice(V!CachedValues(view'))
    BY <1>4 DEF IInv, Unique, V!CachedValues
  <2> QED BY <1>4, <2>1, <2>2 DEF IInv, Unique, Tick
<1>7. Partitioned(run'.groups) /\ log' = <<>> /\ run'.members = <<>>
  BY <1>1, <1>3 DEF IInv, Tick
<1> QED BY <1>5, <1>6, <1>7, EarlyKeeps

LEMMA ResolvedKeeps ==
  ASSUME IInv, Resolved
  PROVE  IInv'
<1>1. run \in RunType /\ view \in ViewType /\ log = <<>> /\ run.members = <<>>
  BY DEF IInv, TypeOK, NotYet, Resolved
<1>2. PICK at \in Points : run' = [run EXCEPT !.at = at]
  BY DEF Resolved, Points
<1>3. /\ run' \in RunType /\ run'.observers = run.observers
      /\ run'.members = run.members /\ run'.groups = run.groups
  BY <1>1, <1>2 DEF RunType
<1>4. view' = view \/ view' = V!WithValues(view, run.observers)
  BY DEF Resolved
<1>5. /\ view' \in ViewType /\ view'.bindings = view.bindings
      /\ view'.values # NULL => NoTwice(V!CachedValues(view'))
  <2>1. CASE view' = view
    BY <1>1, <2>1 DEF IInv, Unique, V!CachedValues
  <2>2. CASE view' = V!WithValues(view, run.observers) /\ view' # view
    <3>1. PICK s \in Seq(Observers) : s = view.bindings
      BY <1>1, <2>2 DEF V!WithValues, ViewType
    <3>2. PICK list \in Seq(Observers \cup {NULL}) : list = run.observers
      BY <1>1 DEF RunType
    <3> DEFINE pairs == [i \in 1..Len(s) |->
                           [binding |-> s[i], value |-> IF i \in DOMAIN list THEN list[i] ELSE NULL]]
    <3>3. view' = [view EXCEPT !.values = pairs]
      <4>1. view.bindings # NULL
        BY <2>2 DEF V!WithValues
      <4>2. view' = [view EXCEPT !.values =
                       [i \in DOMAIN s |->
                          [binding |-> s[i], value |-> IF i \in DOMAIN list THEN list[i] ELSE NULL]]]
        BY <2>2, <3>1, <3>2, <4>1 DEF V!WithValues
      <4>3. DOMAIN s = 1..Len(s)
        OBVIOUS
      <4> QED BY <4>2, <4>3
    <3>4. pairs \in Seq([binding : Observers, value : Observers \cup {NULL}])
      OBVIOUS
    <3>5. view' \in ViewType /\ view'.bindings = view.bindings /\ view'.values = pairs
      BY <1>1, <3>3, <3>4 DEF ViewType
    <3>6. V!CachedValues(view') = [i \in 1..Len(s) |-> IF i \in DOMAIN list THEN list[i] ELSE NULL]
      BY <3>4, <3>5 DEF V!CachedValues
    <3>7. NoTwice(list)
      BY <3>2 DEF IInv, Unique
    <3>8. NoTwice(V!CachedValues(view'))
      BY <3>6, <3>7 DEF NoTwice
    <3> QED BY <3>5, <3>8
  <2> QED BY <1>4, <2>1, <2>2
<1>6. TypeOK'
  BY <1>3, <1>5 DEF IInv, TypeOK, Resolved, bounds
<1>7. Unique'
  BY <1>3, <1>5 DEF IInv, Unique, Resolved
<1>8. Partitioned(run'.groups) /\ log' = <<>> /\ run'.members = <<>>
  BY <1>1, <1>3 DEF IInv, Resolved
<1> QED BY <1>6, <1>7, <1>8, EarlyKeeps

LEMMA CollectKeeps ==
  ASSUME IInv, Collect
  PROVE  IInv'
<1>1. run \in RunType /\ view \in ViewType /\ log = <<>> /\ run.members = <<>>
  BY DEF IInv, TypeOK, NotYet, Collect
<1>2. /\ view' \in ViewType /\ view'.values = view.values
      /\ view'.bindings \in Seq(Observers) /\ IsInjective(view'.bindings)
  BY FoundBindings DEF Collect
<1>3. PICK at \in Points : run' = [run EXCEPT !.bindings = view'.bindings, !.at = at]
  BY DEF Collect, Points
<1>4. /\ run' \in RunType /\ run'.observers = run.observers
      /\ run'.members = run.members /\ run'.groups = run.groups
  BY <1>1, <1>2, <1>3 DEF RunType
<1>5. TypeOK'
  BY <1>2, <1>4 DEF IInv, TypeOK, Collect, bounds
<1>6. Unique'
  <2>1. view'.values # NULL => NoTwice(V!CachedValues(view'))
    BY <1>2 DEF IInv, Unique, V!CachedValues
  <2> QED BY <1>2, <1>4, <2>1 DEF IInv, Unique, Collect
<1>7. Partitioned(run'.groups) /\ log' = <<>> /\ run'.members = <<>>
  BY <1>1, <1>4 DEF IInv, Collect
<1> QED BY <1>5, <1>6, <1>7, EarlyKeeps

(* Different bindings have different observers.                            *)
LEMMA ObserversDiffer ==
  ASSUME TypeOK, NoTwice(run.observers), NEW a, NEW b
  PROVE  /\ ObserverOf(a) \in Observers \cup {NULL}
         /\ ObserverOf(a) = ObserverOf(b) /\ ObserverOf(a) # NULL => a = b
<1>1. PICK s \in Seq(Observers) : s = run.bindings
  BY DEF TypeOK, RunType
<1>2. PICK list \in Seq(Observers \cup {NULL}) : list = run.observers
  BY DEF TypeOK, RunType
<1>3. \A e : ObserverOf(e) = IF IndexOf(s, e) \in DOMAIN list THEN list[IndexOf(s, e)] ELSE NULL
  BY <1>1, <1>2 DEF ObserverOf
<1>4. \A e : IndexOf(s, e) # 0 => s[IndexOf(s, e)] = e
  BY IndexOfFinds
<1>5. DOMAIN list = 1..Len(list) /\ \A i \in 1..Len(list) : list[i] \in Observers \cup {NULL}
  OBVIOUS
<1>6. ASSUME ObserverOf(a) = ObserverOf(b), ObserverOf(a) # NULL
      PROVE  a = b
  <2>1. /\ IndexOf(s, a) \in 1..Len(list) /\ ObserverOf(a) = list[IndexOf(s, a)]
        /\ IndexOf(s, b) \in 1..Len(list) /\ ObserverOf(b) = list[IndexOf(s, b)]
    BY <1>3, <1>5, <1>6
  <2> DEFINE i == IndexOf(s, a)
             j == IndexOf(s, b)
  <2>2. i = j /\ i # 0
    <3>1. NoTwice(list)
      BY <1>2
    <3>2. list[i] = list[j] /\ list[i] # NULL
      BY <1>6, <2>1
    <3> HIDE DEF i, j
    <3>3. i \in 1..Len(list) /\ j \in 1..Len(list)
      BY <2>1 DEF i, j
    <3> QED BY <3>1, <3>2, <3>3 DEF NoTwice
  <2> QED BY <1>4, <2>2
<1> QED BY <1>3, <1>5, <1>6

LEMMA MembersObserve ==
  ASSUME TypeOK, NoTwice(run.observers), NEW g \in GroupType
  PROVE  /\ Members(g) \in Seq(Observers \cup {NULL})
         /\ IsInjective(g.bindings) => NoTwice(Members(g))
         /\ \A i \in 1..Len(Members(g)) :
              \E b \in ToSet(g.bindings) : Members(g)[i] = ObserverOf(b)
<1>1. PICK s \in Seq(Observers) : s = g.bindings
  BY DEF GroupType
<1>2. Len(s) \in Nat /\ DOMAIN s = 1..Len(s) /\ \A i \in 1..Len(s) : s[i] \in ToSet(s)
  BY DEF ToSet
<1>3. Members(g) = [k \in 1..Len(s) |-> ObserverOf(s[k])]
  BY <1>1, <1>2 DEF Members
<1>4. \A k \in 1..Len(s) : ObserverOf(s[k]) \in Observers \cup {NULL}
  BY ObserversDiffer
<1>5. /\ Members(g) \in Seq(Observers \cup {NULL}) /\ Len(Members(g)) = Len(s)
      /\ \A k \in 1..Len(s) : Members(g)[k] = ObserverOf(s[k])
  BY <1>2, <1>3, <1>4
<1>6. ASSUME IsInjective(s)
      PROVE  NoTwice(Members(g))
  <2>1. SUFFICES ASSUME NEW i \in 1..Len(s), NEW j \in 1..Len(s),
                        ObserverOf(s[i]) = ObserverOf(s[j]), ObserverOf(s[i]) # NULL
                 PROVE  i = j
    BY <1>5 DEF NoTwice
  <2>2. s[i] = s[j]
    BY <2>1, ObserversDiffer
  <2> QED BY <1>2, <1>6, <2>2 DEF IsInjective
<1> QED BY <1>1, <1>2, <1>5, <1>6

LEMMA TailDrops ==
  ASSUME NEW T, NEW s \in Seq(T), s # <<>>
  PROVE  /\ Tail(s) \in Seq(T)
         /\ Len(s) \in Nat /\ Len(Tail(s)) + 1 = Len(s)
         /\ Head(s) \in T /\ Head(s) = s[1] /\ 1 \in 1..Len(s)
         /\ \A k \in 1..Len(Tail(s)) : k + 1 \in 2..Len(s) /\ Tail(s)[k] = s[k + 1]
<1>1. Len(s) \in Nat /\ Len(s) # 0 /\ s[1] \in T
  OBVIOUS
<1>2. /\ Tail(s) \in Seq(T) /\ Len(Tail(s)) = Len(s) - 1
      /\ Head(s) = s[1]
      /\ \A k \in 1..(Len(s) - 1) : Tail(s)[k] = s[k + 1]
  BY HeadTailProperties
<1> QED BY <1>1, <1>2

LEMMA TailPartition ==
  ASSUME NEW gs \in Seq(GroupType), gs # <<>>, Partitioned(gs)
  PROVE  /\ Partitioned(Tail(gs))
         /\ IsInjective(Head(gs).bindings)
         /\ \A o \in Observers, k \in 1..Len(Tail(gs)) :
              o \in ToSet(Tail(gs)[k].bindings) => o \notin ToSet(Head(gs).bindings)
<1>1. PICK r : r = Tail(gs)
  OBVIOUS
<1>2. /\ r \in Seq(GroupType) /\ Len(gs) \in Nat /\ Len(r) + 1 = Len(gs)
      /\ Head(gs) = gs[1] /\ 1 \in 1..Len(gs)
      /\ \A k \in 1..Len(r) : k + 1 \in 2..Len(gs) /\ r[k] = gs[k + 1]
  BY <1>1, TailDrops
<1>3. \A k \in 1..Len(r) : k \in Nat /\ k + 1 \in 1..Len(gs) /\ k + 1 # 1
  BY <1>2
<1>4. \A k \in 1..Len(r) : IsInjective(r[k].bindings)
  BY <1>2, <1>3 DEF Partitioned
<1>5. ASSUME NEW k \in 1..Len(r), NEW l \in 1..Len(r), NEW o \in Observers,
             o \in ToSet(r[k].bindings), o \in ToSet(r[l].bindings)
      PROVE  k = l
  <2>1. k + 1 = l + 1
    BY <1>2, <1>3, <1>5 DEF Partitioned
  <2> QED BY <1>3, <2>1
<1>6. Partitioned(r)
  BY <1>4, <1>5 DEF Partitioned
<1>7. ASSUME NEW k \in 1..Len(r), NEW o \in Observers, o \in ToSet(r[k].bindings)
      PROVE  o \notin ToSet(gs[1].bindings)
  BY <1>2, <1>3, <1>7 DEF Partitioned
<1> QED BY <1>1, <1>2, <1>6, <1>7 DEF Partitioned

(* What is to come after the next group is to come now, and not in it.     *)
LEMMA FewerToCome ==
  ASSUME run \in RunType, Partitioned(run.groups), run.groups # <<>>,
         run'.groups = Tail(run.groups), NEW b \in Observers, ToCome(b)'
  PROVE  ToCome(b) /\ b \notin ToSet(Head(run.groups).bindings)
<1>1. PICK gs \in Seq(GroupType) : gs = run.groups
  BY DEF RunType
<1>2. PICK k \in 1..Len(Tail(gs)) : b \in ToSet(Tail(gs)[k].bindings)
  BY <1>1 DEF ToCome
<1>3. k + 1 \in 1..Len(gs) /\ Tail(gs)[k] = gs[k + 1]
  BY <1>1, TailDrops
<1>4. b \notin ToSet(Head(gs).bindings)
  BY <1>1, <1>2, TailPartition
<1> QED BY <1>1, <1>2, <1>3, <1>4 DEF ToCome

LEMMA HeadToCome ==
  ASSUME run \in RunType, run.groups # <<>>
  PROVE  /\ Head(run.groups) \in GroupType
         /\ \A b \in ToSet(Head(run.groups).bindings) : b \in Observers /\ ToCome(b)
<1>1. PICK gs \in Seq(GroupType) : gs = run.groups
  BY DEF RunType
<1>2. Head(gs) \in GroupType /\ Head(gs) = gs[1] /\ 1 \in 1..Len(gs)
  BY <1>1, TailDrops
<1>3. PICK s \in Seq(Observers) : s = Head(gs).bindings
  BY <1>2 DEF GroupType
<1>4. \A b \in ToSet(s) : b \in Observers
  BY DEF ToSet
<1> QED BY <1>1, <1>2, <1>3, <1>4 DEF ToCome

(* The operation moves on without notifying anybody.                       *)
LEMMA LaterKeeps ==
  ASSUME IInv, busy' \subseteq Observers,
         UNCHANGED <<registered, options, view, pending, log, bounds>>,
         NEW at \in {"group", "parallel", "serial", "done", "failed"},
         \/ run' = [run EXCEPT !.at = at]
         \/ run.groups # <<>> /\ run' = [run EXCEPT !.at = at, !.groups = Tail(@)]
         \/ UNCHANGED run
  PROVE  IInv'
<1>1. CASE UNCHANGED run
  <2>1. TypeOK'
    BY <1>1 DEF IInv, TypeOK, bounds
  <2>2. Unique' /\ Partitioned(run.groups)' /\ NotYet' /\ NotifiedOnce'
    <3>1. NoTwice(run'.observers) /\ NoTwice(run'.members)
      BY <1>1 DEF IInv, Unique
    <3>2. Unique'
      BY <3>1, UniqueKeeps DEF IInv
    <3>3. Partitioned(run.groups)' /\ NotYet' /\ NotifiedOnce'
      BY <1>1 DEF IInv, Partitioned, NotYet, ToCome, ObserverOf, NotifiedOnce
    <3> QED BY <3>2, <3>3
  <2> QED BY <2>1, <2>2 DEF IInv
<1>2. CASE ~UNCHANGED run
  <2>1. PICK r \in RunType : r = run
    BY DEF IInv, TypeOK
  <2>2. r.groups \in Seq(GroupType) /\ (r.groups # <<>> => Tail(r.groups) \in Seq(GroupType))
    <3>1. r.groups \in Seq(GroupType)
      BY DEF RunType
    <3> QED BY <3>1, TailDrops
  <2>3. PICK groups \in Seq(GroupType) :
          /\ run' = [r EXCEPT !.at = at, !.groups = groups]
          /\ groups = r.groups \/ (r.groups # <<>> /\ groups = Tail(r.groups))
    <3>1. CASE run' = [run EXCEPT !.at = at]
      <4>1. run' = [r EXCEPT !.at = at, !.groups = r.groups]
        BY <2>1, <3>1 DEF RunType
      <4> QED BY <2>2, <4>1
    <3>2. CASE run.groups # <<>> /\ run' = [run EXCEPT !.at = at, !.groups = Tail(@)]
      BY <2>1, <2>2, <3>2
    <3> QED BY <1>2, <3>1, <3>2
  <2>4. /\ run' \in RunType /\ run'.at = at /\ run'.groups = groups
        /\ UNCHANGED <<run.bindings, run.observers, run.members>>
    BY <2>1, <2>3 DEF RunType, Points
  <2>5. TypeOK'
    BY <2>4 DEF IInv, TypeOK, bounds
  <2>6. Unique' /\ NotifiedOnce'
    <3>1. NoTwice(run'.observers) /\ NoTwice(run'.members)
      BY <2>4 DEF IInv, Unique
    <3>2. Unique'
      BY <3>1, UniqueKeeps DEF IInv
    <3> QED BY <3>2 DEF IInv, NotifiedOnce
  <2>7. \A b : ObserverOf(b)' = ObserverOf(b)
    BY <2>4 DEF ObserverOf
  <2>8. Partitioned(run'.groups) /\ \A b \in Observers : ToCome(b)' => ToCome(b)
    <3>1. CASE groups = r.groups
      BY <2>1, <2>4, <3>1 DEF IInv, ToCome
    <3>2. CASE r.groups # <<>> /\ groups = Tail(r.groups)
      <4>1. Partitioned(groups)
        BY <2>1, <2>2, <3>2, TailPartition DEF IInv
      <4>2. \A b \in Observers : ToCome(b)' => ToCome(b)
        BY <2>1, <2>4, <3>2, FewerToCome DEF IInv
      <4> QED BY <2>4, <4>1, <4>2
    <3> QED BY <2>3, <3>1, <3>2
  <2>9. NotYet'
    <3>1. run'.at \notin {"tick", "resolving", "collect"}
      BY <2>4
    <3>2. \A i \in 1..Len(run'.members) : run'.members[i] # NULL => run'.members[i] \notin ToSet(log')
      BY <2>4 DEF IInv, NotYet
    <3>3. \A b \in Observers : ToCome(b)' /\ ObserverOf(b)' # NULL =>
            ObserverOf(b)' \notin ToSet(log') /\ ObserverOf(b)' \notin ToSet(run'.members)
      BY <2>4, <2>7, <2>8 DEF IInv, NotYet
    <3> QED BY <3>1, <3>2, <3>3 DEF NotYet
  <2> QED BY <2>5, <2>6, <2>8, <2>9 DEF IInv
<1> QED BY <1>1, <1>2

LEMMA AheadKeeps ==
  ASSUME IInv, Finish \/ SkipGroup \/ GroupNotified \/ (\E o \in Observers : Settle(o))
  PROVE  IInv'
<1>1. busy \subseteq Observers /\ run \in RunType
  BY DEF IInv, TypeOK
<1>2. CASE Finish
  BY <1>1, <1>2, LaterKeeps DEF Finish
<1>3. CASE SkipGroup
  <2>1. run' = [run EXCEPT !.at = "group", !.groups = Tail(@)]
    BY <1>1, <1>3 DEF SkipGroup, RunType
  <2> QED BY <1>1, <1>3, <2>1, LaterKeeps DEF SkipGroup
<1>4. CASE GroupNotified
  BY <1>1, <1>4, LaterKeeps DEF GroupNotified
<1>5. ASSUME NEW o \in Observers, Settle(o)
      PROVE  IInv'
  <2>1. /\ busy' \subseteq Observers
        /\ UNCHANGED <<registered, options, view, pending, log, bounds>>
        /\ UNCHANGED run \/ run' = [run EXCEPT !.at = "failed"]
    BY <1>1, <1>5 DEF Settle
  <2> QED BY <2>1, LaterKeeps
<1> QED BY <1>2, <1>3, <1>4, <1>5

(* The members of the next group are observers that are to come.           *)
LEMMA MembersToCome ==
  ASSUME IInv, run.groups # <<>>
  PROVE  /\ Members(Head(run.groups)) \in Seq(Observers \cup {NULL})
         /\ NoTwice(Members(Head(run.groups)))
         /\ \A i \in 1..Len(Members(Head(run.groups))) :
              \E b \in Observers : /\ ToCome(b) /\ b \in ToSet(Head(run.groups).bindings)
                                   /\ Members(Head(run.groups))[i] = ObserverOf(b)
<1>1. TypeOK /\ NoTwice(run.observers) /\ run \in RunType /\ Partitioned(run.groups)
  BY DEF IInv, Unique, TypeOK
<1>2. PICK g \in GroupType : g = Head(run.groups)
  BY <1>1, HeadToCome
<1>3. IsInjective(g.bindings)
  <2>1. run.groups \in Seq(GroupType)
    BY <1>1 DEF RunType
  <2> QED BY <1>1, <1>2, <2>1, TailPartition
<1>4. /\ Members(g) \in Seq(Observers \cup {NULL}) /\ NoTwice(Members(g))
      /\ \A i \in 1..Len(Members(g)) : \E b \in ToSet(g.bindings) : Members(g)[i] = ObserverOf(b)
  BY <1>1, <1>3, MembersObserve
<1>5. \A b \in ToSet(g.bindings) : b \in Observers /\ ToCome(b)
  BY <1>1, <1>2, HeadToCome
<1> QED BY <1>2, <1>4, <1>5

LEMMA EnterGroupKeeps ==
  ASSUME IInv, EnterGroup
  PROVE  IInv'
<1>1. PICK r \in RunType : r = run
  BY DEF IInv, TypeOK
<1>2. /\ r.groups \in Seq(GroupType) /\ r.groups # <<>>
      /\ Tail(r.groups) \in Seq(GroupType)
  <2>1. r.groups \in Seq(GroupType) /\ r.groups # <<>>
    BY <1>1 DEF RunType, EnterGroup
  <2> QED BY <2>1, TailDrops
<1>3. PICK ms : ms = Members(Head(run.groups))
  OBVIOUS
<1>4. /\ ms \in Seq(Observers \cup {NULL}) /\ NoTwice(ms)
      /\ \A i \in 1..Len(ms) : \E b \in Observers :
           ToCome(b) /\ b \in ToSet(Head(run.groups).bindings) /\ ms[i] = ObserverOf(b)
  BY <1>1, <1>2, <1>3, MembersToCome
<1>5. run' = [r EXCEPT !.at = "serial", !.members = ms, !.groups = Tail(r.groups)]
  BY <1>1, <1>3 DEF EnterGroup
<1>6. /\ run' \in RunType /\ run'.at = "serial" /\ run'.members = ms
      /\ run'.groups = Tail(run.groups)
      /\ UNCHANGED <<run.bindings, run.observers>>
  BY <1>1, <1>2, <1>4, <1>5 DEF RunType, Points
<1>7. TypeOK'
  BY <1>6 DEF IInv, TypeOK, EnterGroup, bounds
<1>8. Unique' /\ NotifiedOnce'
  <2>1. NoTwice(run'.observers) /\ NoTwice(run'.members)
    BY <1>4, <1>6 DEF IInv, Unique
  <2>2. UNCHANGED view /\ UNCHANGED registered /\ UNCHANGED log
    BY DEF EnterGroup
  <2>3. Unique'
    BY <2>1, <2>2, UniqueKeeps DEF IInv
  <2> QED BY <2>2, <2>3 DEF IInv, NotifiedOnce
<1>9. \A b : ObserverOf(b)' = ObserverOf(b)
  BY <1>6 DEF ObserverOf
<1>10. Partitioned(run'.groups)
  BY <1>1, <1>2, <1>6, TailPartition DEF IInv
<1>11. \A b \in Observers : ToCome(b)' => ToCome(b) /\ b \notin ToSet(Head(run.groups).bindings)
  BY <1>1, <1>2, <1>6, FewerToCome DEF IInv
<1>12. NotYet'
  <2>1. \A i \in 1..Len(ms) : ms[i] # NULL => ms[i] \notin ToSet(log')
    BY <1>4 DEF IInv, NotYet, EnterGroup
  <2>2. ASSUME NEW b \in Observers, ToCome(b)', ObserverOf(b)' # NULL
        PROVE  ObserverOf(b)' \notin ToSet(log') /\ ObserverOf(b)' \notin ToSet(ms)
    <3>1. ObserverOf(b) \notin ToSet(log')
      BY <1>9, <1>11, <2>2 DEF IInv, NotYet, EnterGroup
    <3>2. ASSUME NEW i \in 1..Len(ms), ObserverOf(b) = ms[i]
          PROVE  FALSE
      <4>1. PICK a \in Observers : a \in ToSet(Head(run.groups).bindings) /\ ms[i] = ObserverOf(a)
        BY <1>4
      <4>2. a = b
        BY <1>9, <2>2, <3>2, <4>1, ObserversDiffer DEF IInv, Unique
      <4> QED BY <1>11, <2>2, <4>1, <4>2
    <3>3. DOMAIN ms = 1..Len(ms)
      BY <1>4
    <3> QED BY <1>9, <3>1, <3>2, <3>3 DEF ToSet
  <2> QED BY <1>6, <2>1, <2>2 DEF NotYet
<1> QED BY <1>7, <1>8, <1>10, <1>12 DEF IInv

(* The observers that a filter leaves of the members.                      *)
LEMMA PresentOnes ==
  ASSUME NEW ms \in Seq(Observers \cup {NULL}), NoTwice(ms),
         NEW present, present = Filtered(ms, {k \in DOMAIN ms : ms[k] # NULL})
  PROVE  /\ present \in Seq(Observers) /\ IsInjective(present)
         /\ \A o \in ToSet(present) : \E i \in 1..Len(ms) : o = ms[i] /\ ms[i] # NULL
<1> DEFINE I == {k \in DOMAIN ms : ms[k] # NULL}
<1>1. /\ Len(ms) \in Nat /\ DOMAIN ms = 1..Len(ms) /\ I \in SUBSET (1..Len(ms))
      /\ \A k \in 1..Len(ms) : ms[k] \in Observers \cup {NULL}
  OBVIOUS
<1>2. \A i, j \in I : ms[i] = ms[j] => i = j
  BY <1>1 DEF NoTwice
<1>3. present = Filtered(ms, I) /\ \A i \in I : i \in 1..Len(ms) /\ ms[i] # NULL /\ ms[i] \in Observers
  BY <1>1
<1> HIDE DEF I
<1>4. present \in Seq(Observers \cup {NULL})
  BY <1>1, <1>3, FilteredKeeps
<1>5. IsInjective(present)
  BY <1>1, <1>2, <1>3, FilteredInjective
<1>6. ToSet(present) = {ms[i] : i \in I}
  BY <1>1, <1>3, FilteredElements
<1>7. \A o \in ToSet(present) : o \in Observers /\ \E i \in 1..Len(ms) : o = ms[i] /\ ms[i] # NULL
  BY <1>3, <1>6
<1>8. present \in Seq(Observers)
  <2>1. PICK s \in Seq(Observers \cup {NULL}) : s = present
    BY <1>4
  <2>2. DOMAIN s = 1..Len(s) /\ Len(s) \in Nat /\ s = [k \in 1..Len(s) |-> s[k]]
    OBVIOUS
  <2>3. \A k \in 1..Len(s) : s[k] \in ToSet(s)
    BY <2>2 DEF ToSet
  <2>4. \A k \in 1..Len(s) : s[k] \in Observers
    BY <1>7, <2>1, <2>3
  <2> QED BY <2>1, <2>2, <2>4
<1> QED BY <1>5, <1>7, <1>8

LEMMA ConcatAdds ==
  ASSUME NEW T, NEW s \in Seq(T), NEW t \in Seq(T)
  PROVE  /\ s \o t \in Seq(T)
         /\ ToSet(s \o t) = ToSet(s) \cup ToSet(t)
         /\ IsInjective(s) /\ IsInjective(t) /\ (\A e \in ToSet(s) : e \notin ToSet(t))
              => IsInjective(s \o t)
<1> DEFINE n == Len(s)
           m == Len(t)
           r == s \o t
<1>1. /\ n \in Nat /\ m \in Nat /\ DOMAIN s = 1..n /\ DOMAIN t = 1..m
      /\ r \in Seq(T) /\ DOMAIN r = 1..(n + m)
      /\ \A i \in 1..(n + m) : r[i] = IF i <= n THEN s[i] ELSE t[i - n]
  BY ConcatProperties
<1> HIDE DEF n, m, r
<1>2. ToSet(s) = {s[i] : i \in 1..n} /\ ToSet(t) = {t[i] : i \in 1..m}
      /\ ToSet(r) = {r[i] : i \in 1..(n + m)}
  BY <1>1 DEF ToSet
<1>3. ToSet(r) = ToSet(s) \cup ToSet(t)
  <2>1. ASSUME NEW i \in 1..n
        PROVE  i \in 1..(n + m) /\ r[i] = s[i]
    BY <1>1
  <2>2. ASSUME NEW i \in 1..m
        PROVE  i + n \in 1..(n + m) /\ r[i + n] = t[i]
    BY <1>1
  <2>3. ASSUME NEW i \in 1..(n + m)
        PROVE  (i \in 1..n /\ r[i] = s[i]) \/ (i - n \in 1..m /\ r[i] = t[i - n])
    BY <1>1
  <2>4. \A e \in ToSet(r) : e \in ToSet(s) \cup ToSet(t)
    BY <1>2, <2>3
  <2>5. \A e \in ToSet(s) : e \in ToSet(r)
    BY <1>2, <2>1
  <2>6. \A e \in ToSet(t) : e \in ToSet(r)
    BY <1>2, <2>2
  <2> QED BY <2>4, <2>5, <2>6
<1>4. ASSUME IsInjective(s), IsInjective(t), \A e \in ToSet(s) : e \notin ToSet(t)
      PROVE  IsInjective(r)
  <2>1. SUFFICES ASSUME NEW i \in 1..(n + m), NEW j \in 1..(n + m), r[i] = r[j], i < j
                 PROVE  FALSE
    BY <1>1 DEF IsInjective
  <2>2. CASE j <= n
    <3>1. i \in 1..n /\ j \in 1..n /\ s[i] = s[j]
      BY <1>1, <2>1, <2>2
    <3> QED BY <1>1, <1>4, <2>1, <3>1 DEF IsInjective
  <2>3. CASE i <= n /\ ~(j <= n)
    <3>1. i \in 1..n /\ j - n \in 1..m /\ s[i] = t[j - n]
      BY <1>1, <2>1, <2>3
    <3> QED BY <1>2, <1>4, <3>1
  <2>4. CASE ~(i <= n)
    <3>1. i - n \in 1..m /\ j - n \in 1..m /\ t[i - n] = t[j - n]
      BY <1>1, <2>1, <2>4
    <3>2. i - n = j - n
      BY <1>1, <1>4, <3>1 DEF IsInjective
    <3> QED BY <1>1, <2>1, <3>2
  <2> QED BY <1>1, <2>1, <2>2, <2>3, <2>4
<1> QED BY <1>1, <1>3, <1>4 DEF r

LEMMA NotifyParallelKeeps ==
  ASSUME IInv, NotifyParallel
  PROVE  IInv'
<1>1. PICK r \in RunType : r = run
  BY DEF IInv, TypeOK
<1>2. /\ r.groups \in Seq(GroupType) /\ r.groups # <<>>
      /\ Tail(r.groups) \in Seq(GroupType)
  <2>1. r.groups \in Seq(GroupType) /\ r.groups # <<>>
    BY <1>1 DEF RunType, NotifyParallel
  <2> QED BY <2>1, TailDrops
<1>3. PICK ms : ms = Members(Head(run.groups))
  OBVIOUS
<1>4. /\ ms \in Seq(Observers \cup {NULL}) /\ NoTwice(ms)
      /\ \A i \in 1..Len(ms) : \E b \in Observers :
           ToCome(b) /\ b \in ToSet(Head(run.groups).bindings) /\ ms[i] = ObserverOf(b)
  BY <1>1, <1>2, <1>3, MembersToCome
<1>5. PICK present : present = Filtered(ms, {k \in DOMAIN ms : ms[k] # NULL})
  OBVIOUS
<1>6. /\ present \in Seq(Observers) /\ IsInjective(present)
      /\ \A o \in ToSet(present) : \E i \in 1..Len(ms) : o = ms[i] /\ ms[i] # NULL
  BY <1>4, <1>5, PresentOnes
<1>7. \A o \in ToSet(present) : o \in Observers /\ \E b \in Observers :
        ToCome(b) /\ b \in ToSet(Head(run.groups).bindings) /\ o = ObserverOf(b) /\ ObserverOf(b) # NULL
  <2>1. \A o \in ToSet(present) : o \in Observers
    BY <1>6 DEF ToSet
  <2> QED BY <1>4, <1>6, <2>1
<1>8. PICK at \in Points \ {"tick", "resolving", "collect"} :
        /\ run' = [r EXCEPT !.at = at, !.groups = Tail(r.groups)]
        /\ log' = log \o present
        /\ busy' = busy \cup ToSet(present)
        /\ UNCHANGED <<registered, options, view, pending, bounds>>
  BY <1>1, <1>3, <1>5 DEF NotifyParallel, Points
<1>9. /\ run' \in RunType /\ run'.at = at /\ run'.groups = Tail(run.groups)
      /\ UNCHANGED <<run.bindings, run.observers, run.members>>
  BY <1>1, <1>2, <1>8 DEF RunType
<1>10. \A b : ObserverOf(b)' = ObserverOf(b)
  BY <1>9 DEF ObserverOf
<1>11. log \in Seq(Observers) /\ IsInjective(log)
  BY DEF IInv, TypeOK, NotifiedOnce
<1>12. \A o \in ToSet(present) : o \notin ToSet(log) /\ o \notin ToSet(run.members)
  BY <1>7 DEF IInv, NotYet
<1>13. log' \in Seq(Observers) /\ IsInjective(log') /\ ToSet(log') = ToSet(log) \cup ToSet(present)
  BY <1>6, <1>8, <1>11, <1>12, ConcatAdds
<1>14. TypeOK'
  BY <1>7, <1>8, <1>9, <1>13 DEF IInv, TypeOK, bounds
<1>15. Unique' /\ NotifiedOnce'
  <2>1. NotifiedOnce'
    BY <1>13 DEF NotifiedOnce
  <2>2. view' = view /\ registered' = registered
    BY <1>8
  <2>3. NoTwice(run'.observers) /\ NoTwice(run'.members)
    BY <1>9 DEF IInv, Unique
  <2> QED BY <2>1, <2>2, <2>3, UniqueKeeps DEF IInv
<1>16. Partitioned(run'.groups)
  BY <1>1, <1>2, <1>9, TailPartition DEF IInv
<1>17. \A b \in Observers : ToCome(b)' => ToCome(b) /\ b \notin ToSet(Head(run.groups).bindings)
  BY <1>1, <1>2, <1>9, FewerToCome DEF IInv
<1>18. NotYet'
  <2>1. ASSUME NEW i \in 1..Len(run'.members), run'.members[i] # NULL
        PROVE  run'.members[i] \notin ToSet(log')
    <3>1. run.members \in Seq(Observers \cup {NULL})
      BY <1>1 DEF RunType
    <3>2. i \in 1..Len(run.members) /\ run'.members[i] = run.members[i]
      BY <1>9
    <3>3. run.members[i] \in ToSet(run.members)
      BY <3>1, <3>2 DEF ToSet
    <3>4. run.members[i] \notin ToSet(log)
      BY <2>1, <3>2 DEF IInv, NotYet
    <3> QED BY <1>12, <1>13, <3>2, <3>3, <3>4
  <2>2. ASSUME NEW b \in Observers, ToCome(b)', ObserverOf(b)' # NULL
        PROVE  ObserverOf(b)' \notin ToSet(log') /\ ObserverOf(b)' \notin ToSet(run'.members)
    <3>1. ObserverOf(b) \notin ToSet(log) /\ ObserverOf(b) \notin ToSet(run'.members)
      BY <1>9, <1>10, <1>17, <2>2 DEF IInv, NotYet
    <3>2. ASSUME ObserverOf(b) \in ToSet(present)
          PROVE  FALSE
      <4>1. PICK a \in Observers : a \in ToSet(Head(run.groups).bindings) /\ ObserverOf(b) = ObserverOf(a)
        BY <1>7, <3>2
      <4>2. a = b
        BY <1>10, <2>2, <4>1, ObserversDiffer DEF IInv, Unique
      <4> QED BY <1>17, <2>2, <4>1, <4>2
    <3> QED BY <1>10, <1>13, <3>1, <3>2
  <2> QED BY <1>8, <1>9, <2>1, <2>2 DEF NotYet
<1> QED BY <1>14, <1>15, <1>16, <1>18 DEF IInv

LEMMA NotifySerialKeeps ==
  ASSUME IInv, NotifySerial
  PROVE  IInv'
<1>1. CASE run' = [run EXCEPT !.at = "group"] /\ UNCHANGED <<busy, log>>
  <2>1. busy' \subseteq Observers
    BY <1>1 DEF IInv, TypeOK
  <2> QED BY <1>1, <2>1, LaterKeeps DEF NotifySerial
<1>2. CASE run' = [run EXCEPT !.at = "failed"] /\ UNCHANGED <<busy, log>>
  <2>1. busy' \subseteq Observers
    BY <1>2 DEF IInv, TypeOK
  <2> QED BY <1>2, <2>1, LaterKeeps DEF NotifySerial
<1>3. CASE /\ run.members # <<>> /\ Head(run.members) # NULL
           /\ busy' = {Head(run.members)} /\ log' = Append(log, Head(run.members))
           /\ run' = [run EXCEPT !.members = Tail(@)]
  <2>1. PICK r \in RunType : r = run
    BY DEF IInv, TypeOK
  <2>2. PICK ms \in Seq(Observers \cup {NULL}) : ms = run.members
    BY <2>1 DEF RunType
  <2>3. PICK tail : tail = Tail(ms)
    OBVIOUS
  <2>4. /\ tail \in Seq(Observers \cup {NULL}) /\ Head(ms) = ms[1] /\ 1 \in 1..Len(ms)
        /\ Len(ms) \in Nat /\ Len(tail) + 1 = Len(ms)
        /\ \A k \in 1..Len(tail) : k + 1 \in 2..Len(ms) /\ tail[k] = ms[k + 1]
    BY <1>3, <2>2, <2>3, TailDrops
  <2>5. PICK o \in Observers : o = ms[1]
    <3>1. ms[1] \in Observers \cup {NULL} /\ ms[1] # NULL
      BY <1>3, <2>2, <2>4
    <3> QED BY <3>1
  <2>6. \A k \in 1..Len(tail) : k \in Nat /\ k + 1 \in 1..Len(ms) /\ k + 1 # 1
    BY <2>4
  <2>7. NoTwice(ms) /\ o # NULL
    BY <1>3, <2>2, <2>4, <2>5 DEF IInv, Unique
  <2>8. NoTwice(tail)
    <3>1. SUFFICES ASSUME NEW i \in 1..Len(tail), NEW j \in 1..Len(tail), tail[i] = tail[j], tail[i] # NULL
                   PROVE  i = j
      BY DEF NoTwice
    <3>2. i + 1 = j + 1
      BY <2>4, <2>6, <2>7, <3>1 DEF NoTwice
    <3> QED BY <2>6, <3>2
  <2>9. \A k \in 1..Len(tail) : tail[k] # NULL => tail[k] # o
    BY <2>4, <2>5, <2>6, <2>7 DEF NoTwice
  <2>10. /\ run' \in RunType /\ run'.members = tail
         /\ UNCHANGED <<run.at, run.groups, run.bindings, run.observers>>
    BY <1>3, <2>1, <2>2, <2>3, <2>4 DEF RunType
  <2>11. log \in Seq(Observers) /\ IsInjective(log) /\ o \notin ToSet(log)
    <3>1. o \notin ToSet(log)
      BY <2>2, <2>4, <2>5, <2>7 DEF IInv, NotYet
    <3> QED BY <3>1 DEF IInv, TypeOK, NotifiedOnce
  <2>12. log' = Append(log, o) /\ busy' = {o}
    BY <1>3, <2>2, <2>4, <2>5
  <2>13. log' \in Seq(Observers) /\ IsInjective(log') /\ ToSet(log') = ToSet(log) \cup {o}
    BY <2>11, <2>12, AppendAdds
  <2>14. TypeOK'
    BY <2>10, <2>12, <2>13 DEF IInv, TypeOK, NotifySerial, bounds
  <2>15. Unique' /\ NotifiedOnce' /\ Partitioned(run'.groups)
    <3>1. NotifiedOnce'
      BY <2>13 DEF NotifiedOnce
    <3>2. view' = view /\ registered' = registered
      BY DEF NotifySerial
    <3>3. Unique'
      <4>1. NoTwice(run'.observers) /\ NoTwice(run'.members)
        BY <2>8, <2>10 DEF IInv, Unique
      <4> QED BY <3>2, <4>1, UniqueKeeps DEF IInv
    <3> QED BY <2>10, <3>1, <3>3 DEF IInv
  <2>16. NotYet'
    <3>1. run'.at = "serial"
      BY <2>10 DEF NotifySerial
    <3>2. ASSUME NEW k \in 1..Len(tail), tail[k] # NULL
          PROVE  tail[k] \notin ToSet(log')
      <4>1. tail[k] \notin ToSet(log)
        BY <2>2, <2>4, <2>6, <3>2 DEF IInv, NotYet
      <4> QED BY <2>9, <2>13, <3>2, <4>1
    <3>3. o \in ToSet(ms) /\ \A k \in 1..Len(tail) : tail[k] \in ToSet(ms)
      BY <2>4, <2>5, <2>6 DEF ToSet
    <3>4. \A e \in ToSet(tail) : e \in ToSet(ms)
      <4>1. DOMAIN tail = 1..Len(tail)
        BY <2>4
      <4> QED BY <3>3, <4>1 DEF ToSet
    <3>5. \A b \in Observers : ToCome(b)' = ToCome(b) /\ ObserverOf(b)' = ObserverOf(b)
      BY <2>10 DEF ToCome, ObserverOf
    <3>6. ASSUME NEW b \in Observers, ToCome(b), ObserverOf(b) # NULL
          PROVE  ObserverOf(b) \notin ToSet(log') /\ ObserverOf(b) \notin ToSet(tail)
      <4>1. ObserverOf(b) \notin ToSet(log) /\ ObserverOf(b) \notin ToSet(ms)
        BY <2>2, <3>6 DEF IInv, NotYet
      <4> QED BY <2>13, <3>3, <3>4, <4>1
    <3> QED BY <2>10, <3>1, <3>2, <3>5, <3>6 DEF NotYet
  <2> QED BY <2>14, <2>15, <2>16 DEF IInv
<1> QED BY <1>1, <1>2, <1>3 DEF NotifySerial

LEMMA NextIInv == IInv /\ [Next]_vars => IInv'
<1> SUFFICES ASSUME IInv, [Next]_vars PROVE IInv'
  OBVIOUS
<1>1. CASE \E o \in Observers : Bind(o) \/ Unbind(o) \/ Settle(o)
  BY <1>1, BindKeeps, UnbindKeeps, AheadKeeps
<1>2. CASE Notify
  BY <1>2, NotifyKeeps
<1>3. CASE \E order \in Orders : SetOrderedGroups(order)
  BY <1>3, SetOrderedGroupsKeeps
<1>4. CASE \E event \in Events : Begin(event)
  BY <1>4, BeginKeeps
<1>5. CASE Step
  <2>1. CASE Tick BY <2>1, TickKeeps
  <2>2. CASE Resolved BY <2>2, ResolvedKeeps
  <2>3. CASE Collect BY <2>3, CollectKeeps
  <2>4. CASE Finish \/ SkipGroup \/ GroupNotified BY <2>4, AheadKeeps
  <2>5. CASE NotifyParallel BY <2>5, NotifyParallelKeeps
  <2>6. CASE EnterGroup BY <2>6, EnterGroupKeeps
  <2>7. CASE NotifySerial BY <2>7, NotifySerialKeeps
  <2> QED BY <1>5, <2>1, <2>2, <2>3, <2>4, <2>5, <2>6, <2>7 DEF Step
<1>6. CASE UNCHANGED vars
  <2>1. TypeOK'
    BY <1>6 DEF IInv, TypeOK, vars
  <2> QED BY <1>6, <2>1, AroundKeeps DEF IInv, Unique, vars
<1> QED BY <1>1, <1>2, <1>3, <1>4, <1>5, <1>6 DEF Next

(* Every variable always has its type, whatever is bound and unbound while *)
(* operations run.                                                         *)
THEOREM RegistryTypeOK == Spec => []TypeOK
<1>1. IInv => TypeOK
  BY DEF IInv
<1> QED BY InitIInv, NextIInv, <1>1, PTL DEF Spec

(* notifyObservers never tells an observer of the same event twice, even   *)
(* when the bindings that it looks the observers up in are newer than the  *)
(* groups.                                                                 *)
THEOREM NobodyNotifiedTwice == Spec => []NotifiedOnce
<1>1. IInv => NotifiedOnce
  BY DEF IInv
<1> QED BY InitIInv, NextIInv, <1>1, PTL DEF Spec

-----------------------------------------------------------------------------
(***************************************************************************)
(* What the view has cached, once it has been told of all changes.         *)
(***************************************************************************)

(* The cached bindings are those of the context, and the values that are   *)
(* being resolved will be those of the cached bindings: a view that was    *)
(* told of a change in the meantime has no bindings cached.                *)
Fresh ==
  pending = 0 /\ view.bindings # NULL =>
    /\ ToSet(view.bindings) = ToSet(registered)
    /\ run.at = "resolving" => run.observers = view.bindings

CInv == Fresh /\ CacheTrue

LEMMA CachePaired ==
  CacheTrue <=> (pending = 0 /\ view.values # NULL =>
                   \A i \in DOMAIN view.values :
                     view.values[i].value = Value(view.values[i].binding))
BY DEF CacheTrue, V!Paired

(* Every registered observer has a value: no value is dropped.             *)
LEMMA AllResolved ==
  ASSUME Absent = {}, NEW s \in Seq(Observers), ToSet(s) = ToSet(registered)
  PROVE  ValuesOf(s) = s /\ \A i \in DOMAIN s : Value(s[i]) = s[i]
<1>1. /\ Len(s) \in Nat /\ DOMAIN s = 1..Len(s) /\ s = [i \in 1..Len(s) |-> s[i]]
      /\ \A i \in 1..Len(s) : s[i] \in Observers /\ s[i] \in ToSet(s)
  BY DEF ToSet
<1>2. \A i \in 1..Len(s) : Value(s[i]) = s[i] /\ s[i] # NULL
  BY <1>1, ObserversAssumption DEF Value
<1>3. ValuesOf(s) = Filtered([i \in DOMAIN s |-> Value(s[i])], {i \in DOMAIN s : Value(s[i]) # NULL})
  BY DEF ValuesOf
<1>4. [i \in DOMAIN s |-> Value(s[i])] = s /\ {i \in DOMAIN s : Value(s[i]) # NULL} = 1..Len(s)
  BY <1>1, <1>2
<1> QED BY <1>1, <1>2, <1>3, <1>4, FilteredAll

(* Nothing happens to the view, the context or the values on their way.    *)
LEMMA ElsewhereKeepsCache ==
  ASSUME CInv, UNCHANGED <<registered, view, pending>>,
         run'.at = "resolving" => UNCHANGED <<run.at, run.observers>>
  PROVE  CInv'
<1>1. \A o : Value(o)' = Value(o)
  BY DEF Value
<1>2. CacheTrue'
  BY <1>1, CachePaired DEF CInv, CacheTrue, V!Paired
<1>3. Fresh'
  BY DEF CInv, Fresh
<1> QED BY <1>2, <1>3 DEF CInv

LEMMA AroundKeepsCache ==
  ASSUME IInv, CInv,
         \/ \E o \in Observers : Bind(o) \/ Unbind(o) \/ Settle(o)
         \/ Notify
         \/ \E order \in Orders : SetOrderedGroups(order)
  PROVE  CInv'
<1>1. pending \in Nat /\ run \in RunType
  BY DEF IInv, TypeOK
<1>2. ASSUME NEW o \in Observers, Bind(o) \/ Unbind(o)
      PROVE  CInv'
  <2>1. pending' # 0
    BY <1>1, <1>2 DEF Bind, Unbind
  <2> QED BY <2>1 DEF CInv, Fresh, CacheTrue
<1>3. ASSUME NEW o \in Observers, Settle(o)
      PROVE  CInv'
  <2>1. UNCHANGED <<registered, view, pending>> /\ (UNCHANGED run \/ run' = [run EXCEPT !.at = "failed"])
    BY <1>3 DEF Settle
  <2>2. run'.at = "resolving" => UNCHANGED run
    BY <1>1, <2>1 DEF RunType
  <2> QED BY <2>1, <2>2, ElsewhereKeepsCache
<1>4. CASE Notify
  <2>1. view'.bindings = NULL /\ view'.values = NULL
    BY <1>4 DEF Notify, V!Refreshed
  <2> QED BY <2>1 DEF CInv, Fresh, CacheTrue, V!Paired
<1>5. ASSUME NEW order \in Orders, SetOrderedGroups(order)
      PROVE  CInv'
  BY <1>5, ElsewhereKeepsCache DEF SetOrderedGroups
<1> QED BY <1>2, <1>3, <1>4, <1>5

(* The bindings are found again if necessary, and stay or are sorted.      *)
LEMMA FindingKeepsCache ==
  ASSUME IInv, CInv, UNCHANGED <<registered, pending>>,
         view'.values = view.values,
         ToSet(view'.bindings) = ToSet(V!WithBindings(view, registered).bindings),
         run'.at = "resolving" => run'.observers = view'.bindings \/ pending' # 0
                                  \/ ToSet(view'.bindings) # ToSet(registered')
  PROVE  CInv'
<1>1. pending = 0 => ToSet(view'.bindings) = ToSet(registered)
  <2>1. CASE view.bindings = NULL
    <3>1. V!WithBindings(view, registered) = [view EXCEPT !.bindings = registered] /\ view \in ViewType
      BY <2>1 DEF V!WithBindings, IInv, TypeOK
    <3> QED BY <3>1 DEF ViewType
  <2>2. CASE view.bindings # NULL
    BY <2>2 DEF CInv, Fresh, V!WithBindings
  <2> QED BY <2>1, <2>2
<1>2. Fresh'
  BY <1>1 DEF Fresh
<1>3. \A o : Value(o)' = Value(o)
  BY DEF Value
<1>4. CacheTrue'
  BY <1>3 DEF CInv, CacheTrue, V!Paired
<1> QED BY <1>2, <1>4 DEF CInv

LEMMA BeginKeepsCache ==
  ASSUME IInv, CInv, NEW event \in Events, Begin(event)
  PROVE  CInv'
<1>1. PICK v : v = V!WithBindings(view, registered)
  OBVIOUS
<1>2. v \in ViewType /\ v.bindings \in Seq(Observers) /\ v.values = view.values
  BY <1>1, FoundBindings
<1>3. PICK sorted : sorted = Sorted(v.bindings)
  OBVIOUS
<1>4. sorted \in Seq(Observers) /\ ToSet(sorted) = ToSet(v.bindings)
  BY <1>2, <1>3, SortedKeeps DEF IInv
<1>5. view' = [v EXCEPT !.bindings = sorted] /\ UNCHANGED <<registered, pending>>
  BY <1>1, <1>3 DEF Begin
<1>6. view'.bindings = sorted /\ view'.values = view.values
  BY <1>2, <1>5 DEF ViewType
<1>7. run'.at = "tick"
  BY DEF Begin, Idle
<1> QED BY <1>1, <1>4, <1>5, <1>6, <1>7, FindingKeepsCache

LEMMA TickKeepsCache ==
  ASSUME IInv, CInv, Absent = {}, Tick
  PROVE  CInv'
<1>1. run \in RunType
  BY DEF IInv, TypeOK
<1>2. UNCHANGED <<registered, pending>>
  BY DEF Tick
<1>3. CASE run' = [run EXCEPT !.at = "collect", !.observers = V!CachedValues(view)] /\ UNCHANGED view
  <2>1. run'.at = "collect"
    BY <1>1, <1>3 DEF RunType
  <2> QED BY <1>2, <1>3, <2>1, ElsewhereKeepsCache
<1>4. CASE /\ view' = V!WithBindings(view, registered)
           /\ run' = [run EXCEPT !.at = "resolving", !.observers = ValuesOf(view'.bindings)]
  <2>1. view'.bindings \in Seq(Observers) /\ view'.values = view.values
    BY <1>4, FoundBindings
  <2>2. PICK s \in Seq(Observers) : s = view'.bindings
    BY <2>1
  <2>3. run'.observers = ValuesOf(s)
    BY <1>1, <1>4, <2>2 DEF RunType
  <2>4. ToSet(s) = ToSet(registered) => ValuesOf(s) = s
    BY AllResolved
  <2> QED BY <1>2, <1>4, <2>1, <2>2, <2>3, <2>4, FindingKeepsCache
<1> QED BY <1>3, <1>4 DEF Tick

LEMMA ResolvedKeepsCache ==
  ASSUME IInv, CInv, Absent = {}, Resolved
  PROVE  CInv'
<1>1. run \in RunType /\ view \in ViewType /\ run.at = "resolving" /\ UNCHANGED <<registered, pending>>
  BY DEF IInv, TypeOK, Resolved
<1>2. run'.at # "resolving"
  BY <1>1 DEF Resolved, RunType
<1>3. CASE UNCHANGED view
  BY <1>1, <1>2, <1>3, ElsewhereKeepsCache
<1>4. CASE view' = V!WithValues(view, run.observers) /\ view.bindings # NULL
  <2>1. PICK s \in Seq(Observers) : s = view.bindings
    BY <1>1, <1>4 DEF ViewType
  <2>2. PICK list \in Seq(Observers \cup {NULL}) : list = run.observers
    BY <1>1 DEF RunType
  <2>3. PICK pairs : pairs = [i \in DOMAIN s |->
           [binding |-> s[i], value |-> IF i \in DOMAIN list THEN list[i] ELSE NULL]]
    OBVIOUS
  <2>4. view' = [view EXCEPT !.values = pairs]
    BY <1>4, <2>1, <2>2, <2>3 DEF V!WithValues
  <2>5. view'.values = pairs /\ view'.bindings = view.bindings
    BY <1>1, <2>4 DEF ViewType
  <2>6. Fresh'
    BY <1>1, <1>2, <2>5 DEF CInv, Fresh
  <2>7. ASSUME pending = 0
        PROVE  \A i \in DOMAIN pairs : pairs[i].value = Value(pairs[i].binding)
    <3>1. list = s /\ ToSet(s) = ToSet(registered)
      BY <1>1, <1>4, <2>1, <2>2, <2>7 DEF CInv, Fresh
    <3>2. \A i \in DOMAIN s : Value(s[i]) = s[i]
      BY <3>1, AllResolved
    <3> QED BY <2>3, <3>1, <3>2
  <2>8. \A o : Value(o)' = Value(o)
    BY <1>1 DEF Value
  <2>9. CacheTrue'
    BY <1>1, <2>5, <2>7, <2>8 DEF CacheTrue, V!Paired
  <2> QED BY <2>6, <2>9 DEF CInv
<1> QED BY <1>3, <1>4 DEF Resolved, V!WithValues

LEMMA CollectKeepsCache ==
  ASSUME IInv, CInv, Collect
  PROVE  CInv'
<1>1. run \in RunType /\ UNCHANGED <<registered, pending>>
  BY DEF IInv, TypeOK, Collect
<1>2. view' = V!WithBindings(view, registered) /\ run'.at # "resolving"
  BY <1>1 DEF Collect, RunType
<1>3. view'.bindings \in Seq(Observers) /\ view'.values = view.values
  BY <1>2, FoundBindings
<1> QED BY <1>1, <1>2, <1>3, FindingKeepsCache

LEMMA NotifyingKeepsCache ==
  ASSUME IInv, CInv,
         Finish \/ SkipGroup \/ NotifyParallel \/ GroupNotified \/ EnterGroup \/ NotifySerial
  PROVE  CInv'
<1>1. UNCHANGED <<registered, view, pending>> /\ run \in RunType
  BY DEF IInv, TypeOK, Finish, SkipGroup, NotifyParallel, GroupNotified, EnterGroup, NotifySerial
<1>2. run.at \in {"group", "parallel", "serial"}
  BY DEF Finish, SkipGroup, NotifyParallel, GroupNotified, EnterGroup, NotifySerial
<1>3. CASE Finish \/ SkipGroup \/ GroupNotified \/ EnterGroup
  <2>1. run'.at # "resolving"
    BY <1>1, <1>2, <1>3 DEF RunType, Finish, SkipGroup, GroupNotified, EnterGroup
  <2> QED BY <1>1, <2>1, ElsewhereKeepsCache
<1>4. CASE NotifyParallel
  <2>1. PICK at \in {"failed", "parallel"} : run' = [run EXCEPT !.at = at, !.groups = Tail(@)]
    BY <1>4 DEF NotifyParallel
  <2>2. run'.at # "resolving"
    BY <1>1, <2>1 DEF RunType
  <2> QED BY <1>1, <2>2, ElsewhereKeepsCache
<1>5. CASE NotifySerial
  <2>1. run'.at # "resolving"
    BY <1>1, <1>2, <1>5 DEF RunType, NotifySerial
  <2> QED BY <1>1, <2>1, ElsewhereKeepsCache
<1> QED BY <1>3, <1>4, <1>5

LEMMA InitCInv == Init => CInv
BY DEF Init, CInv, Fresh, CacheTrue, V!Refreshed, V!Paired

LEMMA NextCInv ==
  ASSUME Absent = {}
  PROVE  IInv /\ CInv /\ [Next]_vars => CInv'
<1> SUFFICES ASSUME IInv, CInv, [Next]_vars PROVE CInv'
  OBVIOUS
<1>1. CASE \/ \E o \in Observers : Bind(o) \/ Unbind(o) \/ Settle(o)
           \/ Notify
           \/ \E order \in Orders : SetOrderedGroups(order)
  BY <1>1, AroundKeepsCache
<1>2. CASE \E event \in Events : Begin(event)
  BY <1>2, BeginKeepsCache
<1>3. CASE Step
  <2>1. CASE Tick BY <2>1, TickKeepsCache
  <2>2. CASE Resolved BY <2>2, ResolvedKeepsCache
  <2>3. CASE Collect BY <2>3, CollectKeepsCache
  <2> QED BY <1>3, <2>1, <2>2, <2>3, NotifyingKeepsCache DEF Step
<1>4. CASE UNCHANGED vars
  BY <1>4, ElsewhereKeepsCache DEF vars
<1> QED BY <1>1, <1>2, <1>3, <1>4 DEF Next

(* Unless a binding resolves to null, which resolve() drops, the values    *)
(* that the view caches are those of their bindings, once no notification  *)
(* is on its way: updateCachedValues pairs by position, but never after    *)
(* the bindings were invalidated, or sorted, under way.                    *)
THEOREM CachePairsValues ==
  ASSUME Absent = {}
  PROVE  Spec => []CacheTrue
<1>1. IInv /\ CInv /\ [Next]_vars => CInv'
  BY NextCInv
<1>2. CInv => CacheTrue
  BY DEF CInv
<1> QED BY InitIInv, NextIInv, InitCInv, <1>1, <1>2, PTL DEF Spec

-----------------------------------------------------------------------------
(***************************************************************************)
(* Notification by groups, as long as neither bindings nor the order of    *)
(* groups change, no binding resolves to null, and the bindings are        *)
(* grouped by the tag by which they are sorted.                            *)
(***************************************************************************)

FixedGroups ==
  /\ Rebinds = 0 /\ Regroups = 0 /\ Absent = {}
  /\ \A o \in Observers, order \in Orders : GroupIn(o, order) = Explicit[o]

Difference(g, h) == CompareByOrder(g, h, options.orderedGroups, Alphabet)

(* Whether the operation comes to group g before it comes to group h.      *)
ComesFirst(g, h) ==
  IF run.event = "stop" THEN Difference(h, g) < 0 ELSE Difference(g, h) < 0

InGroupOrder(s) ==
  \A i, j \in 1..Len(s) : i < j => Difference(Explicit[s[i]], Explicit[s[j]]) <= 0

(* The cached bindings are sorted and paired with their own values.        *)
CacheSorted ==
  /\ pending = 0
  /\ run.at # "idle" => view.bindings # NULL
  /\ view.bindings # NULL => ToSet(view.bindings) = ToSet(registered) /\ InGroupOrder(view.bindings)
  /\ view.values # NULL => view.bindings # NULL /\ V!CachedValues(view) = view.bindings

(* The operation has the observers of the cached bindings.                 *)
ObserversFound ==
  /\ run.at \in {"resolving", "collect", "group", "parallel", "serial"} =>
       run.observers = view.bindings
  /\ run.at \in {"group", "parallel", "serial"} => run.bindings = view.bindings
  /\ run.at \notin {"parallel", "serial", "failed"} => busy = {}

(* The groups that are left are those of their bindings, in order.         *)
GroupsInOrder ==
  /\ \A k \in 1..Len(run.groups) : \A o \in ToSet(run.groups[k].bindings) :
       o \in ToSet(registered) /\ Group(o) = run.groups[k].group
  /\ \A k, l \in 1..Len(run.groups) :
       k < l => ComesFirst(run.groups[k].group, run.groups[l].group)

(* Nobody is forgotten.                                                    *)
Covered ==
  run.at \notin {"idle", "done", "failed"} =>
    \A o \in ToSet(registered) : Enabled(o) =>
      o \in ToSet(log) \/ ToCome(o) \/ (run.at = "serial" /\ o \in ToSet(run.members))

(* The members that are left are of one group, before those to come.       *)
MembersNext ==
  run.at = "serial" =>
    \A i \in 1..Len(run.members) :
      /\ run.members[i] \in ToSet(registered) /\ Enabled(run.members[i])
      /\ \A j \in 1..Len(run.members) : Group(run.members[j]) = Group(run.members[i])
      /\ \A k \in 1..Len(run.groups) : ComesFirst(Group(run.members[i]), run.groups[k].group)

OInv == CacheSorted /\ ObserversFound /\ GroupsInOrder /\ Covered /\ MembersNext

(* The order of groups is strict and total.                                *)
LEMMA GroupsCompare ==
  ASSUME TypeOK, NEW a \in Names, NEW b \in Names, NEW c \in Names
  PROVE  /\ Difference(a, b) \in Int /\ Difference(a, a) = 0
         /\ Difference(b, a) = 0 - Difference(a, b)
         /\ Difference(a, b) = 0 => a = b
         /\ Difference(a, b) < 0 /\ Difference(b, c) < 0 => Difference(a, c) < 0
<1>1. options.orderedGroups \in Seq(Names) /\ Alphabet \in Seq(Names)
  <2>1. options.orderedGroups \in Seq(Names)
    BY ObserversAssumption DEF TypeOK
  <2> QED BY <2>1, ObserversAssumption
<1>2. /\ Preordered(a, b, c, options.orderedGroups, Alphabet)
      /\ Preordered(b, c, a, options.orderedGroups, Alphabet)
  BY <1>1, Compares
<1>3. /\ Difference(a, b) \in Int /\ Difference(a, a) = 0 /\ Difference(b, c) \in Int
      /\ Difference(b, a) = 0 - Difference(a, b)
      /\ Difference(a, b) <= 0 /\ Difference(b, c) <= 0 => Difference(a, c) <= 0
      /\ Difference(a, b) < 0 /\ Difference(b, c) <= 0 => Difference(a, c) < 0
  BY <1>2, Zenon DEF Preordered, Difference
<1>4. ASSUME Difference(a, b) = 0
      PROVE  a = b
  <2>1. PICK order \in Seq(Names) : order = options.orderedGroups
    BY <1>1
  <2>2. PICK alphabet \in Seq(Names) : alphabet = Alphabet /\ Names = ToSet(alphabet)
    BY <1>1 DEF Names
  <2> DEFINE n(x) == IndexOf(order, x)
             m(x) == IndexOf(alphabet, x)
  <2>3. \A x : /\ n(x) \in 0..Len(order) /\ (n(x) # 0 => order[n(x)] = x)
               /\ m(x) \in 0..Len(alphabet) /\ (m(x) # 0 => alphabet[m(x)] = x)
    BY IndexOfFinds
  <2>4. \A x \in Names : m(x) # 0
    <3> SUFFICES ASSUME NEW x \in Names PROVE m(x) # 0
      OBVIOUS
    <3>1. PICK i \in 1..Len(alphabet) : alphabet[i] = x
      BY <2>2 DEF ToSet
    <3> QED BY <3>1, IndexOfFinds
  <2>5. IF n(a) # 0 \/ n(b) # 0 THEN n(a) - n(b) = 0 ELSE m(a) - m(b) = 0
    BY <1>4, <2>1, <2>2 DEF Difference, CompareByOrder
  <2>6. Len(order) \in Nat /\ Len(alphabet) \in Nat
    OBVIOUS
  <2> HIDE DEF n, m
  <2>7. \/ n(a) # 0 /\ n(a) = n(b)
        \/ m(a) = m(b)
    BY <2>3, <2>5, <2>6
  <2> QED BY <2>3, <2>4, <2>7
<1> QED BY <1>3, <1>4

LEMMA NamesFinite == IsFiniteSet(Names)
<1>1. PICK alphabet \in Seq(Names) : alphabet = Alphabet /\ Names = ToSet(alphabet)
  BY ObserversAssumption DEF Names
<1>2. Len(alphabet) \in Nat /\ DOMAIN alphabet = 1..Len(alphabet)
  OBVIOUS
<1>3. alphabet \in Surjection(1..Len(alphabet), Names)
  BY <1>1, <1>2 DEF Surjection, ToSet
<1>4. IsFiniteSet(1..Len(alphabet))
  BY <1>2, FS_Interval
<1> QED BY <1>3, <1>4, FS_Surjection

(* The rank of a group is the number of the groups before it.              *)
LEMMA RankGrows ==
  ASSUME TypeOK, NEW a \in Observers, NEW b \in Observers,
         Difference(Group(a), Group(b)) < 0
  PROVE  /\ GroupRank(a, options.orderedGroups) \in Nat
         /\ GroupRank(b, options.orderedGroups) \in Nat
         /\ GroupRank(a, options.orderedGroups) < GroupRank(b, options.orderedGroups)
<1> DEFINE Below(g) == {h \in Names : Difference(h, g) < 0}
<1>1. Group(a) \in Names /\ Group(b) \in Names
  BY GroupType1
<1>2. PICK g \in Names, h \in Names : g = Group(a) /\ h = Group(b)
  BY <1>1
<1>3. /\ GroupRank(a, options.orderedGroups) = Cardinality(Below(g))
      /\ GroupRank(b, options.orderedGroups) = Cardinality(Below(h))
  BY <1>2 DEF GroupRank, Difference, Group, Names
<1>4. IsFiniteSet(Names)
  BY NamesFinite
<1>5. \A x \in Names : Difference(x, g) < 0 => Difference(x, h) < 0
  <2> SUFFICES ASSUME NEW x \in Names, Difference(x, g) < 0 PROVE Difference(x, h) < 0
    OBVIOUS
  <2>1. Difference(g, h) < 0
    BY <1>2
  <2> QED BY <2>1, GroupsCompare
<1>6. Below(g) \in SUBSET Below(h)
  BY <1>5
<1>7. g \in Below(h) /\ g \notin Below(g)
  <2>1. Difference(g, g) = 0
    BY GroupsCompare
  <2> QED BY <1>2, <2>1
<1>8. IsFiniteSet(Below(h))
  <2>1. Below(h) \in SUBSET Names
    OBVIOUS
  <2> QED BY <1>4, <2>1, FS_Subset
<1> HIDE DEF Below
<1>9. /\ IsFiniteSet(Below(g)) /\ Cardinality(Below(g)) <= Cardinality(Below(h))
      /\ Cardinality(Below(g)) = Cardinality(Below(h)) => Below(g) = Below(h)
  BY <1>6, <1>8, FS_Subset
<1>10. Cardinality(Below(g)) \in Nat /\ Cardinality(Below(h)) \in Nat
  BY <1>8, <1>9, FS_CardinalityType
<1>11. Cardinality(Below(g)) # Cardinality(Below(h))
  BY <1>7, <1>9
<1> QED BY <1>3, <1>9, <1>10, <1>11

(* Sorting orders, and leaves alone what is in order.                      *)
LEMMA SortedInOrder ==
  ASSUME TypeOK, NEW s \in Seq(Observers)
  PROVE  /\ InGroupOrder(Sorted(s))
         /\ InGroupOrder(s) => Sorted(s) = s
<1>1. PICK p \in [1..Len(s) -> 1..Len(s)] :
           /\ Sorted(s) = [k \in 1..Len(s) |-> s[p[k]]]
           /\ \A i, j \in 1..Len(s) : p[i] = p[j] => i = j
           /\ \A x \in 1..Len(s) : \E k \in 1..Len(s) : p[k] = x
           /\ \A i, j \in 1..Len(s) : i < j =>
                \/ Difference(Explicit[s[p[i]]], Explicit[s[p[j]]]) < 0
                \/ Difference(Explicit[s[p[i]]], Explicit[s[p[j]]]) = 0 /\ p[i] < p[j]
  BY SortedPermutes DEF Difference
<1>2. Len(s) \in Nat /\ DOMAIN s = 1..Len(s) /\ s = [k \in 1..Len(s) |-> s[k]]
      /\ \A i \in 1..Len(s) : s[i] \in Observers
  OBVIOUS
<1>3. \A i \in 1..Len(s) : Explicit[s[i]] \in Names
  BY <1>2, ObserversAssumption
<1>4. \A i, j \in 1..Len(s) : /\ Difference(Explicit[s[i]], Explicit[s[j]]) \in Int
                              /\ Difference(Explicit[s[j]], Explicit[s[i]])
                                   = 0 - Difference(Explicit[s[i]], Explicit[s[j]])
  BY <1>3, GroupsCompare
<1>5. InGroupOrder(Sorted(s))
  <2>1. Len(Sorted(s)) = Len(s) /\ \A k \in 1..Len(s) : Sorted(s)[k] = s[p[k]] /\ p[k] \in 1..Len(s)
    BY <1>1, SortedKeeps
  <2>2. ASSUME NEW i \in 1..Len(s), NEW j \in 1..Len(s), i < j
        PROVE  Difference(Explicit[s[p[i]]], Explicit[s[p[j]]]) <= 0
    <3>1. Difference(Explicit[s[p[i]]], Explicit[s[p[j]]]) \in Int
      BY <1>4, <2>1
    <3>2. \/ Difference(Explicit[s[p[i]]], Explicit[s[p[j]]]) < 0
          \/ Difference(Explicit[s[p[i]]], Explicit[s[p[j]]]) = 0
      BY <1>1, <2>2
    <3> QED BY <3>1, <3>2
  <2> QED BY <2>1, <2>2 DEF InGroupOrder
<1>6. ASSUME InGroupOrder(s)
      PROVE  Sorted(s) = s
  <2>1. \A i, j \in 1..Len(s) : i < j => p[i] < p[j]
    <3> SUFFICES ASSUME NEW i \in 1..Len(s), NEW j \in 1..Len(s), i < j, p[j] < p[i]
                 PROVE  FALSE
      BY <1>1, <1>2
    <3>1. p[i] \in 1..Len(s) /\ p[j] \in 1..Len(s)
      OBVIOUS
    <3>2. Difference(Explicit[s[p[j]]], Explicit[s[p[i]]]) <= 0
      BY <1>6, <3>1 DEF InGroupOrder
    <3>3. /\ Difference(Explicit[s[p[i]]], Explicit[s[p[j]]]) \in Int
          /\ Difference(Explicit[s[p[j]]], Explicit[s[p[i]]])
               = 0 - Difference(Explicit[s[p[i]]], Explicit[s[p[j]]])
      BY <1>4, <3>1
    <3>4. \/ Difference(Explicit[s[p[i]]], Explicit[s[p[j]]]) < 0
          \/ Difference(Explicit[s[p[i]]], Explicit[s[p[j]]]) = 0 /\ p[i] < p[j]
      BY <1>1
    <3> QED BY <1>2, <3>1, <3>2, <3>3, <3>4
  <2>2. \A i \in 1..Len(s) : p[i] = i
    BY <1>1, <1>2, <2>1, AscendingIsIdentity
  <2> QED BY <1>1, <1>2, <2>2
<1> QED BY <1>5, <1>6

(* The groups of sorted bindings are in order.                             *)
LEMMA GroupsAscend ==
  ASSUME FixedGroups, TypeOK, NEW s \in Seq(Observers), InGroupOrder(s)
  PROVE  \A k, l \in 1..Len(Groups(s)) :
           k < l => Difference(Groups(s)[k].group, Groups(s)[l].group) < 0
<1> DEFINE F == {i \in 1..Len(s) : \A j \in 1..(i - 1) : Group(s[j]) # Group(s[i])}
           leaders == Filtered(s, F)
           gs == Groups(s)
<1>1. /\ Len(s) \in Nat /\ DOMAIN s = 1..Len(s) /\ \A i \in 1..Len(s) : s[i] \in Observers
      /\ F \in SUBSET (1..Len(s))
  OBVIOUS
<1>2. /\ leaders \in Seq(Observers)
      /\ DOMAIN gs = DOMAIN leaders
      /\ \A k \in DOMAIN leaders : gs[k].group = Group(leaders[k])
      /\ gs = [k \in DOMAIN leaders |-> GroupEntry(leaders[k], s)]
  <2>1. leaders \in Seq(Observers)
    BY <1>1, FilteredKeeps
  <2> QED BY <1>1, <2>1 DEF Groups, GroupEntry
<1> DEFINE n == Cardinality(F)
<1>3. n \in Nat /\ DOMAIN leaders = 1..n
  <2> HIDE DEF F
  <2> QED BY <1>1, FilteredKeeps
<1>4. PICK p \in [1..n -> F] :
         /\ \A i, j \in 1..n : i < j => p[i] < p[j]
         /\ \A k \in 1..n : leaders[k] = s[p[k]]
  <2> HIDE DEF F
  <2> QED BY <1>1, FilteredKeeps
<1> HIDE DEF leaders, gs, n
<1>5. DOMAIN gs = 1..n /\ Len(gs) = n
  BY <1>2, <1>3
<1>6. ASSUME NEW k \in 1..n, NEW l \in 1..n, k < l
      PROVE  Difference(Group(leaders[k]), Group(leaders[l])) < 0
  <2>1. p[k] \in F /\ p[l] \in F /\ p[k] < p[l]
    BY <1>4, <1>6
  <2>2. p[k] \in 1..(p[l] - 1) /\ p[k] \in 1..Len(s) /\ p[l] \in 1..Len(s)
    BY <1>1, <2>1
  <2>3. Group(s[p[k]]) # Group(s[p[l]])
    BY <2>1, <2>2
  <2>4. /\ s[p[k]] \in Observers /\ s[p[l]] \in Observers
        /\ Difference(Explicit[s[p[k]]], Explicit[s[p[l]]]) <= 0
    BY <1>1, <2>1, <2>2 DEF InGroupOrder
  <2>5. Group(s[p[k]]) = Explicit[s[p[k]]] /\ Group(s[p[l]]) = Explicit[s[p[l]]]
    BY <2>4 DEF FixedGroups, Group, TypeOK
  <2>6. PICK g \in Names, h \in Names : g = Explicit[s[p[k]]] /\ h = Explicit[s[p[l]]]
    BY <2>4, ObserversAssumption
  <2>7. Difference(g, h) \in Int /\ (Difference(g, h) = 0 => g = h)
    BY GroupsCompare
  <2> QED BY <1>4, <2>3, <2>4, <2>5, <2>6, <2>7
<1> QED BY <1>2, <1>3, <1>5, <1>6 DEF gs

-----------------------------------------------------------------------------
(* What depends on the context and the options alone.                      *)
LEMMA SameWorld ==
  ASSUME UNCHANGED registered, UNCHANGED options
  PROVE  /\ \A o : Group(o)' = Group(o) /\ Enabled(o)' = Enabled(o)
         /\ \A g, h : Difference(g, h)' = Difference(g, h)
         /\ \A o : GroupRank(o, options.orderedGroups)' = GroupRank(o, options.orderedGroups)
BY DEF Group, Enabled, Difference

LEMMA SameOrder ==
  ASSUME UNCHANGED options, run'.event = run.event, NEW g, NEW h
  PROVE  ComesFirst(g, h)' = ComesFirst(g, h)
BY DEF ComesFirst, Difference

(* The observers to notify, and their ranks, as the abstract specification *)
(* sees them.                                                              *)
Wanted == {o \in ToSet(registered) : Enabled(o)}
Ranks == [o \in Observers |-> GroupRank(o, options.orderedGroups)]

LEMMA SameObservers ==
  ASSUME UNCHANGED registered, UNCHANGED options
  PROVE  Wanted' = Wanted /\ Ranks' = Ranks
BY SameWorld DEF Wanted, Ranks

Abstract == <<Wanted, Ranks, run.event, Wanted \ ToSet(log), busy, ~Over>>

LEMMA Stutters ==
  ASSUME UNCHANGED registered, UNCHANGED options, UNCHANGED busy,
         ToSet(log') = ToSet(log), run'.event = run.event, Over' <=> Over
  PROVE  UNCHANGED ByGroups!vars
<1>1. UNCHANGED Abstract
  BY SameObservers DEF Abstract
<1> QED BY <1>1 DEF ByGroups!vars, Abstract, Wanted, Ranks

(* The rest of a list of groups is in order.                               *)
LEMMA GroupsKeepOrder ==
  ASSUME OInv, run \in RunType, UNCHANGED registered, UNCHANGED options,
         run'.event = run.event,
         run'.groups = run.groups \/ (run.groups # <<>> /\ run'.groups = Tail(run.groups))
  PROVE  GroupsInOrder'
<1>1. PICK gs \in Seq(GroupType) : gs = run.groups
  BY DEF RunType
<1>2. PICK r : r = run'.groups
  OBVIOUS
<1>3. /\ \A k \in 1..Len(gs) : \A o \in ToSet(gs[k].bindings) :
           o \in ToSet(registered) /\ Group(o) = gs[k].group
      /\ \A k, l \in 1..Len(gs) : k < l => ComesFirst(gs[k].group, gs[l].group)
  BY <1>1 DEF OInv, GroupsInOrder
<1>4. /\ \A k \in 1..Len(r) : \A o \in ToSet(r[k].bindings) :
           o \in ToSet(registered) /\ Group(o) = r[k].group
      /\ \A k, l \in 1..Len(r) : k < l => ComesFirst(r[k].group, r[l].group)
  <2>1. CASE r = gs
    BY <1>3, <2>1
  <2>2. CASE gs # <<>> /\ r = Tail(gs)
    <3>1. \A k \in 1..Len(r) : k \in Nat /\ k + 1 \in 1..Len(gs) /\ r[k] = gs[k + 1]
      BY <2>2, TailDrops
    <3>2. \A k, l \in 1..Len(r) : k < l => k + 1 < l + 1
      BY <3>1
    <3> QED BY <1>3, <3>1, <3>2
  <2> QED BY <1>1, <1>2, <2>1, <2>2
<1>5. \A o : Group(o)' = Group(o)
  BY SameWorld
<1>6. \A k, l \in 1..Len(r) : k < l => ComesFirst(r[k].group, r[l].group)'
  BY <1>4, SameOrder
<1> QED BY <1>2, <1>4, <1>5, <1>6 DEF GroupsInOrder

(* As long as the cache stays as it is.                                    *)
LEMMA CacheStaysSorted ==
  ASSUME OInv, UNCHANGED registered, UNCHANGED options, UNCHANGED pending,
         UNCHANGED view, run.at # "idle" \/ run'.at = "idle"
  PROVE  CacheSorted'
<1>1. \A g, h : Difference(g, h)' = Difference(g, h)
  BY SameWorld
<1>2. PICK v : v = view
  OBVIOUS
<1>3. /\ v.bindings # NULL => ToSet(v.bindings) = ToSet(registered) /\ InGroupOrder(v.bindings)
      /\ v.values # NULL => v.bindings # NULL /\ V!CachedValues(v) = v.bindings
  BY <1>2 DEF OInv, CacheSorted
<1>4. InGroupOrder(v.bindings) => InGroupOrder(v.bindings)'
  BY <1>1 DEF InGroupOrder
<1>5. view' = v /\ pending' = 0 /\ (run'.at # "idle" => v.bindings # NULL)
  BY <1>2 DEF OInv, CacheSorted
<1> QED BY <1>3, <1>4, <1>5 DEF CacheSorted

(* While somebody is still to be notified, it is known who and when.       *)
LEMMA ComesLater ==
  ASSUME OInv, run \in RunType, run.groups # <<>>, NEW p \in Observers, ToCome(p)
  PROVE  /\ p \in ToSet(registered)
         /\ \/ p \in ToSet(Head(run.groups).bindings) /\ Group(p) = Head(run.groups).group
            \/ ComesFirst(Head(run.groups).group, Group(p))
<1>1. PICK gs \in Seq(GroupType) : gs = run.groups
  BY DEF RunType
<1>2. PICK k \in 1..Len(gs) : p \in ToSet(gs[k].bindings)
  BY <1>1 DEF ToCome
<1>3. Head(gs) = gs[1] /\ 1 \in 1..Len(gs) /\ Len(gs) \in Nat
  BY <1>1, TailDrops
<1>4. p \in ToSet(registered) /\ Group(p) = gs[k].group
  BY <1>1, <1>2 DEF OInv, GroupsInOrder
<1>5. k = 1 \/ ComesFirst(gs[1].group, gs[k].group)
  BY <1>1, <1>3 DEF OInv, GroupsInOrder
<1> QED BY <1>1, <1>2, <1>3, <1>4, <1>5

LEMMA NotBefore ==
  ASSUME TypeOK, NEW o \in Observers, NEW p \in Observers,
         Group(p) = Group(o) \/ ComesFirst(Group(o), Group(p))
  PROVE  ~ByGroups!Earlier(Ranks[p], Ranks[o])
<1> DEFINE r(x) == GroupRank(x, options.orderedGroups)
<1>1. Ranks[p] = r(p) /\ Ranks[o] = r(o)
  BY DEF Ranks
<1>2. CASE Group(p) = Group(o)
  <2>1. r(p) = r(o)
    BY <1>2 DEF GroupRank, Group
  <2>2. r(p) \in Nat
    <3>1. r(p) = Cardinality({g \in Names : Difference(g, Group(p)) < 0})
      BY DEF GroupRank, Difference, Group, Names
    <3>2. IsFiniteSet(Names)
      BY NamesFinite
    <3>3. IsFiniteSet({g \in Names : Difference(g, Group(p)) < 0})
      BY <3>2, FS_Subset
    <3> QED BY <3>1, <3>3, FS_CardinalityType
  <2> HIDE DEF r
  <2> QED BY <1>1, <2>1, <2>2 DEF ByGroups!Earlier
<1>3. CASE ComesFirst(Group(o), Group(p))
  <2>1. CASE run.event = "stop"
    <3>1. Difference(Group(p), Group(o)) < 0
      BY <1>3, <2>1 DEF ComesFirst
    <3>2. r(p) \in Nat /\ r(o) \in Nat /\ r(p) < r(o)
      BY <3>1, RankGrows
    <3> HIDE DEF r
    <3> QED BY <1>1, <2>1, <3>2 DEF ByGroups!Earlier
  <2>2. CASE run.event # "stop"
    <3>1. Difference(Group(o), Group(p)) < 0
      BY <1>3, <2>2 DEF ComesFirst
    <3>2. r(p) \in Nat /\ r(o) \in Nat /\ r(o) < r(p)
      BY <3>1, RankGrows
    <3> HIDE DEF r
    <3> QED BY <1>1, <2>2, <3>2 DEF ByGroups!Earlier
  <2> QED BY <2>1, <2>2
<1> QED BY <1>2, <1>3

-----------------------------------------------------------------------------
LEMMA AroundRefines ==
  ASSUME FixedGroups, IInv, OInv,
         \/ \E o \in Observers : Bind(o) \/ Unbind(o)
         \/ Notify
         \/ \E order \in Orders : SetOrderedGroups(order)
  PROVE  FALSE
<1>1. pending = 0 /\ rebinds \in Nat /\ regroups \in Nat
  BY DEF IInv, TypeOK, OInv, CacheSorted
<1> QED BY <1>1 DEF FixedGroups, Bind, Unbind, Notify, SetOrderedGroups

LEMMA BeginRefines ==
  ASSUME FixedGroups, IInv, OInv, NEW event \in Events, Begin(event)
  PROVE  OInv' /\ ByGroups!Next
<1>1. PICK v : v = V!WithBindings(view, registered)
  OBVIOUS
<1>2. v \in ViewType /\ v.bindings \in Seq(Observers) /\ IsInjective(v.bindings) /\ v.values = view.values
  BY <1>1, FoundBindings
<1>3. /\ ToSet(v.bindings) = ToSet(registered)
      /\ view.bindings # NULL => v = view /\ InGroupOrder(v.bindings)
  <2>1. CASE view.bindings = NULL
    <3>1. v = [view EXCEPT !.bindings = registered] /\ view \in ViewType
      BY <1>1, <2>1 DEF V!WithBindings, IInv, TypeOK
    <3> QED BY <2>1, <3>1 DEF ViewType
  <2>2. CASE view.bindings # NULL
    BY <1>1, <2>2 DEF V!WithBindings, OInv, CacheSorted
  <2> QED BY <2>1, <2>2
<1>4. PICK sorted : sorted = Sorted(v.bindings)
  OBVIOUS
<1>5. /\ sorted \in Seq(Observers) /\ IsInjective(sorted) /\ ToSet(sorted) = ToSet(registered)
      /\ InGroupOrder(sorted)
      /\ view.bindings # NULL => sorted = view.bindings
  BY <1>2, <1>3, <1>4, SortedKeeps, SortedInOrder DEF IInv
<1>6. PICK gs : gs = Groups(sorted)
  OBVIOUS
<1>7. /\ gs \in Seq(GroupType)
      /\ \A k \in 1..Len(gs) : \A o \in ToSet(gs[k].bindings) :
           o \in ToSet(registered) /\ Group(o) = gs[k].group
      /\ \A o \in ToSet(registered) : \E k \in 1..Len(gs) : o \in ToSet(gs[k].bindings)
  BY <1>5, <1>6, GroupsPartition DEF IInv
<1>8. \A k, l \in 1..Len(gs) : k < l => Difference(gs[k].group, gs[l].group) < 0
  BY <1>5, <1>6, GroupsAscend DEF IInv
<1>9. PICK turned : turned = Reversed(gs)
  OBVIOUS
<1>10. /\ Len(turned) = Len(gs) /\ Len(gs) \in Nat
       /\ \A k \in 1..Len(gs) :
            /\ Len(gs) - k + 1 \in 1..Len(gs)
            /\ turned[k].group = gs[Len(gs) - k + 1].group
            /\ ToSet(turned[k].bindings) = ToSet(gs[Len(gs) - k + 1].bindings)
  <2>1. gs \in Seq(GroupType) /\ Len(gs) \in Nat
    BY <1>7
  <2> QED BY <1>9, <2>1, ReversedPartition
<1>11. /\ view' = [v EXCEPT !.bindings = sorted]
       /\ run' = [Idle EXCEPT !.event = event, !.at = "tick", !.order = options.orderedGroups,
                              !.groups = IF event = "stop" THEN turned ELSE gs]
       /\ log' = <<>> /\ run.at \in {"idle", "done"}
       /\ UNCHANGED registered /\ UNCHANGED options /\ UNCHANGED pending /\ UNCHANGED busy
  BY <1>1, <1>4, <1>6, <1>9 DEF Begin, Reversed
<1>12. PICK r : r = IF event = "stop" THEN turned ELSE gs
  OBVIOUS
<1>13. run'.event = event /\ run'.at = "tick" /\ run'.groups = r
  BY <1>11, <1>12 DEF Idle
<1>14. view'.bindings = sorted /\ view'.values = view.values
  BY <1>2, <1>11 DEF ViewType
<1>15. \A g, h : Difference(g, h)' = Difference(g, h)
  BY <1>11, SameWorld
<1>16. CacheSorted'
  <2>1. sorted # NULL
    BY <1>5, ObserversAssumption
  <2>2. InGroupOrder(sorted)'
    BY <1>5, <1>15 DEF InGroupOrder
  <2>3. view.values # NULL => V!CachedValues(view') = sorted
    <3>1. view.values # NULL => V!CachedValues(view) = view.bindings /\ view.bindings # NULL
      BY DEF OInv, CacheSorted
    <3>2. V!CachedValues(view') = V!CachedValues(view)
      BY <1>14 DEF V!CachedValues
    <3> QED BY <1>5, <3>1, <3>2
  <2>4. pending' = 0
    BY <1>11 DEF OInv, CacheSorted
  <2> QED BY <1>5, <1>11, <1>14, <2>1, <2>2, <2>3, <2>4 DEF CacheSorted
<1>17. ObserversFound'
  BY <1>11, <1>13 DEF OInv, ObserversFound
<1>18. /\ Len(r) = Len(gs)
       /\ \A k \in 1..Len(r) : \A o \in ToSet(r[k].bindings) :
            o \in ToSet(registered) /\ Group(o) = r[k].group
       /\ \A o \in ToSet(registered) : \E k \in 1..Len(r) : o \in ToSet(r[k].bindings)
  <2>1. CASE event = "stop"
    <3>1. r = turned
      BY <1>12, <2>1
    <3>2. \A o \in ToSet(registered) : \E k \in 1..Len(r) : o \in ToSet(r[k].bindings)
      <4> SUFFICES ASSUME NEW o \in ToSet(registered) PROVE \E k \in 1..Len(r) : o \in ToSet(r[k].bindings)
        OBVIOUS
      <4>1. PICK k \in 1..Len(gs) : o \in ToSet(gs[k].bindings)
        BY <1>7
      <4>2. Len(gs) - k + 1 \in 1..Len(gs) /\ Len(gs) - (Len(gs) - k + 1) + 1 = k
        BY <1>10
      <4>3. o \in ToSet(turned[Len(gs) - k + 1].bindings)
        BY <1>10, <4>1, <4>2
      <4> QED BY <1>10, <3>1, <4>2, <4>3
    <3> QED BY <1>7, <1>10, <3>1, <3>2
  <2>2. CASE event # "stop"
    BY <1>7, <1>12, <2>2
  <2> QED BY <2>1, <2>2
<1>19. ASSUME NEW k \in 1..Len(r), NEW l \in 1..Len(r), k < l
       PROVE  ComesFirst(r[k].group, r[l].group)'
  <2>1. CASE event = "stop"
    <3>1. r[k].group = gs[Len(gs) - k + 1].group /\ r[l].group = gs[Len(gs) - l + 1].group
      BY <1>10, <1>12, <1>18, <2>1
    <3>2. Len(gs) - k + 1 \in 1..Len(gs) /\ Len(gs) - l + 1 \in 1..Len(gs)
          /\ Len(gs) - l + 1 < Len(gs) - k + 1
      BY <1>10, <1>18, <1>19
    <3>3. Difference(r[l].group, r[k].group) < 0
      BY <1>8, <3>1, <3>2
    <3> QED BY <1>13, <1>15, <2>1, <3>3 DEF ComesFirst
  <2>2. CASE event # "stop"
    <3>1. Difference(r[k].group, r[l].group) < 0
      BY <1>8, <1>12, <1>19, <2>2
    <3> QED BY <1>13, <1>15, <2>2, <3>1 DEF ComesFirst
  <2> QED BY <2>1, <2>2
<1>20. GroupsInOrder'
  <2>1. \A o : Group(o)' = Group(o)
    BY <1>11, SameWorld
  <2> QED BY <1>11, <1>13, <1>18, <1>19, <2>1 DEF GroupsInOrder
<1>21. Covered' /\ MembersNext'
  BY <1>11, <1>13, <1>18 DEF Covered, MembersNext, ToCome
<1>22. ByGroups!Next
  <2>1. Over /\ ~Over' /\ busy = {}
    BY <1>11, <1>13 DEF Over, OInv, ObserversFound
  <2>2. ToSet(log') = {} /\ Wanted' = Wanted /\ Ranks' = Ranks
    BY <1>11, SameObservers DEF ToSet
  <2>3. ByGroups!Begin(event)
    BY <1>11, <1>13, <2>1, <2>2 DEF ByGroups!Begin, Wanted, Ranks
  <2> QED BY <2>3 DEF ByGroups!Next, Events
<1> QED BY <1>16, <1>17, <1>20, <1>21, <1>22 DEF OInv

(* Nothing changes for who is still to be notified.                        *)
LEMMA CourseStays ==
  ASSUME OInv, run \in RunType, UNCHANGED registered, UNCHANGED options, UNCHANGED log,
         run'.groups = run.groups, run'.members = run.members, run'.event = run.event,
         run'.at # "serial",
         run'.at \in {"done", "failed"} \/ run.at \in {"tick", "resolving", "collect", "parallel"}
  PROVE  GroupsInOrder' /\ Covered' /\ MembersNext'
<1>1. GroupsInOrder'
  BY GroupsKeepOrder
<1>2. \A o : ToCome(o)' = ToCome(o) /\ Enabled(o)' = Enabled(o)
  BY SameWorld DEF ToCome
<1>3. Covered'
  <2>1. CASE run'.at \in {"done", "failed"}
    BY <2>1 DEF Covered
  <2>2. CASE run.at \in {"tick", "resolving", "collect", "parallel"}
    <3>1. \A o \in ToSet(registered) : Enabled(o) => o \in ToSet(log) \/ ToCome(o)
      BY <2>2 DEF OInv, Covered
    <3> QED BY <1>2, <3>1 DEF Covered
  <2> QED BY <2>1, <2>2
<1>4. MembersNext'
  BY DEF MembersNext
<1> QED BY <1>1, <1>3, <1>4

(* The bindings are cached as long as an operation is on its way.          *)
LEMMA CachedBindings ==
  ASSUME IInv, OInv, run.at # "idle"
  PROVE  /\ view \in ViewType /\ view.bindings \in Seq(Observers) /\ view.bindings # NULL
         /\ ToSet(view.bindings) = ToSet(registered)
         /\ V!WithBindings(view, registered) = view
<1>1. view \in ViewType /\ view.bindings # NULL /\ ToSet(view.bindings) = ToSet(registered)
  BY DEF IInv, TypeOK, OInv, CacheSorted
<1>2. view.bindings \in Seq(Observers)
  BY <1>1 DEF ViewType
<1> QED BY <1>1, <1>2 DEF V!WithBindings

LEMMA TickRefines ==
  ASSUME FixedGroups, IInv, OInv, Tick
  PROVE  OInv' /\ UNCHANGED ByGroups!vars
<1>1. run \in RunType /\ run.at = "tick"
  BY DEF IInv, TypeOK, Tick
<1>2. UNCHANGED registered /\ UNCHANGED options /\ UNCHANGED pending /\ UNCHANGED busy /\ UNCHANGED log
  BY DEF Tick
<1>3. PICK s : s = view.bindings
  OBVIOUS
<1>4. /\ s \in Seq(Observers) /\ s # NULL /\ ToSet(s) = ToSet(registered)
      /\ V!WithBindings(view, registered) = view
  BY <1>1, <1>3, CachedBindings
<1>5. PICK at \in {"collect", "resolving"} :
        view' = view /\ run' = [run EXCEPT !.at = at, !.observers = s]
  <2>1. CASE /\ view.values # NULL
             /\ run' = [run EXCEPT !.at = "collect", !.observers = V!CachedValues(view)]
             /\ UNCHANGED view
    <3>1. V!CachedValues(view) = s
      BY <1>3, <2>1 DEF OInv, CacheSorted
    <3> QED BY <2>1, <3>1
  <2>2. CASE /\ view' = V!WithBindings(view, registered)
             /\ run' = [run EXCEPT !.at = "resolving", !.observers = ValuesOf(view'.bindings)]
    <3>1. view' = view /\ view'.bindings = s
      BY <1>3, <1>4, <2>2
    <3>2. ValuesOf(s) = s
      BY <1>4, AllResolved DEF FixedGroups
    <3> QED BY <2>2, <3>1, <3>2
  <2> QED BY <2>1, <2>2 DEF Tick
<1>6. /\ run'.at = at /\ run'.observers = s /\ run'.groups = run.groups
      /\ run'.members = run.members /\ run'.event = run.event
  BY <1>1, <1>5 DEF RunType
<1>7. CacheSorted'
  BY <1>1, <1>2, <1>5, CacheStaysSorted
<1>8. ObserversFound'
  BY <1>1, <1>2, <1>3, <1>5, <1>6 DEF OInv, ObserversFound
<1>9. GroupsInOrder' /\ Covered' /\ MembersNext'
  BY <1>1, <1>2, <1>5, <1>6, CourseStays
<1>10. UNCHANGED ByGroups!vars
  BY <1>1, <1>2, <1>5, <1>6, Stutters DEF Over
<1> QED BY <1>7, <1>8, <1>9, <1>10 DEF OInv

LEMMA NothingHappened ==
  ASSUME OInv, IInv, UNCHANGED registered, UNCHANGED options, UNCHANGED log, UNCHANGED busy,
         run.at \in {"resolving", "collect"}, run'.at = "failed", run'.event = run.event
  PROVE  ByGroups!Next
<1>1. ToSet(log) = {} /\ Wanted' = Wanted /\ Ranks' = Ranks
  <2>1. log = <<>>
    BY DEF IInv, NotYet
  <2> QED BY <2>1, SameObservers DEF ToSet
<1>2. ~Over /\ Over'
  BY DEF Over
<1>3. ByGroups!Fail
  BY <1>1, <1>2 DEF ByGroups!Fail, Wanted, Ranks
<1> QED BY <1>3 DEF ByGroups!Next

LEMMA ResolvedRefines ==
  ASSUME FixedGroups, IInv, OInv, Resolved
  PROVE  OInv' /\ (ByGroups!Next \/ UNCHANGED ByGroups!vars)
<1>1. run \in RunType /\ run.at = "resolving"
  BY DEF IInv, TypeOK, Resolved
<1>2. UNCHANGED registered /\ UNCHANGED options /\ UNCHANGED pending /\ UNCHANGED busy /\ UNCHANGED log
  BY DEF Resolved
<1>3. PICK s : s = view.bindings
  OBVIOUS
<1>4. /\ view \in ViewType /\ s \in Seq(Observers) /\ s # NULL /\ ToSet(s) = ToSet(registered)
      /\ run.observers = s
  BY <1>1, <1>3, CachedBindings DEF OInv, ObserversFound
<1>5. CASE view' = V!WithValues(view, run.observers) /\ run' = [run EXCEPT !.at = "collect"]
  <2>1. /\ run'.at = "collect" /\ run'.observers = run.observers /\ run'.groups = run.groups
        /\ run'.members = run.members /\ run'.event = run.event
    BY <1>1, <1>5 DEF RunType
  <2>2. PICK pairs : pairs = [i \in DOMAIN s |->
           [binding |-> s[i], value |-> IF i \in DOMAIN s THEN s[i] ELSE NULL]]
    OBVIOUS
  <2>3. view' = [view EXCEPT !.values = pairs]
    BY <1>3, <1>4, <1>5, <2>2 DEF V!WithValues
  <2>4. view'.values = pairs /\ view'.bindings = s
    BY <1>3, <1>4, <2>3 DEF ViewType
  <2>5. V!CachedValues(view') = s
    <3>1. V!CachedValues(view') = [i \in DOMAIN pairs |-> pairs[i].value]
      BY <2>4 DEF V!CachedValues
    <3>2. DOMAIN pairs = DOMAIN s /\ \A i \in DOMAIN s : pairs[i].value = s[i]
      BY <2>2
    <3>3. s = [i \in DOMAIN s |-> s[i]]
      BY <1>4
    <3> QED BY <3>1, <3>2, <3>3
  <2>6. CacheSorted'
    <3>1. \A g, h : Difference(g, h)' = Difference(g, h)
      BY <1>2, SameWorld
    <3>2. InGroupOrder(s)
      BY <1>3, <1>4 DEF OInv, CacheSorted
    <3>3. InGroupOrder(s)'
      BY <3>1, <3>2 DEF InGroupOrder
    <3>4. pending' = 0
      BY <1>2 DEF OInv, CacheSorted
    <3> QED BY <1>2, <1>4, <2>4, <2>5, <3>3, <3>4 DEF CacheSorted
  <2>7. ObserversFound'
    BY <1>1, <1>2, <1>4, <2>1, <2>4 DEF OInv, ObserversFound
  <2>8. GroupsInOrder' /\ Covered' /\ MembersNext'
    BY <1>1, <1>2, <2>1, CourseStays
  <2>9. UNCHANGED ByGroups!vars
    BY <1>1, <1>2, <2>1, Stutters DEF Over
  <2> QED BY <2>6, <2>7, <2>8, <2>9 DEF OInv
<1>6. CASE run' = [run EXCEPT !.at = "failed"] /\ UNCHANGED view
  <2>1. /\ run'.at = "failed" /\ run'.groups = run.groups
        /\ run'.members = run.members /\ run'.event = run.event
    BY <1>1, <1>6 DEF RunType
  <2>2. CacheSorted'
    BY <1>1, <1>2, <1>6, CacheStaysSorted
  <2>3. ObserversFound'
    BY <2>1 DEF ObserversFound
  <2>4. GroupsInOrder' /\ Covered' /\ MembersNext'
    BY <1>1, <1>2, <2>1, CourseStays
  <2>5. ByGroups!Next
    BY <1>1, <1>2, <2>1, NothingHappened
  <2> QED BY <2>2, <2>3, <2>4, <2>5 DEF OInv
<1> QED BY <1>5, <1>6 DEF Resolved

(* An operation with nobody left to notify ends.                           *)
LEMMA Finishes ==
  ASSUME UNCHANGED registered, UNCHANGED options, UNCHANGED log, UNCHANGED busy,
         busy = {}, ~Over, run'.at = "done", run'.event = run.event,
         \A o \in ToSet(registered) : Enabled(o) => o \in ToSet(log)
  PROVE  ByGroups!Next
<1>1. Wanted' = Wanted /\ Ranks' = Ranks /\ Over' /\ Wanted \ ToSet(log) = {}
  BY SameObservers DEF Over, Wanted
<1>2. ByGroups!Finish
  BY <1>1 DEF ByGroups!Finish, Wanted, Ranks
<1> QED BY <1>2 DEF ByGroups!Next

LEMMA CollectRefines ==
  ASSUME FixedGroups, IInv, OInv, Collect
  PROVE  OInv' /\ (ByGroups!Next \/ UNCHANGED ByGroups!vars)
<1>1. run \in RunType /\ run.at = "collect"
  BY DEF IInv, TypeOK, Collect
<1>2. UNCHANGED registered /\ UNCHANGED options /\ UNCHANGED pending /\ UNCHANGED busy /\ UNCHANGED log
  BY DEF Collect
<1>3. view' = view /\ ToSet(view.bindings) = ToSet(registered) /\ run.observers = view.bindings
  BY <1>1, CachedBindings DEF Collect, OInv, ObserversFound
<1>4. PICK at \in {"done", "failed", "group"} :
        /\ run' = [run EXCEPT !.bindings = view.bindings, !.at = at]
        /\ at = "done" => run.observers = <<>>
  BY <1>3 DEF Collect
<1>5. /\ run'.at = at /\ run'.observers = run.observers /\ run'.groups = run.groups
      /\ run'.members = run.members /\ run'.event = run.event /\ run'.bindings = view.bindings
  BY <1>1, <1>4 DEF RunType
<1>6. CacheSorted'
  BY <1>1, <1>2, <1>3, CacheStaysSorted
<1>7. busy = {}
  BY <1>1 DEF OInv, ObserversFound
<1>8. ObserversFound'
  BY <1>2, <1>3, <1>4, <1>5, <1>7 DEF ObserversFound
<1>9. GroupsInOrder' /\ Covered' /\ MembersNext'
  BY <1>1, <1>2, <1>4, <1>5, CourseStays
<1>10. ByGroups!Next \/ UNCHANGED ByGroups!vars
  <2>1. CASE at = "done"
    <3>1. ToSet(registered) = {}
      BY <1>3, <1>4, <2>1 DEF ToSet
    <3> QED BY <1>1, <1>2, <1>5, <1>7, <2>1, <3>1, Finishes DEF Over
  <2>2. CASE at = "failed"
    BY <1>1, <1>2, <1>5, <2>2, NothingHappened
  <2>3. CASE at = "group"
    BY <1>1, <1>2, <1>5, <2>3, Stutters DEF Over
  <2> QED BY <1>4, <2>1, <2>2, <2>3
<1> QED BY <1>6, <1>8, <1>9, <1>10 DEF OInv

LEMMA FinishRefines ==
  ASSUME FixedGroups, IInv, OInv, Finish
  PROVE  OInv' /\ ByGroups!Next
<1>1. run \in RunType /\ run.at = "group" /\ run.groups = <<>>
  BY DEF IInv, TypeOK, Finish
<1>2. UNCHANGED registered /\ UNCHANGED options /\ UNCHANGED pending /\ UNCHANGED busy
      /\ UNCHANGED log /\ UNCHANGED view
  BY DEF Finish
<1>3. /\ run'.at = "done" /\ run'.groups = run.groups
      /\ run'.members = run.members /\ run'.event = run.event
  BY <1>1 DEF Finish, RunType
<1>4. CacheSorted'
  BY <1>1, <1>2, CacheStaysSorted
<1>5. busy = {}
  BY <1>1 DEF OInv, ObserversFound
<1>6. ObserversFound'
  BY <1>2, <1>3, <1>5 DEF ObserversFound
<1>7. GroupsInOrder' /\ Covered' /\ MembersNext'
  BY <1>1, <1>2, <1>3, CourseStays
<1>8. \A o \in ToSet(registered) : Enabled(o) => o \in ToSet(log)
  <2>1. \A o : ~ToCome(o)
    BY <1>1 DEF ToCome
  <2> QED BY <1>1, <2>1 DEF OInv, Covered
<1>9. ByGroups!Next
  BY <1>1, <1>2, <1>3, <1>5, <1>8, Finishes DEF Over
<1> QED BY <1>4, <1>6, <1>7, <1>9 DEF OInv

(* What is to come and not in the next group is still to come after it.    *)
LEMMA StillToCome ==
  ASSUME run \in RunType, run.groups # <<>>, run'.groups = Tail(run.groups),
         NEW b, ToCome(b), b \notin ToSet(Head(run.groups).bindings)
  PROVE  ToCome(b)'
<1>1. PICK gs \in Seq(GroupType) : gs = run.groups
  BY DEF RunType
<1>2. PICK k \in 1..Len(gs) : b \in ToSet(gs[k].bindings)
  BY <1>1 DEF ToCome
<1>3. /\ Head(gs) = gs[1] /\ Len(gs) \in Nat /\ Len(Tail(gs)) + 1 = Len(gs)
      /\ Tail(gs) \in Seq(GroupType)
      /\ \A i \in 1..Len(Tail(gs)) : Tail(gs)[i] = gs[i + 1]
  BY <1>1, TailDrops
<1>4. k # 1 /\ Len(Tail(gs)) \in Nat
  BY <1>1, <1>2, <1>3
<1>5. k - 1 \in 1..Len(Tail(gs)) /\ (k - 1) + 1 = k
  BY <1>3, <1>4
<1>6. Tail(gs)[k - 1] = gs[k]
  BY <1>3, <1>5
<1> QED BY <1>1, <1>2, <1>5, <1>6 DEF ToCome

LEMMA SkipGroupRefines ==
  ASSUME FixedGroups, IInv, OInv, SkipGroup
  PROVE  OInv' /\ UNCHANGED ByGroups!vars
<1>1. run \in RunType /\ run.at = "group" /\ run.groups # <<>> /\ run.groups \in Seq(GroupType)
  BY DEF IInv, TypeOK, SkipGroup, RunType
<1>2. UNCHANGED registered /\ UNCHANGED options /\ UNCHANGED pending /\ UNCHANGED busy
      /\ UNCHANGED log /\ UNCHANGED view
  BY DEF SkipGroup
<1>3. /\ run'.at = "group" /\ run'.groups = Tail(run.groups)
      /\ run'.observers = run.observers /\ run'.bindings = run.bindings
      /\ run'.members = run.members /\ run'.event = run.event
  BY <1>1 DEF SkipGroup, RunType
<1>4. CacheSorted'
  BY <1>1, <1>2, CacheStaysSorted
<1>5. ObserversFound'
  BY <1>1, <1>2, <1>3 DEF OInv, ObserversFound
<1>6. GroupsInOrder'
  BY <1>1, <1>2, <1>3, GroupsKeepOrder
<1>7. ASSUME NEW o \in ToSet(registered), Enabled(o)
      PROVE  o \in ToSet(log) \/ ToCome(o)'
  <2>1. SUFFICES ASSUME ToCome(o) PROVE ToCome(o)'
    BY <1>1, <1>7 DEF OInv, Covered
  <2>2. o \in Observers
    BY DEF IInv, TypeOK, ToSet
  <2>3. o \notin ToSet(Head(run.groups).bindings)
    <3>1. PICK k \in 1..Len(run.groups) : k = 1 /\ run.groups[k] = Head(run.groups)
      BY <1>1, TailDrops
    <3>2. o \in ToSet(Head(run.groups).bindings) => Group(o) = Head(run.groups).group
      BY <3>1 DEF OInv, GroupsInOrder
    <3> QED BY <1>7, <3>2 DEF SkipGroup, Enabled
  <2> QED BY <1>1, <1>3, <2>1, <2>3, StillToCome
<1>8. Covered'
  <2>1. \A o : Enabled(o)' = Enabled(o)
    BY <1>2, SameWorld
  <2> QED BY <1>2, <1>7, <2>1 DEF Covered
<1>9. MembersNext'
  BY <1>3 DEF MembersNext
<1>10. UNCHANGED ByGroups!vars
  BY <1>1, <1>2, <1>3, Stutters DEF Over
<1> QED BY <1>4, <1>5, <1>6, <1>8, <1>9, <1>10 DEF OInv

LEMMA GroupNotifiedRefines ==
  ASSUME FixedGroups, IInv, OInv, GroupNotified
  PROVE  OInv' /\ UNCHANGED ByGroups!vars
<1>1. run \in RunType /\ run.at = "parallel" /\ busy = {}
  BY DEF IInv, TypeOK, GroupNotified
<1>2. UNCHANGED registered /\ UNCHANGED options /\ UNCHANGED pending /\ UNCHANGED busy
      /\ UNCHANGED log /\ UNCHANGED view
  BY DEF GroupNotified
<1>3. /\ run'.at = "group" /\ run'.groups = run.groups
      /\ run'.observers = run.observers /\ run'.bindings = run.bindings
      /\ run'.members = run.members /\ run'.event = run.event
  BY <1>1 DEF GroupNotified, RunType
<1>4. CacheSorted'
  BY <1>1, <1>2, CacheStaysSorted
<1>5. ObserversFound'
  BY <1>1, <1>2, <1>3 DEF OInv, ObserversFound
<1>6. GroupsInOrder' /\ Covered' /\ MembersNext'
  BY <1>1, <1>2, <1>3, CourseStays
<1>7. UNCHANGED ByGroups!vars
  BY <1>1, <1>2, <1>3, Stutters DEF Over
<1> QED BY <1>4, <1>5, <1>6, <1>7 DEF OInv

(* The members of the next group are its bindings: each is at its place    *)
(* among the observers.                                                    *)
LEMMA MembersOfNext ==
  ASSUME FixedGroups, IInv, OInv, run.at = "group", run.groups # <<>>
  PROVE  /\ Members(Head(run.groups)) = Head(run.groups).bindings
         /\ Head(run.groups).bindings \in Seq(Observers)
         /\ \A o \in ToSet(Head(run.groups).bindings) :
              /\ o \in Observers /\ o \in ToSet(registered) /\ ToCome(o)
              /\ Group(o) = Head(run.groups).group
              /\ o \notin ToSet(log)
<1>1. run \in RunType /\ run.groups \in Seq(GroupType)
  BY DEF IInv, TypeOK, RunType
<1>2. PICK g \in GroupType : g = Head(run.groups)
  BY <1>1, HeadToCome
<1>3. PICK s \in Seq(Observers) : s = view.bindings
  BY CachedBindings
<1>4. /\ run.observers = s /\ run.bindings = s /\ ToSet(s) = ToSet(registered)
  BY <1>3, CachedBindings DEF OInv, ObserversFound
<1>5. ASSUME NEW o \in ToSet(registered)
      PROVE  ObserverOf(o) = o /\ o \in Observers /\ o # NULL
  <2>1. PICK i \in 1..Len(s) : s[i] = o
    BY <1>4 DEF ToSet
  <2>2. IndexOf(s, o) \in 1..Len(s) /\ s[IndexOf(s, o)] = o
    <3>1. Len(s) \in Nat
      OBVIOUS
    <3> QED BY <2>1, <3>1, IndexOfFinds
  <2>3. DOMAIN s = 1..Len(s) /\ s[i] \in Observers
    OBVIOUS
  <2>4. ObserverOf(o) = o
    BY <1>4, <2>2, <2>3 DEF ObserverOf
  <2> QED BY <2>1, <2>3, <2>4, ObserversAssumption
<1>6. ASSUME NEW o \in ToSet(g.bindings)
      PROVE  o \in ToSet(registered) /\ Group(o) = g.group /\ ToCome(o)
  <2>1. PICK k \in 1..Len(run.groups) : k = 1 /\ run.groups[k] = g
    BY <1>1, <1>2, TailDrops
  <2>2. o \in ToSet(registered) /\ Group(o) = g.group
    BY <2>1 DEF OInv, GroupsInOrder
  <2> QED BY <2>1, <2>2 DEF ToCome
<1>7. \A o \in ToSet(g.bindings) : o \notin ToSet(log)
  <2> SUFFICES ASSUME NEW o \in ToSet(g.bindings) PROVE o \notin ToSet(log)
    OBVIOUS
  <2>1. o \in Observers /\ ToCome(o) /\ ObserverOf(o) = o /\ o # NULL
    BY <1>5, <1>6
  <2> QED BY <2>1 DEF IInv, NotYet
<1>8. PICK t \in Seq(Observers) : t = g.bindings
  BY DEF GroupType
<1>9. /\ DOMAIN t = 1..Len(t) /\ t = [k \in 1..Len(t) |-> t[k]]
      /\ \A k \in 1..Len(t) : t[k] \in ToSet(t)
  BY DEF ToSet
<1>10. Members(g) = t
  <2>1. Members(g) = [k \in 1..Len(t) |-> ObserverOf(t[k])]
    BY <1>8, <1>9 DEF Members
  <2>2. \A k \in 1..Len(t) : ObserverOf(t[k]) = t[k]
    BY <1>5, <1>6, <1>8, <1>9
  <2> QED BY <1>9, <2>1, <2>2
<1> QED BY <1>2, <1>5, <1>6, <1>7, <1>8, <1>10

(* Some observers, of the group that is next, are notified.                *)
LEMMA NotifiesNext ==
  ASSUME TypeOK, UNCHANGED registered, UNCHANGED options, run'.event = run.event,
         ~Over, ~Over', busy = {}, log \in Seq(Observers),
         NEW S, S # {}, busy' = S, ToSet(log') = ToSet(log) \cup S,
         \A o \in S : o \in ToSet(registered) /\ Enabled(o) /\ o \notin ToSet(log),
         \A o \in S : \A p \in ToSet(registered) : Enabled(p) /\ p \notin ToSet(log) =>
           Group(p) = Group(o) \/ ComesFirst(Group(o), Group(p))
  PROVE  ByGroups!Next
<1>1. \A o \in ToSet(registered) : o \in Observers
  BY DEF TypeOK, ToSet
<1>2. \A o \in S, p \in Wanted \ ToSet(log) : ~ByGroups!Earlier(Ranks[p], Ranks[o])
  BY <1>1, NotBefore DEF Wanted
<1>3. Wanted' = Wanted /\ Ranks' = Ranks
  BY SameObservers
<1>4. S \in SUBSET (Wanted \ ToSet(log))
  BY DEF Wanted
<1>5. Wanted' \ ToSet(log') = (Wanted \ ToSet(log)) \ S
  BY <1>3
<1>6. ByGroups!Notify(S)
  BY <1>2, <1>3, <1>4, <1>5 DEF ByGroups!Notify, Wanted, Ranks
<1> QED BY <1>4, <1>6 DEF ByGroups!Next, Wanted

(* Whoever is left is in the next group or in a later one.                 *)
LEMMA NextIsFirst ==
  ASSUME IInv, OInv, run.at = "group", run.groups # <<>>,
         NEW p \in ToSet(registered), Enabled(p), p \notin ToSet(log)
  PROVE  \/ p \in ToSet(Head(run.groups).bindings) /\ Group(p) = Head(run.groups).group
         \/ ComesFirst(Head(run.groups).group, Group(p))
<1>1. p \in Observers /\ run \in RunType
  BY DEF IInv, TypeOK, ToSet
<1>2. ToCome(p)
  BY DEF OInv, Covered
<1> QED BY <1>1, <1>2, ComesLater

LEMMA NotifyParallelRefines ==
  ASSUME FixedGroups, IInv, OInv, NotifyParallel
  PROVE  OInv' /\ (ByGroups!Next \/ UNCHANGED ByGroups!vars)
<1>1. run \in RunType /\ run.at = "group" /\ run.groups # <<>> /\ run.groups \in Seq(GroupType)
      /\ log \in Seq(Observers)
  BY DEF IInv, TypeOK, NotifyParallel, RunType
<1>2. UNCHANGED registered /\ UNCHANGED options /\ UNCHANGED pending /\ UNCHANGED view
      /\ Head(run.groups).group \notin options.disabledGroups
  BY DEF NotifyParallel
<1>3. PICK s \in Seq(Observers) : s = Head(run.groups).bindings
  BY <1>1, MembersOfNext
<1>4. /\ Members(Head(run.groups)) = s
      /\ \A o \in ToSet(s) :
              /\ o \in Observers /\ o \in ToSet(registered) /\ ToCome(o)
              /\ Group(o) = Head(run.groups).group
              /\ o \notin ToSet(log)
  BY <1>1, <1>3, MembersOfNext
<1>5. /\ DOMAIN s = 1..Len(s)
      /\ \A k \in 1..Len(s) : s[k] \in ToSet(s) /\ s[k] # NULL
      /\ NULL \notin ToSet(s)
  <2>1. DOMAIN s = 1..Len(s) /\ \A k \in 1..Len(s) : s[k] \in Observers
    OBVIOUS
  <2>2. \A k \in 1..Len(s) : s[k] # NULL
    BY <2>1, ObserversAssumption
  <2> QED BY <1>4, <2>1, <2>2, ObserversAssumption DEF ToSet
<1>6. Filtered(s, {k \in DOMAIN s : s[k] # NULL}) = s
  <2>1. {k \in DOMAIN s : s[k] # NULL} = 1..Len(s)
    BY <1>5
  <2> QED BY <2>1, FilteredAll
<1>7. /\ log' = log \o s /\ busy' = busy \cup ToSet(s)
      /\ run' = [run EXCEPT !.at = "parallel", !.groups = Tail(@)]
  BY <1>4, <1>5, <1>6 DEF NotifyParallel
<1>8. /\ run'.at = "parallel" /\ run'.groups = Tail(run.groups)
      /\ run'.observers = run.observers /\ run'.bindings = run.bindings
      /\ run'.members = run.members /\ run'.event = run.event
  BY <1>1, <1>7 DEF RunType
<1>9. ToSet(log') = ToSet(log) \cup ToSet(s)
  BY <1>1, <1>7, ConcatAdds
<1>10. CacheSorted'
  BY <1>1, <1>2, CacheStaysSorted
<1>11. busy = {}
  BY <1>1 DEF OInv, ObserversFound
<1>12. ObserversFound'
  BY <1>1, <1>2, <1>8 DEF OInv, ObserversFound
<1>13. GroupsInOrder'
  BY <1>1, <1>2, <1>8, GroupsKeepOrder
<1>14. ASSUME NEW o \in ToSet(registered), Enabled(o)
       PROVE  o \in ToSet(log') \/ ToCome(o)'
  <2>1. SUFFICES ASSUME ToCome(o), o \notin ToSet(s) PROVE ToCome(o)'
    BY <1>1, <1>9, <1>14 DEF OInv, Covered
  <2> QED BY <1>1, <1>3, <1>8, <2>1, StillToCome
<1>15. Covered'
  <2>1. \A o : Enabled(o)' = Enabled(o)
    BY <1>2, SameWorld
  <2> QED BY <1>2, <1>14, <2>1 DEF Covered
<1>16. MembersNext'
  BY <1>8 DEF MembersNext
<1>17. ByGroups!Next \/ UNCHANGED ByGroups!vars
  <2>1. ~Over /\ ~Over'
    BY <1>1, <1>8 DEF Over
  <2>2. CASE ToSet(s) = {}
    <3>1. UNCHANGED busy /\ ToSet(log') = ToSet(log)
      BY <1>7, <1>9, <2>2
    <3> QED BY <1>2, <1>8, <2>1, <3>1, Stutters
  <2>3. CASE ToSet(s) # {}
    <3>1. \A o \in ToSet(s) : o \in ToSet(registered) /\ Enabled(o) /\ o \notin ToSet(log)
      BY <1>2, <1>4 DEF Enabled, FixedGroups
    <3>2. \A o \in ToSet(s) : \A p \in ToSet(registered) : Enabled(p) /\ p \notin ToSet(log) =>
            Group(p) = Group(o) \/ ComesFirst(Group(o), Group(p))
      BY <1>1, <1>4, NextIsFirst
    <3>3. busy' = ToSet(s)
      BY <1>7, <1>11
    <3>4. TypeOK
      BY DEF IInv
    <3>5. PICK S : S = ToSet(s)
      OBVIOUS
    <3>6. /\ S # {} /\ busy' = S /\ ToSet(log') = ToSet(log) \cup S
          /\ \A o \in S : o \in ToSet(registered) /\ Enabled(o) /\ o \notin ToSet(log)
          /\ \A o \in S : \A p \in ToSet(registered) : Enabled(p) /\ p \notin ToSet(log) =>
               Group(p) = Group(o) \/ ComesFirst(Group(o), Group(p))
      BY <1>9, <2>3, <3>1, <3>2, <3>3, <3>5
    <3> QED BY <1>1, <1>2, <1>8, <1>11, <2>1, <3>4, <3>6, NotifiesNext
  <2> QED BY <2>2, <2>3
<1> QED BY <1>10, <1>12, <1>13, <1>15, <1>16, <1>17 DEF OInv

LEMMA EnterGroupRefines ==
  ASSUME FixedGroups, IInv, OInv, EnterGroup
  PROVE  OInv' /\ UNCHANGED ByGroups!vars
<1>1. run \in RunType /\ run.at = "group" /\ run.groups # <<>> /\ run.groups \in Seq(GroupType)
  BY DEF IInv, TypeOK, EnterGroup, RunType
<1>2. UNCHANGED registered /\ UNCHANGED options /\ UNCHANGED pending /\ UNCHANGED view
      /\ UNCHANGED log /\ UNCHANGED busy
      /\ Head(run.groups).group \notin options.disabledGroups
  BY DEF EnterGroup
<1>3. PICK s \in Seq(Observers) : s = Head(run.groups).bindings
  BY <1>1, MembersOfNext
<1>4. /\ Members(Head(run.groups)) = s
      /\ \A o \in ToSet(s) :
              /\ o \in Observers /\ o \in ToSet(registered) /\ ToCome(o)
              /\ Group(o) = Head(run.groups).group
              /\ o \notin ToSet(log)
  BY <1>1, <1>3, MembersOfNext
<1>5. /\ run'.at = "serial" /\ run'.groups = Tail(run.groups) /\ run'.members = s
      /\ run'.observers = run.observers /\ run'.bindings = run.bindings
      /\ run'.event = run.event
  BY <1>1, <1>4 DEF EnterGroup, RunType
<1>6. CacheSorted'
  BY <1>1, <1>2, CacheStaysSorted
<1>7. ObserversFound'
  BY <1>1, <1>2, <1>5 DEF OInv, ObserversFound
<1>8. GroupsInOrder'
  BY <1>1, <1>2, <1>5, GroupsKeepOrder
<1>9. \A o : Enabled(o)' = Enabled(o) /\ Group(o)' = Group(o)
  BY <1>2, SameWorld
<1>10. ASSUME NEW o \in ToSet(registered), Enabled(o)
       PROVE  o \in ToSet(log) \/ ToCome(o)' \/ o \in ToSet(s)
  <2>1. SUFFICES ASSUME ToCome(o), o \notin ToSet(s) PROVE ToCome(o)'
    BY <1>1, <1>10 DEF OInv, Covered
  <2> QED BY <1>1, <1>3, <1>5, <2>1, StillToCome
<1>11. Covered'
  BY <1>2, <1>5, <1>9, <1>10 DEF Covered
<1>12. MembersNext'
  <2>1. \A i \in 1..Len(s) : s[i] \in ToSet(s)
    <3>1. DOMAIN s = 1..Len(s)
      OBVIOUS
    <3> QED BY <3>1 DEF ToSet
  <2>2. \A i \in 1..Len(s) : s[i] \in ToSet(registered) /\ Enabled(s[i])
                             /\ Group(s[i]) = Head(run.groups).group
    BY <1>2, <1>4, <2>1 DEF Enabled, FixedGroups
  <2>3. \A k \in 1..Len(run'.groups) : ComesFirst(Head(run.groups).group, run'.groups[k].group)
    <3>1. PICK gs \in Seq(GroupType) : gs = run.groups
      BY <1>1
    <3>2. /\ Head(gs) = gs[1] /\ 1 \in 1..Len(gs)
          /\ \A k \in 1..Len(Tail(gs)) : k + 1 \in 2..Len(gs) /\ Tail(gs)[k] = gs[k + 1]
      BY <1>1, <3>1, TailDrops
    <3>3. \A k \in 2..Len(gs) : ComesFirst(gs[1].group, gs[k].group)
      BY <3>1, <3>2 DEF OInv, GroupsInOrder
    <3> QED BY <1>5, <3>1, <3>2, <3>3
  <2>4. PICK r, h : r = run'.groups /\ h = Head(run.groups).group
    OBVIOUS
  <2>5. \A k \in 1..Len(r) : ComesFirst(h, r[k].group)'
    <3>1. \A k \in 1..Len(r) : ComesFirst(h, r[k].group)
      BY <2>3, <2>4
    <3> QED BY <1>2, <1>5, <3>1, SameOrder
  <2>6. ASSUME NEW i \in 1..Len(s)
        PROVE  /\ s[i] \in ToSet(registered') /\ Enabled(s[i])'
               /\ \A j \in 1..Len(s) : Group(s[j])' = Group(s[i])'
               /\ \A k \in 1..Len(r) : ComesFirst(Group(s[i]), r[k].group)'
    <3>1. s[i] \in ToSet(registered') /\ Enabled(s[i])'
      BY <1>2, <1>9, <2>2
    <3>2. \A j \in 1..Len(s) : Group(s[j])' = h
      BY <1>9, <2>2, <2>4
    <3>3. \A k \in 1..Len(r) : ComesFirst(Group(s[i]), r[k].group)'
      BY <2>5, <3>2 DEF ComesFirst, Difference
    <3> QED BY <3>1, <3>2, <3>3
  <2> QED BY <1>5, <2>4, <2>6 DEF MembersNext
<1>13. UNCHANGED ByGroups!vars
  BY <1>1, <1>2, <1>5, Stutters DEF Over
<1> QED BY <1>6, <1>7, <1>8, <1>11, <1>12, <1>13 DEF OInv

LEMMA NotifySerialRefines ==
  ASSUME FixedGroups, IInv, OInv, NotifySerial
  PROVE  OInv' /\ (ByGroups!Next \/ UNCHANGED ByGroups!vars)
<1>1. run \in RunType /\ run.at = "serial" /\ busy = {} /\ log \in Seq(Observers)
  BY DEF IInv, TypeOK, NotifySerial
<1>2. UNCHANGED registered /\ UNCHANGED options /\ UNCHANGED pending /\ UNCHANGED view
  BY DEF NotifySerial
<1>3. PICK ms \in Seq(Observers \cup {NULL}) : ms = run.members
  BY <1>1 DEF RunType
<1>4. \A i \in 1..Len(ms) :
        /\ ms[i] \in ToSet(registered) /\ Enabled(ms[i])
        /\ \A j \in 1..Len(ms) : Group(ms[j]) = Group(ms[i])
        /\ \A k \in 1..Len(run.groups) : ComesFirst(Group(ms[i]), run.groups[k].group)
  BY <1>1, <1>3 DEF OInv, MembersNext
<1>5. \A o \in ToSet(registered) : Enabled(o) => o \in ToSet(log) \/ ToCome(o) \/ o \in ToSet(ms)
  BY <1>1, <1>3 DEF OInv, Covered
<1>6. \A o \in ToSet(registered) : o \in Observers
  BY DEF IInv, TypeOK, ToSet
<1>7. CASE /\ run.members = <<>> /\ run' = [run EXCEPT !.at = "group"]
           /\ UNCHANGED <<busy, log>>
  <2>1. /\ run'.at = "group" /\ run'.groups = run.groups
        /\ run'.observers = run.observers /\ run'.bindings = run.bindings
        /\ run'.members = run.members /\ run'.event = run.event
    BY <1>1, <1>7 DEF RunType
  <2>2. CacheSorted'
    BY <1>1, <1>2, CacheStaysSorted
  <2>3. ObserversFound'
    BY <1>1, <1>2, <1>7, <2>1 DEF OInv, ObserversFound
  <2>4. GroupsInOrder'
    BY <1>1, <1>2, <2>1, GroupsKeepOrder
  <2>5. Covered'
    <3>1. ToSet(ms) = {}
      BY <1>3, <1>7 DEF ToSet
    <3>2. \A o : ToCome(o)' = ToCome(o) /\ Enabled(o)' = Enabled(o)
      BY <1>2, <2>1, SameWorld DEF ToCome
    <3> QED BY <1>2, <1>5, <1>7, <3>1, <3>2 DEF Covered
  <2>6. MembersNext'
    BY <2>1 DEF MembersNext
  <2>7. UNCHANGED ByGroups!vars
    BY <1>1, <1>2, <1>7, <2>1, Stutters DEF Over
  <2> QED BY <2>2, <2>3, <2>4, <2>5, <2>6, <2>7 DEF OInv
<1>8. CASE run.members # <<>> /\ Head(run.members) = NULL
  <2>1. NULL = ms[1] /\ 1 \in 1..Len(ms)
    BY <1>3, <1>8, TailDrops
  <2>2. NULL \in Observers
    BY <1>4, <1>6, <2>1
  <2> QED BY <2>2, ObserversAssumption
<1>9. CASE /\ run.members # <<>>
           /\ busy' = {Head(run.members)} /\ log' = Append(log, Head(run.members))
           /\ run' = [run EXCEPT !.members = Tail(@)]
  <2>1. PICK tail : tail = Tail(ms)
    OBVIOUS
  <2>2. /\ tail \in Seq(Observers \cup {NULL}) /\ Head(ms) = ms[1] /\ 1 \in 1..Len(ms)
        /\ Len(ms) \in Nat /\ Len(tail) + 1 = Len(ms)
        /\ \A k \in 1..Len(tail) : k + 1 \in 2..Len(ms) /\ tail[k] = ms[k + 1]
    BY <1>3, <1>9, <2>1, TailDrops
  <2>3. PICK e \in Observers : e = ms[1]
    BY <1>4, <1>6, <2>2
  <2>4. /\ e \in ToSet(registered) /\ Enabled(e)
        /\ \A j \in 1..Len(ms) : Group(ms[j]) = Group(e)
        /\ \A k \in 1..Len(run.groups) : ComesFirst(Group(e), run.groups[k].group)
    BY <1>4, <2>2, <2>3
  <2>5. /\ run'.at = "serial" /\ run'.groups = run.groups /\ run'.members = tail
        /\ run'.observers = run.observers /\ run'.bindings = run.bindings
        /\ run'.event = run.event
    BY <1>1, <1>3, <1>9, <2>1, <2>2 DEF RunType
  <2>6. busy' = {e} /\ log' = Append(log, e)
    BY <1>3, <1>9, <2>2, <2>3
  <2>7. ToSet(log') = ToSet(log) \cup {e}
    BY <1>1, <2>6, AppendAdds
  <2>8. e \notin ToSet(log)
    <3>1. e # NULL
      BY ObserversAssumption
    <3> QED BY <1>3, <2>2, <2>3, <3>1 DEF IInv, NotYet
  <2>9. \A o \in ToSet(ms) : Group(o) = Group(e) /\ (o = e \/ o \in ToSet(tail))
    <3> SUFFICES ASSUME NEW i \in 1..Len(ms)
                 PROVE  Group(ms[i]) = Group(e) /\ (ms[i] = e \/ ms[i] \in ToSet(tail))
      BY DEF ToSet
    <3>1. CASE i = 1
      BY <2>3, <2>4, <3>1
    <3>2. CASE i # 1
      <4>1. i - 1 \in 1..Len(tail) /\ (i - 1) + 1 = i
        BY <2>2, <3>2
      <4>2. tail[i - 1] = ms[i] /\ DOMAIN tail = 1..Len(tail)
        BY <2>2, <4>1
      <4>3. ms[i] \in ToSet(tail)
        BY <4>1, <4>2 DEF ToSet
      <4> QED BY <2>4, <4>3
    <3> QED BY <3>1, <3>2
  <2>10. CacheSorted'
    BY <1>1, <1>2, CacheStaysSorted
  <2>11. ObserversFound'
    BY <1>1, <1>2, <2>5 DEF OInv, ObserversFound
  <2>12. GroupsInOrder'
    BY <1>1, <1>2, <2>5, GroupsKeepOrder
  <2>13. \A o : ToCome(o)' = ToCome(o) /\ Enabled(o)' = Enabled(o) /\ Group(o)' = Group(o)
    BY <1>2, <2>5, SameWorld DEF ToCome
  <2>14. Covered'
    <3>1. \A o \in ToSet(registered) : Enabled(o) =>
            o \in ToSet(log') \/ ToCome(o) \/ o \in ToSet(tail)
      BY <1>5, <2>7, <2>9
    <3> QED BY <1>2, <2>5, <2>13, <3>1 DEF Covered
  <2>15. MembersNext'
    <3>1. PICK gs : gs = run.groups
      OBVIOUS
    <3>2. ASSUME NEW i \in 1..Len(tail)
          PROVE  /\ tail[i] \in ToSet(registered) /\ Enabled(tail[i])
                 /\ \A j \in 1..Len(tail) : Group(tail[j]) = Group(tail[i])
                 /\ \A k \in 1..Len(gs) : ComesFirst(Group(tail[i]), gs[k].group)
      <4>1. \A j \in 1..Len(tail) : j + 1 \in 1..Len(ms) /\ tail[j] = ms[j + 1]
        BY <2>2
      <4> QED BY <1>4, <3>1, <4>1
    <3>3. ASSUME NEW i \in 1..Len(tail)
          PROVE  /\ tail[i] \in ToSet(registered') /\ Enabled(tail[i])'
                 /\ \A j \in 1..Len(tail) : Group(tail[j])' = Group(tail[i])'
                 /\ \A k \in 1..Len(gs) : ComesFirst(Group(tail[i]), gs[k].group)'
      <4>1. Group(tail[i])' = Group(tail[i])
        BY <2>13
      <4>2. \A k \in 1..Len(gs) : ComesFirst(Group(tail[i]), gs[k].group)'
        BY <1>2, <2>5, <3>2, <4>1 DEF ComesFirst, Difference
      <4> QED BY <1>2, <2>13, <3>2, <4>2
    <3>4. run'.groups = gs
      BY <2>5, <3>1
    <3> QED BY <2>5, <3>3, <3>4 DEF MembersNext
  <2>16. ASSUME NEW p \in ToSet(registered), Enabled(p), p \notin ToSet(log)
         PROVE  Group(p) = Group(e) \/ ComesFirst(Group(e), Group(p))
    <3>1. CASE p \in ToSet(ms)
      BY <2>9, <3>1
    <3>2. CASE ToCome(p)
      <4>1. PICK k \in 1..Len(run.groups) : p \in ToSet(run.groups[k].bindings)
        BY <3>2 DEF ToCome
      <4>2. Group(p) = run.groups[k].group
        BY <4>1 DEF OInv, GroupsInOrder
      <4> QED BY <2>4, <4>2
    <3> QED BY <1>5, <2>16, <3>1, <3>2
  <2>17. ByGroups!Next
    <3>1. ~Over /\ ~Over' /\ TypeOK
      BY <1>1, <2>5 DEF Over, IInv
    <3>2. PICK S : S = {e}
      OBVIOUS
    <3>3. /\ S # {} /\ busy' = S /\ ToSet(log') = ToSet(log) \cup S
          /\ \A o \in S : o \in ToSet(registered) /\ Enabled(o) /\ o \notin ToSet(log)
          /\ \A o \in S : \A p \in ToSet(registered) : Enabled(p) /\ p \notin ToSet(log) =>
               Group(p) = Group(o) \/ ComesFirst(Group(o), Group(p))
      BY <2>4, <2>6, <2>7, <2>8, <2>16, <3>2
    <3> QED BY <1>1, <1>2, <2>5, <3>1, <3>3, NotifiesNext
  <2> QED BY <2>10, <2>11, <2>12, <2>14, <2>15, <2>17 DEF OInv
<1> QED BY <1>7, <1>8, <1>9 DEF NotifySerial

LEMMA SettleRefines ==
  ASSUME FixedGroups, IInv, OInv, NEW o \in Observers, Settle(o)
  PROVE  OInv' /\ ByGroups!Next
<1>1. run \in RunType /\ o \in busy /\ busy' = busy \ {o}
  BY DEF IInv, TypeOK, Settle
<1>2. UNCHANGED registered /\ UNCHANGED options /\ UNCHANGED pending /\ UNCHANGED view /\ UNCHANGED log
  BY DEF Settle
<1>3. run.at \in {"parallel", "serial", "failed"}
  BY <1>1 DEF OInv, ObserversFound
<1>4. Wanted' = Wanted /\ Ranks' = Ranks
  BY <1>2, SameObservers
<1>5. CacheSorted'
  BY <1>2, <1>3, CacheStaysSorted
<1>6. CASE UNCHANGED run
  <2>1. ObserversFound'
    BY <1>2, <1>3, <1>6 DEF OInv, ObserversFound
  <2>2. GroupsInOrder'
    BY <1>1, <1>2, <1>6, GroupsKeepOrder
  <2>3. \A x : ToCome(x)' = ToCome(x) /\ Enabled(x)' = Enabled(x) /\ Group(x)' = Group(x)
    BY <1>2, <1>6, SameWorld DEF ToCome
  <2>4. Covered'
    BY <1>2, <1>6, <2>3 DEF OInv, Covered
  <2>5. MembersNext'
    BY <1>2, <1>6 DEF OInv, MembersNext, Enabled, Group, ComesFirst, Difference
  <2>6. ByGroups!Settle(o)
    BY <1>1, <1>2, <1>4, <1>6 DEF ByGroups!Settle, Wanted, Ranks, Over
  <2>7. ByGroups!Next
    BY <1>1, <2>6 DEF ByGroups!Next
  <2> QED BY <1>5, <2>1, <2>2, <2>4, <2>5, <2>7 DEF OInv
<1>7. CASE run' = [run EXCEPT !.at = "failed"]
  <2>1. /\ run'.at = "failed" /\ run'.groups = run.groups /\ run'.event = run.event
    BY <1>1, <1>7 DEF RunType
  <2>2. ObserversFound' /\ Covered' /\ MembersNext'
    BY <2>1 DEF ObserversFound, Covered, MembersNext
  <2>3. GroupsInOrder'
    BY <1>1, <1>2, <2>1, GroupsKeepOrder
  <2>4. Over'
    BY <2>1 DEF Over
  <2>5. ByGroups!Reject(o)
    BY <1>1, <1>2, <1>4, <2>1, <2>4 DEF ByGroups!Reject, Wanted, Ranks
  <2>6. ByGroups!Next
    BY <1>1, <2>5 DEF ByGroups!Next
  <2> QED BY <1>5, <2>2, <2>3, <2>6 DEF OInv
<1> QED BY <1>6, <1>7 DEF Settle

LEMMA UnchangedRefines ==
  ASSUME OInv, UNCHANGED vars
  PROVE  OInv' /\ UNCHANGED ByGroups!vars
<1>1. CacheSorted' /\ ObserversFound'
  BY DEF vars, OInv, CacheSorted, ObserversFound, InGroupOrder, Difference, V!CachedValues
<1>2. GroupsInOrder'
  BY DEF vars, OInv, GroupsInOrder, Group, ComesFirst, Difference
<1>3. Covered' /\ MembersNext'
  BY DEF vars, OInv, Covered, MembersNext, ToCome, Enabled, Group, ComesFirst, Difference
<1>4. UNCHANGED ByGroups!vars
  BY Stutters DEF vars, Over
<1> QED BY <1>1, <1>2, <1>3, <1>4 DEF OInv

LEMMA InitOInv ==
  ASSUME Init
  PROVE  OInv /\ ByGroups!Init
<1>1. /\ view.bindings = NULL /\ view.values = NULL /\ pending = 0 /\ busy = {} /\ log = <<>>
      /\ run.at = "idle" /\ run.groups = <<>>
  BY DEF Init, V!Refreshed, Idle
<1>2. OInv
  BY <1>1 DEF OInv, CacheSorted, ObserversFound, GroupsInOrder, Covered, MembersNext
<1>3. ToSet(log) = {} /\ Over
  BY <1>1 DEF ToSet, Over
<1>4. ByGroups!Init
  BY <1>1, <1>3 DEF ByGroups!Init
<1> QED BY <1>2, <1>4

LEMMA NextOInv ==
  ASSUME FixedGroups
  PROVE  IInv /\ OInv /\ [Next]_vars => OInv' /\ [ByGroups!Next]_(ByGroups!vars)
<1> SUFFICES ASSUME IInv, OInv, [Next]_vars
             PROVE  OInv' /\ (ByGroups!Next \/ UNCHANGED ByGroups!vars)
  OBVIOUS
<1>1. CASE \E o \in Observers : Bind(o) \/ Unbind(o) \/ Settle(o)
  BY <1>1, AroundRefines, SettleRefines
<1>2. CASE Notify \/ \E order \in Orders : SetOrderedGroups(order)
  BY <1>2, AroundRefines
<1>3. CASE \E event \in Events : Begin(event)
  BY <1>3, BeginRefines
<1>4. CASE Step
  <2>1. CASE Tick \/ Resolved \/ Collect
    BY <2>1, TickRefines, ResolvedRefines, CollectRefines
  <2>2. CASE Finish \/ SkipGroup \/ GroupNotified \/ EnterGroup
    BY <2>2, FinishRefines, SkipGroupRefines, GroupNotifiedRefines, EnterGroupRefines
  <2>3. CASE NotifyParallel \/ NotifySerial
    BY <2>3, NotifyParallelRefines, NotifySerialRefines
  <2> QED BY <1>4, <2>1, <2>2, <2>3 DEF Step
<1>5. CASE UNCHANGED vars
  BY <1>5, UnchangedRefines
<1> QED BY <1>1, <1>2, <1>3, <1>4, <1>5 DEF Next

(* The registry implements GroupNotification as long as neither bindings   *)
(* nor the order of groups change, no binding resolves to null, and        *)
(* getObserverGroup names the group tag by which the bindings are sorted:  *)
(* everybody is notified, group by group, in reverse order for stop.       *)
THEOREM RegistryNotifiesByGroups ==
  ASSUME FixedGroups
  PROVE  Spec => NotifiesByGroups
<1>1. Init => OInv /\ ByGroups!Init
  BY InitOInv
<1>2. IInv /\ OInv /\ [Next]_vars => OInv' /\ [ByGroups!Next]_(ByGroups!vars)
  BY NextOInv
<1> QED BY <1>1, <1>2, InitIInv, NextIInv, PTL DEF Spec, NotifiesByGroups, ByGroups!Spec

=============================================================================
