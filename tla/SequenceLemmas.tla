--------------------------- MODULE SequenceLemmas ---------------------------
(***************************************************************************)
(* What the proofs of several components need to know of sequences that    *)
(* stand for JavaScript arrays and Sets: least indices, removal of an      *)
(* element, and what is left behind a position.                            *)
(***************************************************************************)
EXTENDS ArrayMethods, SequenceTheorems, FiniteSetTheorems, NaturalsInduction,
        WellFoundedInduction, TLAPS

(* A set of numbers has a least one.                                       *)
LEMMA LeastOf ==
  ASSUME NEW T, T \subseteq Nat, T # {}
  PROVE  \E x \in T : \A y \in T : x <= y
<1>1. PICK R : IsWellFoundedOn(R, Nat) /\ R = {ss \in Nat \X Nat : ss[1] < ss[2]}
  BY NatLessThanWellFounded DEF OpToRel
<1>2. PICK x \in T : \A y \in T : ~ (<<y, x>> \in R)
  BY <1>1, WFMin
<1>3. ASSUME NEW y \in T
      PROVE  x <= y
  <2>1. x \in Nat /\ y \in Nat
    OBVIOUS
  <2>2. ~(y < x)
    BY <1>1, <1>2, <2>1
  <2> QED BY <2>1, <2>2
<1> QED BY <1>3

(* A set of positions that is not empty has a least and a greatest one.    *)
LEMMA LeastAndGreatest ==
  ASSUME NEW n \in Nat, NEW S \in SUBSET (1..n), S # {}
  PROVE  /\ Min(S) \in S /\ \A y \in S : Min(S) <= y
         /\ Max(S) \in S /\ \A y \in S : y <= Max(S)
<1>1. Min(S) \in S /\ \A y \in S : Min(S) <= y
  <2>1. S \subseteq Nat
    OBVIOUS
  <2>2. \E x \in S : \A y \in S : x <= y
    BY <2>1, LeastOf
  <2> QED BY <2>2 DEF Min
<1>2. Max(S) \in S /\ \A y \in S : y <= Max(S)
  <2> DEFINE T == {n - x : x \in S}
  <2>1. T \subseteq Nat /\ T # {}
    <3>1. \A x \in S : x \in 1..n
      OBVIOUS
    <3>2. \A x \in S : n - x \in Nat
      BY <3>1
    <3> QED BY <3>2
  <2>2. PICK t \in T : \A y \in T : t <= y
    BY <2>1, LeastOf
  <2>3. PICK x \in S : t = n - x
    BY <2>2
  <2>4. ASSUME NEW y \in S
        PROVE  x >= y
    <3>1. n - y \in T
      OBVIOUS
    <3>2. n - x <= n - y
      BY <2>2, <2>3, <3>1
    <3> QED BY <3>2
  <2>5. Max(S) \in S /\ \A y \in S : Max(S) >= y
    BY <2>4 DEF Max
  <2> QED BY <2>5
<1> QED BY <1>1, <1>2

(* What comes behind position k of a sequence.                             *)
LEMMA BehindPosition ==
  ASSUME NEW S, NEW s \in Seq(S), NEW k \in 1..Len(s)
  PROVE  /\ SubSeq(s, k + 1, Len(s)) \in Seq(S)
         /\ Len(SubSeq(s, k + 1, Len(s))) = Len(s) - k
         /\ \A i \in 1..(Len(s) - k) : SubSeq(s, k + 1, Len(s))[i] = s[k + i]
BY SMT

(* A prefix of a sequence.                                                 *)
LEMMA UpToPosition ==
  ASSUME NEW S, NEW s \in Seq(S), NEW n \in 0..Len(s)
  PROVE  /\ SubSeq(s, 1, n) \in Seq(S)
         /\ Len(SubSeq(s, 1, n)) = n
         /\ \A i \in 1..n : SubSeq(s, 1, n)[i] = s[i]
BY SMT

(* RemoveFirst takes one place out of a sequence, if the element is there. *)
LEMMA RemoveFirstTakesOne ==
  ASSUME NEW S, NEW s \in Seq(S), NEW e \in ToSet(s)
  PROVE  \E k \in 1..Len(s) :
           /\ s[k] = e
           /\ RemoveFirst(s, e) \in Seq(S)
           /\ Len(RemoveFirst(s, e)) = Len(s) - 1
           /\ \A i \in 1..(Len(s) - 1) :
                RemoveFirst(s, e)[i] = IF i < k THEN s[i] ELSE s[i + 1]
<1> DEFINE I == {i \in 1..Len(s) : s[i] = e}
<1>1. I # {} /\ I \subseteq Nat
  BY DEF ToSet
<1>2. PICK k \in I : \A j \in I : k <= j
  BY <1>1, LeastOf
<1>3. SelectInSeq(s, LAMBDA v : v = e) = Min(I)
  BY <1>1 DEF SelectInSeq
<1>4. Min(I) \in I
  BY <1>2 DEF Min
<1>5. RemoveFirst(s, e) = SubSeq(s, 1, Min(I) - 1) \o SubSeq(s, Min(I) + 1, Len(s))
  BY <1>1, <1>3 DEF RemoveFirst, RemoveAt
<1> DEFINE m == Min(I)
<1> HIDE DEF m
<1>6. m \in 1..Len(s) /\ s[m] = e
  BY <1>4 DEF m
<1>7. /\ SubSeq(s, 1, m - 1) \in Seq(S) /\ Len(SubSeq(s, 1, m - 1)) = m - 1
      /\ \A i \in 1..(m - 1) : SubSeq(s, 1, m - 1)[i] = s[i]
  BY <1>6, UpToPosition
<1>8. /\ SubSeq(s, m + 1, Len(s)) \in Seq(S) /\ Len(SubSeq(s, m + 1, Len(s))) = Len(s) - m
      /\ \A i \in 1..(Len(s) - m) : SubSeq(s, m + 1, Len(s))[i] = s[m + i]
  BY <1>6, BehindPosition
<1>9. RemoveFirst(s, e) = SubSeq(s, 1, m - 1) \o SubSeq(s, m + 1, Len(s))
  BY <1>5 DEF m
<1> DEFINE a == SubSeq(s, 1, m - 1)
           b == SubSeq(s, m + 1, Len(s))
           r == RemoveFirst(s, e)
<1>10. /\ a \in Seq(S) /\ b \in Seq(S) /\ r = a \o b
  BY <1>7, <1>8, <1>9
<1>11. /\ Len(a) = m - 1 /\ \A i \in 1..(m - 1) : a[i] = s[i]
       /\ Len(b) = Len(s) - m /\ \A i \in 1..(Len(s) - m) : b[i] = s[m + i]
  BY <1>7, <1>8
<1> HIDE DEF a, b, r
<1>12. /\ Len(s) \in Nat
       /\ r \in Seq(S) /\ Len(r) = Len(a) + Len(b)
       /\ \A i \in 1..(Len(a) + Len(b)) : r[i] = IF i <= Len(a) THEN a[i] ELSE b[i - Len(a)]
  BY <1>10, ConcatProperties
<1>13. Len(r) = Len(s) - 1
  BY <1>6, <1>11, <1>12
<1>14. ASSUME NEW i \in 1..(Len(s) - 1)
       PROVE  r[i] = IF i < m THEN s[i] ELSE s[i + 1]
  <2>1. i \in 1..(Len(a) + Len(b)) /\ i \in Int /\ m \in Int
    BY <1>6, <1>11, <1>12
  <2>2. r[i] = IF i <= m - 1 THEN a[i] ELSE b[i - (m - 1)]
    BY <1>11, <1>12, <2>1
  <2>3. CASE i < m
    BY <2>1, <2>2, <2>3, <1>11
  <2>4. CASE ~(i < m)
    <3>1. i - (m - 1) \in 1..(Len(s) - m) /\ m + (i - (m - 1)) = i + 1
      BY <1>12, <2>1, <2>4, <1>6
    <3> QED BY <2>1, <2>2, <2>4, <3>1, <1>11
  <2> QED BY <2>3, <2>4
<1> QED BY <1>6, <1>12, <1>13, <1>14 DEF r

(* In a sequence without duplicates, RemoveFirst removes the element and   *)
(* nothing else, and leaves no duplicates behind.                          *)
LEMMA RemoveFirstRemoves ==
  ASSUME NEW S, NEW s \in Seq(S), IsInjective(s), NEW e \in ToSet(s)
  PROVE  /\ RemoveFirst(s, e) \in Seq(S)
         /\ IsInjective(RemoveFirst(s, e))
         /\ ToSet(RemoveFirst(s, e)) = ToSet(s) \ {e}
<1> DEFINE r == RemoveFirst(s, e)
<1>1. PICK k \in 1..Len(s) :
        /\ s[k] = e
        /\ r \in Seq(S) /\ Len(r) = Len(s) - 1
        /\ \A i \in 1..(Len(s) - 1) : r[i] = IF i < k THEN s[i] ELSE s[i + 1]
  BY RemoveFirstTakesOne
<1> HIDE DEF r
<1>2. DOMAIN r = 1..(Len(s) - 1) /\ DOMAIN s = 1..Len(s) /\ Len(s) \in Nat
  BY <1>1
<1>3. IsInjective(r)
  BY <1>1, <1>2 DEF IsInjective
<1>4. ASSUME NEW x \in ToSet(r)
      PROVE  x \in ToSet(s) \ {e}
  BY <1>1, <1>2 DEF IsInjective, ToSet
<1>5. ASSUME NEW x \in ToSet(s) \ {e}
      PROVE  x \in ToSet(r)
  <2>1. PICK i \in 1..Len(s) : s[i] = x
    BY <1>2 DEF ToSet
  <2>2. CASE i < k
    BY <1>1, <1>2, <2>1, <2>2 DEF ToSet
  <2>3. CASE i > k
    <3>1. i - 1 \in 1..(Len(s) - 1) /\ r[i - 1] = x
      BY <1>1, <1>2, <2>1, <2>3
    <3> QED BY <3>1, <1>2 DEF ToSet
  <2> QED BY <1>1, <2>1, <2>2, <2>3
<1> QED BY <1>1, <1>3, <1>4, <1>5 DEF r

(* The same for what is left behind a position, ...                        *)
LEMMA BehindRemoves ==
  ASSUME NEW S, NEW s \in Seq(S), IsInjective(s), NEW k \in 1..Len(s)
  PROVE  /\ SubSeq(s, k + 1, Len(s)) \in Seq(S)
         /\ IsInjective(SubSeq(s, k + 1, Len(s)))
         /\ ToSet(SubSeq(s, k + 1, Len(s))) = {s[i] : i \in (k + 1)..Len(s)}
         /\ \A i \in 1..k : s[i] \notin ToSet(SubSeq(s, k + 1, Len(s)))
<1> DEFINE r == SubSeq(s, k + 1, Len(s))
<1>1. /\ r \in Seq(S) /\ Len(r) = Len(s) - k
      /\ \A i \in 1..(Len(s) - k) : r[i] = s[k + i]
  BY BehindPosition
<1> HIDE DEF r
<1>2. DOMAIN r = 1..(Len(s) - k) /\ DOMAIN s = 1..Len(s) /\ Len(s) \in Nat /\ k \in Nat
  BY <1>1
<1>3. IsInjective(r)
  <2>1. SUFFICES ASSUME NEW i \in 1..(Len(s) - k), NEW j \in 1..(Len(s) - k), r[i] = r[j]
                 PROVE  i = j
    BY <1>2 DEF IsInjective
  <2>2. k + i \in DOMAIN s /\ k + j \in DOMAIN s /\ s[k + i] = s[k + j]
    BY <1>1, <1>2, <2>1
  <2>3. k + i = k + j
    BY <2>2 DEF IsInjective
  <2> QED BY <1>2, <2>3
<1>4. ASSUME NEW x \in ToSet(r)
      PROVE  \E i \in (k + 1)..Len(s) : x = s[i]
  <2>1. PICK i \in 1..(Len(s) - k) : r[i] = x
    BY <1>2 DEF ToSet
  <2>2. k + i \in (k + 1)..Len(s) /\ x = s[k + i]
    BY <1>1, <1>2, <2>1
  <2> QED BY <2>2
<1>5. ASSUME NEW i \in (k + 1)..Len(s)
      PROVE  s[i] \in ToSet(r)
  <2>1. i - k \in 1..(Len(s) - k) /\ k + (i - k) = i
    BY <1>2
  <2>2. r[i - k] = s[i]
    BY <1>1, <2>1
  <2> QED BY <1>2, <2>1, <2>2 DEF ToSet
<1>6. ASSUME NEW i \in 1..k
      PROVE  s[i] \notin ToSet(r)
  BY <1>2, <1>4 DEF IsInjective
<1> QED BY <1>1, <1>3, <1>4, <1>5, <1>6 DEF r

(* ... and for an element that is appended.                                *)
LEMMA AppendAdds ==
  ASSUME NEW S, NEW s \in Seq(S), NEW e \in S
  PROVE  /\ Append(s, e) \in Seq(S)
         /\ ToSet(Append(s, e)) = ToSet(s) \cup {e}
         /\ IsInjective(s) /\ e \notin ToSet(s) => IsInjective(Append(s, e))
<1> DEFINE r == Append(s, e)
<1>1. /\ r \in Seq(S) /\ Len(r) = Len(s) + 1
      /\ \A i \in 1..Len(s) : r[i] = s[i]
      /\ r[Len(s) + 1] = e
  BY AppendProperties
<1> HIDE DEF r
<1>2. DOMAIN r = 1..(Len(s) + 1) /\ DOMAIN s = 1..Len(s) /\ Len(s) \in Nat
  BY <1>1
<1>3. ToSet(r) = ToSet(s) \cup {e}
  BY <1>1, <1>2 DEF ToSet
<1>4. ASSUME IsInjective(s), e \notin ToSet(s)
      PROVE  IsInjective(r)
  BY <1>1, <1>2, <1>4 DEF IsInjective, ToSet
<1> QED BY <1>1, <1>3, <1>4 DEF r

-----------------------------------------------------------------------------
(***************************************************************************)
(* Sorting and filtering (ArrayMethods).                                   *)
(***************************************************************************)

(* In a strict total order of a finite set, for each place there is an     *)
(* element that has as many below it as there are places before.           *)
LEMMA OrderPlaces ==
  ASSUME NEW S, IsFiniteSet(S), NEW below,
         \A x \in S : below[x] \subseteq S /\ x \notin below[x],
         \A x, y \in S : x # y => x \in below[y] \/ y \in below[x],
         \A x, y, z \in S : x \in below[y] /\ y \in below[z] => x \in below[z]
  PROVE  /\ Cardinality(S) \in Nat
         /\ \A k \in 1..Cardinality(S) : \E x \in S : Cardinality(below[x]) = k - 1
         /\ \A x, y \in S : Cardinality(below[x]) < Cardinality(below[y]) => x \in below[y]
<1> DEFINE n == Cardinality(S)
           rank == [x \in S |-> Cardinality(below[x]) + 1]
<1>1. n \in Nat
  BY FS_CardinalityType
<1>2. ASSUME NEW x \in S
      PROVE  /\ IsFiniteSet(below[x]) /\ Cardinality(below[x]) \in Nat
             /\ Cardinality(below[x]) < n
  <2>1. IsFiniteSet(below[x]) /\ Cardinality(below[x]) <= n /\ (Cardinality(below[x]) = n => below[x] = S)
    BY FS_Subset
  <2>2. Cardinality(below[x]) \in Nat
    BY <2>1, FS_CardinalityType
  <2> QED BY <1>1, <2>1, <2>2
<1>3. ASSUME NEW x \in S, NEW y \in S, x \in below[y]
      PROVE  Cardinality(below[x]) < Cardinality(below[y])
  <2>1. below[x] \subseteq below[y] /\ below[x] # below[y]
    BY <1>3
  <2>2. /\ Cardinality(below[x]) <= Cardinality(below[y])
        /\ Cardinality(below[x]) = Cardinality(below[y]) => below[x] = below[y]
    BY <1>2, <2>1, FS_Subset
  <2> QED BY <1>2, <2>1, <2>2
<1>4. rank \in [S -> 1..n] /\ \A x \in S : rank[x] = Cardinality(below[x]) + 1
  BY <1>1, <1>2
<1>5. \A x, y \in S : rank[x] = rank[y] => x = y
  <2> SUFFICES ASSUME NEW x \in S, NEW y \in S, rank[x] = rank[y]
               PROVE  x = y
    OBVIOUS
  <2>1. Cardinality(below[x]) = Cardinality(below[y])
    BY <1>2, <1>4
  <2>2. x \notin below[y] /\ y \notin below[x]
    BY <1>2, <1>3, <2>1
  <2> QED BY <2>2
<1> HIDE DEF rank
<1>6. rank \in Surjection(S, 1..n)
  <2>1. rank \in Injection(S, 1..n)
    BY <1>4, <1>5 DEF Injection, IsInjective
  <2>2. IsFiniteSet(1..n) /\ Cardinality(1..n) = n
    BY <1>1, FS_Interval
  <2> QED BY <2>1, <2>2, FS_Injection
<1>7. \A k \in 1..n : \E x \in S : Cardinality(below[x]) = k - 1
  <2> SUFFICES ASSUME NEW k \in 1..n PROVE \E x \in S : Cardinality(below[x]) = k - 1
    OBVIOUS
  <2>1. PICK x \in S : rank[x] = k
    BY <1>6 DEF Surjection
  <2>2. Cardinality(below[x]) = k - 1
    BY <1>2, <1>4, <2>1
  <2> QED BY <2>2
<1>8. ASSUME NEW x \in S, NEW y \in S, Cardinality(below[x]) < Cardinality(below[y])
      PROVE  x \in below[y]
  <2>1. x # y
    BY <1>2, <1>8
  <2>2. y \notin below[x]
    BY <1>2, <1>3, <1>8
  <2> QED BY <2>1, <2>2
<1> QED BY <1>1, <1>7, <1>8

(* Positions in ascending order: every one of them, once.                  *)
LEMMA AscendingPositions ==
  ASSUME NEW n \in Nat, NEW I \in SUBSET (1..n)
  PROVE  /\ Cardinality(I) \in Nat
         /\ InOrder(I, <) \in [1..Cardinality(I) -> I]
         /\ \A i, j \in 1..Cardinality(I) : i < j => InOrder(I, <)[i] < InOrder(I, <)[j]
         /\ \A x \in I : \E k \in 1..Cardinality(I) : InOrder(I, <)[k] = x
<1> DEFINE m == Cardinality(I)
           below == [x \in I |-> {y \in I : y < x}]
           p == InOrder(I, <)
<1>1. IsFiniteSet(I) /\ m \in Nat
  <2>1. IsFiniteSet(1..n)
    BY FS_Interval
  <2>2. IsFiniteSet(I)
    BY <2>1, FS_Subset
  <2> QED BY <2>2, FS_CardinalityType
<1>2. \A x \in I : below[x] = {y \in I : y < x}
  OBVIOUS
<1>3. /\ \A k \in 1..m : \E x \in I : Cardinality(below[x]) = k - 1
      /\ \A x, y \in I : Cardinality(below[x]) < Cardinality(below[y]) => x \in below[y]
  <2>1. \A x \in I : below[x] \subseteq I /\ x \notin below[x]
    BY <1>2
  <2>2. \A x, y \in I : x # y => x \in below[y] \/ y \in below[x]
    BY <1>2
  <2>3. \A x, y, z \in I : x \in below[y] /\ y \in below[z] => x \in below[z]
    BY <1>2
  <2> HIDE DEF below
  <2> QED BY <1>1, <2>1, <2>2, <2>3, OrderPlaces
<1> HIDE DEF below
<1>4. p \in [1..m -> I] /\ \A i, j \in 1..m : i < j => p[i] < p[j]
  <2>1. p = [k \in 1..m |-> CHOOSE x \in I : Cardinality({y \in I : y < x}) = k - 1]
    BY DEF InOrder
  <2> HIDE DEF p
  <2>2. ASSUME NEW k \in 1..m
        PROVE  p[k] \in I /\ Cardinality(below[p[k]]) = k - 1
    <3>1. \E x \in I : Cardinality({y \in I : y < x}) = k - 1
      BY <1>2, <1>3
    <3>2. p[k] \in I /\ Cardinality({y \in I : y < p[k]}) = k - 1
      BY <2>1, <3>1
    <3> QED BY <1>2, <3>2
  <2>3. ASSUME NEW i \in 1..m, NEW j \in 1..m, i < j
        PROVE  p[i] < p[j]
    <3>1. i - 1 < j - 1
      BY <1>1, <2>3
    <3>2. p[i] \in below[p[j]]
      BY <1>3, <2>2, <3>1
    <3> QED BY <1>2, <2>2, <3>2
  <2>4. p \in [1..m -> I]
    BY <2>1, <2>2
  <2> QED BY <2>3, <2>4
<1> HIDE DEF p
<1>5. \A x \in I : \E k \in 1..m : p[k] = x
  <2>1. p \in Injection(1..m, I)
    <3>0. I \subseteq Int
      OBVIOUS
    <3>1. \A i \in 1..m : p[i] \in I /\ p[i] \in Int
      BY <1>4, <3>0
    <3>2. \A i, j \in 1..m : p[i] = p[j] => i = j
      BY <1>1, <1>4, <3>1
    <3> QED BY <1>4, <3>2 DEF Injection, IsInjective
  <2>2. IsFiniteSet(1..m) /\ Cardinality(1..m) = m
    BY <1>1, FS_Interval
  <2>3. p \in Surjection(1..m, I)
    BY <1>1, <2>1, <2>2, FS_Injection
  <2> QED BY <2>3 DEF Surjection
<1> QED BY <1>1, <1>4, <1>5 DEF p

(* Filtering an array keeps what is at the positions, and the order.       *)
LEMMA FilteredKeeps ==
  ASSUME NEW T, NEW s \in Seq(T), NEW I \in SUBSET (1..Len(s))
  PROVE  /\ Cardinality(I) \in Nat
         /\ Filtered(s, I) \in Seq(T)
         /\ Len(Filtered(s, I)) = Cardinality(I)
         /\ \E p \in [1..Cardinality(I) -> I] :
              /\ \A i, j \in 1..Cardinality(I) : i < j => p[i] < p[j]
              /\ \A x \in I : \E k \in 1..Cardinality(I) : p[k] = x
              /\ \A k \in 1..Cardinality(I) : Filtered(s, I)[k] = s[p[k]]
<1> DEFINE p == InOrder(I, <)
           m == Cardinality(I)
<1>0. Len(s) \in Nat /\ \A i \in 1..Len(s) : s[i] \in T
  OBVIOUS
<1>1. /\ m \in Nat /\ p \in [1..m -> I]
      /\ \A i, j \in 1..m : i < j => p[i] < p[j]
      /\ \A x \in I : \E k \in 1..m : p[k] = x
  BY <1>0, AscendingPositions
<1>2. Filtered(s, I) = [k \in DOMAIN p |-> s[p[k]]]
  BY DEF Filtered
<1> HIDE DEF p, m
<1>3. Filtered(s, I) = [k \in 1..m |-> s[p[k]]]
  BY <1>1, <1>2
<1>4. \A k \in 1..m : s[p[k]] \in T
  BY <1>0, <1>1
<1>5. Filtered(s, I) \in Seq(T) /\ Len(Filtered(s, I)) = m
  BY <1>1, <1>3, <1>4, IsASeq, LenProperties
<1> QED BY <1>1, <1>3, <1>5 DEF m

(* In the large: the elements, ...                                         *)
LEMMA FilteredElements ==
  ASSUME NEW T, NEW s \in Seq(T), NEW I \in SUBSET (1..Len(s))
  PROVE  ToSet(Filtered(s, I)) = {s[i] : i \in I}
<1>1. DOMAIN Filtered(s, I) = 1..Cardinality(I)
  BY FilteredKeeps
<1>2. PICK p \in [1..Cardinality(I) -> I] :
         /\ \A x \in I : \E k \in 1..Cardinality(I) : p[k] = x
         /\ \A k \in 1..Cardinality(I) : Filtered(s, I)[k] = s[p[k]]
  BY FilteredKeeps
<1>3. ASSUME NEW i \in I
      PROVE  s[i] \in ToSet(Filtered(s, I))
  BY <1>1, <1>2 DEF ToSet
<1>4. ASSUME NEW k \in 1..Cardinality(I)
      PROVE  \E i \in I : Filtered(s, I)[k] = s[i]
  BY <1>2
<1>5. \A e \in ToSet(Filtered(s, I)) : \E i \in I : e = s[i]
  BY <1>1, <1>4 DEF ToSet
<1> QED BY <1>3, <1>5

(* ... each once if it was there once, ...                                 *)
LEMMA FilteredInjective ==
  ASSUME NEW T, NEW s \in Seq(T), NEW I \in SUBSET (1..Len(s)),
         \A i, j \in I : s[i] = s[j] => i = j
  PROVE  IsInjective(Filtered(s, I))
<1>1. DOMAIN Filtered(s, I) = 1..Cardinality(I) /\ Cardinality(I) \in Nat
  BY FilteredKeeps
<1>2. PICK p \in [1..Cardinality(I) -> I] :
         /\ \A i, j \in 1..Cardinality(I) : i < j => p[i] < p[j]
         /\ \A k \in 1..Cardinality(I) : Filtered(s, I)[k] = s[p[k]]
  BY FilteredKeeps
<1>3. ASSUME NEW i \in 1..Cardinality(I), NEW j \in 1..Cardinality(I),
             Filtered(s, I)[i] = Filtered(s, I)[j]
      PROVE  i = j
  <2>1. p[i] \in I /\ p[j] \in I /\ s[p[i]] = s[p[j]]
    BY <1>2, <1>3
  <2>2. I \subseteq Int
    OBVIOUS
  <2>3. p[i] = p[j] /\ p[i] \in Int
    BY <2>1, <2>2
  <2> QED BY <1>1, <1>2, <2>3
<1> QED BY <1>1, <1>3 DEF IsInjective

(* ... and all of it if nothing is dropped.                                *)
LEMMA AscendingIsIdentity ==
  ASSUME NEW n \in Nat, NEW p \in [1..n -> 1..n],
         \A i, j \in 1..n : i < j => p[i] < p[j],
         \A x \in 1..n : \E k \in 1..n : p[k] = x
  PROVE  \A i \in 1..n : p[i] = i
<1> DEFINE D == {i \in 1..n : p[i] # i}
<1> SUFFICES ASSUME D # {} PROVE FALSE
  OBVIOUS
<1>1. D \subseteq Nat
  OBVIOUS
<1>2. PICK i \in D : \A j \in D : i <= j
  BY <1>1, LeastOf
<1>3. i \in 1..n /\ p[i] # i /\ \A j \in 1..n : j < i => p[j] = j
  BY <1>2
<1>4. PICK k \in 1..n : p[k] = i
  BY <1>3
<1>5. ~(k < i) /\ k # i
  BY <1>3, <1>4
<1>6. i < k /\ p[i] < i
  BY <1>3, <1>4, <1>5
<1>7. p[i] \in 1..n /\ p[p[i]] = p[i]
  BY <1>3, <1>6
<1>8. p[p[i]] < p[i]
  BY <1>3, <1>6, <1>7
<1> QED BY <1>7, <1>8

LEMMA FilteredAll ==
  ASSUME NEW T, NEW s \in Seq(T)
  PROVE  Filtered(s, 1..Len(s)) = s
<1> DEFINE I == 1..Len(s)
<1>1. Cardinality(I) = Len(s) /\ Len(s) \in Nat /\ I \in SUBSET (1..Len(s))
  BY FS_Interval
<1> HIDE DEF I
<1>2. /\ Filtered(s, I) \in Seq(T)
      /\ Len(Filtered(s, I)) = Len(s)
  BY <1>1, FilteredKeeps
<1>3. PICK p \in [1..Cardinality(I) -> I] :
         /\ \A i, j \in 1..Cardinality(I) : i < j => p[i] < p[j]
         /\ \A x \in I : \E k \in 1..Cardinality(I) : p[k] = x
         /\ \A k \in 1..Cardinality(I) : Filtered(s, I)[k] = s[p[k]]
  BY <1>1, FilteredKeeps
<1>4. \A i \in I : p[i] = i
  <2> USE DEF I
  <2>1. p \in [1..Len(s) -> 1..Len(s)]
    BY <1>1, <1>3
  <2>2. /\ \A i, j \in 1..Len(s) : i < j => p[i] < p[j]
        /\ \A x \in 1..Len(s) : \E k \in 1..Len(s) : p[k] = x
    BY <1>1, <1>3
  <2> QED BY <1>1, <2>1, <2>2, AscendingIsIdentity
<1>5. \A i \in I : Filtered(s, I)[i] = s[i]
  BY <1>1, <1>3, <1>4 DEF I
<1> QED BY <1>1, <1>2, <1>5, SeqEqual DEF I

(* indexOf finds the first position, if there is one.                      *)
LEMMA IndexOfFinds ==
  ASSUME NEW T, NEW s \in Seq(T), NEW e
  PROVE  /\ IndexOf(s, e) \in 0..Len(s)
         /\ IndexOf(s, e) # 0 => s[IndexOf(s, e)] = e
         /\ \A i \in 1..Len(s) : s[i] = e => IndexOf(s, e) # 0 /\ IndexOf(s, e) <= i
<1> DEFINE I == {i \in 1..Len(s) : s[i] = e}
<1>0. Len(s) \in Nat
  OBVIOUS
<1>1. IndexOf(s, e) = IF I # {} THEN Min(I) ELSE 0
  BY DEF IndexOf, SelectInSeq
<1>2. CASE I = {}
  BY <1>0, <1>1, <1>2
<1>3. CASE I # {}
  <2>1. I \in SUBSET (1..Len(s))
    OBVIOUS
  <2>2. Min(I) \in I /\ \A y \in I : Min(I) <= y
    BY <1>0, <1>3, <2>1, LeastAndGreatest
  <2>3. IndexOf(s, e) = Min(I)
    BY <1>1, <1>3
  <2>4. IndexOf(s, e) \in 1..Len(s) /\ s[IndexOf(s, e)] = e
    BY <2>2, <2>3
  <2>5. \A i \in 1..Len(s) : s[i] = e => IndexOf(s, e) <= i
    BY <2>2, <2>3
  <2> QED BY <1>0, <2>4, <2>5
<1> QED BY <1>2, <1>3

=============================================================================
