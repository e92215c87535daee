----------------------- MODULE ImportPlanning_proofs -----------------------
(***************************************************************************)
(* Proofs about ImportPlanning and the functions on lists of ranges it is  *)
(* made of, for any products, chain, limits and failures.                  *)
(***************************************************************************)
EXTENDS ImportPlanning, InductionLemmas, TLAPS

(***************************************************************************)
(* A list of lists put end to end: its elements are those of the lists, in *)
(* their order.  "of" and "at" say which list an element is from, where.   *)
(***************************************************************************)
Placed(flat, seqs, n, of, at) ==
    /\ of \in [1 .. Len(flat) -> 1 .. n] /\ at \in [1 .. Len(flat) -> Nat]
    /\ \A k \in 1 .. Len(flat) :
          at[k] \in 1 .. Len(seqs[of[k]]) /\ flat[k] = seqs[of[k]][at[k]]
    /\ \A i \in 1 .. n : \A j \in 1 .. Len(seqs[i]) :
          \E k \in 1 .. Len(flat) : of[k] = i /\ at[k] = j
    /\ \A k, l \in 1 .. Len(flat) :
          k < l => of[k] < of[l] \/ (of[k] = of[l] /\ at[k] < at[l])

IsFlat(flat, seqs, n) == \E of, at : Placed(flat, seqs, n, of, at)

LEMMA FlatOfOne ==
    ASSUME NEW S, NEW seqs, seqs[1] \in Seq(S)
    PROVE  IsFlat(seqs[1], seqs, 1)
<1> DEFINE L == Len(seqs[1])
           of == [k \in 1 .. L |-> 1]
           at == [k \in 1 .. L |-> k]
<1>1. L \in Nat
  OBVIOUS
<1>2. Placed(seqs[1], seqs, 1, of, at)
  BY <1>1 DEF Placed
<1> QED
  BY <1>2 DEF IsFlat

LEMMA FlatOfMore ==
    ASSUME NEW S, NEW n \in Nat \ {0}, NEW seqs, seqs[n + 1] \in Seq(S),
           NEW flat \in Seq(S), IsFlat(flat, seqs, n)
    PROVE  IsFlat(flat \o seqs[n + 1], seqs, n + 1)
<1> DEFINE L == Len(flat)
           m == Len(seqs[n + 1])
           all == flat \o seqs[n + 1]
<1>1. PICK of, at : Placed(flat, seqs, n, of, at)
  BY DEF IsFlat
<1> DEFINE of2 == [k \in 1 .. L + m |-> IF k <= L THEN of[k] ELSE n + 1]
           at2 == [k \in 1 .. L + m |-> IF k <= L THEN at[k] ELSE k - L]
<1>2. L \in Nat /\ m \in Nat /\ Len(all) = L + m
  OBVIOUS
<1>3. \A k \in 1 .. L + m : k \in 1 .. L \/ (k > L /\ k - L \in 1 .. m)
  BY <1>2
<1>4. of \in [1 .. L -> 1 .. n] /\ at \in [1 .. L -> Nat]
  BY <1>1 DEF Placed
<1>5. \A k \in 1 .. L : /\ k \in 1 .. L + m
                        /\ of2[k] = of[k] /\ at2[k] = at[k] /\ all[k] = flat[k]
                        /\ of[k] \in 1 .. n /\ at[k] \in Nat
  <2>1. \A k \in 1 .. L : k \in 1 .. L + m /\ k <= L
    BY <1>2
  <2>2. \A k \in 1 .. L : all[k] = flat[k]
    OBVIOUS
  <2>3. \A k \in 1 .. L : of[k] \in 1 .. n /\ at[k] \in Nat
    BY <1>4
  <2>4. \A k \in 1 .. L : of2[k] = of[k] /\ at2[k] = at[k]
    BY <2>1
  <2> QED
    BY <2>1, <2>2, <2>3, <2>4
<1>6. \A k \in 1 .. L + m : k > L =>
         of2[k] = n + 1 /\ at2[k] = k - L /\ all[k] = seqs[n + 1][k - L]
  BY <1>2
<1>7. of2 \in [1 .. L + m -> 1 .. n + 1] /\ at2 \in [1 .. L + m -> Nat]
  <2>1. \A k \in 1 .. L + m : of2[k] \in 1 .. n + 1 /\ at2[k] \in Nat
    <3> SUFFICES ASSUME NEW k \in 1 .. L + m
                 PROVE  of2[k] \in 1 .. n + 1 /\ at2[k] \in Nat
      OBVIOUS
    <3> HIDE DEF of2, at2
    <3>1. CASE k \in 1 .. L
      <4>1. of2[k] \in 1 .. n /\ at2[k] \in Nat
        BY <1>5, <3>1
      <4> QED
        BY <4>1
    <3>2. CASE k > L /\ k - L \in 1 .. m
      BY <1>6, <3>2
    <3> QED
      BY <1>3, <3>1, <3>2
  <2> QED
    BY <2>1
<1>8. \A k \in 1 .. L + m :
         at2[k] \in 1 .. Len(seqs[of2[k]]) /\ all[k] = seqs[of2[k]][at2[k]]
  <2> SUFFICES ASSUME NEW k \in 1 .. L + m
               PROVE  at2[k] \in 1 .. Len(seqs[of2[k]]) /\ all[k] = seqs[of2[k]][at2[k]]
    OBVIOUS
  <2> HIDE DEF of2, at2, all
  <2>1. CASE k \in 1 .. L
    <3>1. at[k] \in 1 .. Len(seqs[of[k]]) /\ flat[k] = seqs[of[k]][at[k]]
      BY <1>1, <2>1 DEF Placed
    <3>2. of2[k] = of[k] /\ at2[k] = at[k] /\ all[k] = flat[k]
      BY <1>5, <2>1
    <3> QED
      BY <3>1, <3>2
  <2>2. CASE k > L /\ k - L \in 1 .. m
    <3>1. of2[k] = n + 1 /\ at2[k] = k - L /\ all[k] = seqs[n + 1][k - L]
      BY <1>6, <2>2
    <3> QED
      BY <2>2, <3>1
  <2> QED
    BY <1>3, <2>1, <2>2
<1>9. \A i \in 1 .. n + 1 : \A j \in 1 .. Len(seqs[i]) :
         \E k \in 1 .. L + m : of2[k] = i /\ at2[k] = j
  <2> SUFFICES ASSUME NEW i \in 1 .. n + 1, NEW j \in 1 .. Len(seqs[i])
               PROVE  \E k \in 1 .. L + m : of2[k] = i /\ at2[k] = j
    OBVIOUS
  <2> HIDE DEF of2, at2
  <2>1. CASE i = n + 1
    <3>1. j + L \in 1 .. L + m /\ j + L > L /\ (j + L) - L = j
      BY <1>2, <2>1
    <3> QED
      BY <1>6, <2>1, <3>1
  <2>2. CASE i # n + 1
    <3>1. i \in 1 .. n
      BY <2>2
    <3>2. PICK k \in 1 .. L : of[k] = i /\ at[k] = j
      BY <1>1, <3>1 DEF Placed
    <3> QED
      BY <1>5, <3>2
  <2> QED
    BY <2>1, <2>2
<1>10. \A k, l \in 1 .. L + m :
          k < l => of2[k] < of2[l] \/ (of2[k] = of2[l] /\ at2[k] < at2[l])
  <2> SUFFICES ASSUME NEW k \in 1 .. L + m, NEW l \in 1 .. L + m, k < l
               PROVE  of2[k] < of2[l] \/ (of2[k] = of2[l] /\ at2[k] < at2[l])
    OBVIOUS
  <2> HIDE DEF of2, at2
  <2>1. CASE l \in 1 .. L
    <3>1. k \in 1 .. L
      BY <1>2, <2>1
    <3>2. of[k] < of[l] \/ (of[k] = of[l] /\ at[k] < at[l])
      BY <1>1, <2>1, <3>1 DEF Placed
    <3> QED
      BY <1>5, <2>1, <3>1, <3>2
  <2>2. CASE l > L
    <3>1. CASE k \in 1 .. L
      <4>1. of2[k] \in 1 .. n /\ of2[l] = n + 1
        BY <1>5, <1>6, <2>2, <3>1
      <4> QED
        BY <4>1
    <3>2. CASE k > L
      BY <1>2, <1>6, <2>2, <3>2
    <3> QED
      BY <1>3, <3>1, <3>2
  <2> QED
    BY <1>3, <2>1, <2>2
<1>11. Placed(all, seqs, n + 1, of2, at2)
  <2> HIDE DEF of2, at2, all, L, m
  <2> QED
    BY <1>2, <1>7, <1>8, <1>9, <1>10 DEF Placed
<1> QED
  BY <1>11 DEF IsFlat

(* The recursion of FlattenSeq. *)
Flattens(flat, seqs, n) ==
    flat = [i \in 1 .. n |-> IF i = 1 THEN seqs[i] ELSE flat[i - 1] \o seqs[i]]

LEMMA FlatteningExists ==
    ASSUME NEW S, NEW n \in Nat, NEW seqs \in [1 .. n -> Seq(S)]
    PROVE  \E flat \in [1 .. n -> Seq(S)] : Flattens(flat, seqs, n)
<1> DEFINE P == {k \in Nat : k <= n => \E flat \in [1 .. k -> Seq(S)] : Flattens(flat, seqs, k)}
<1>1. 0 \in P
  <2>1. 1 .. 0 = {}
    OBVIOUS
  <2>2. [i \in 1 .. 0 |-> <<>>] \in [1 .. 0 -> Seq(S)]
    BY <2>1
  <2>3. Flattens([i \in 1 .. 0 |-> <<>>], seqs, 0)
    BY <2>1 DEF Flattens
  <2> QED
    BY <2>2, <2>3
<1>2. ASSUME NEW k \in P
      PROVE  k + 1 \in P
  <2> SUFFICES ASSUME k + 1 <= n
               PROVE  \E flat \in [1 .. k + 1 -> Seq(S)] : Flattens(flat, seqs, k + 1)
    OBVIOUS
  <2>1. PICK flat \in [1 .. k -> Seq(S)] : Flattens(flat, seqs, k)
    OBVIOUS
  <2> DEFINE last == IF k = 0 THEN seqs[k + 1] ELSE flat[k] \o seqs[k + 1]
             next == [i \in 1 .. k + 1 |-> IF i = k + 1 THEN last ELSE flat[i]]
  <2>2. k \in Nat /\ k + 1 \in 1 .. n /\ \A i \in 1 .. k + 1 : i # k + 1 => i \in 1 .. k
    OBVIOUS
  <2>3. last \in Seq(S)
    BY <2>2
  <2>4. next \in [1 .. k + 1 -> Seq(S)]
    BY <2>2, <2>3
  <2>5. ASSUME NEW i \in 1 .. k + 1
        PROVE  next[i] = IF i = 1 THEN seqs[i] ELSE next[i - 1] \o seqs[i]
    <3>1. CASE i = k + 1
      <4>1. i = 1 <=> k = 0
        BY <2>2, <3>1
      <4>2. k # 0 => next[i - 1] = flat[k]
        BY <2>2, <3>1
      <4> QED
        BY <3>1, <4>1, <4>2
    <3>2. CASE i # k + 1
      <4>1. i \in 1 .. k /\ next[i] = flat[i]
        BY <2>2, <3>2
      <4>2. flat[i] = IF i = 1 THEN seqs[i] ELSE flat[i - 1] \o seqs[i]
        BY <2>1, <4>1 DEF Flattens
      <4>3. i # 1 => next[i - 1] = flat[i - 1]
        BY <2>2, <4>1
      <4> QED
        BY <4>1, <4>2, <4>3
    <3> QED
      BY <3>1, <3>2
  <2> HIDE DEF next
  <2>6. next = [i \in 1 .. k + 1 |-> next[i]]
    BY <2>4
  <2>7. Flattens(next, seqs, k + 1)
    BY <2>5, <2>6 DEF Flattens
  <2> QED
    BY <2>4, <2>7
<1> HIDE DEF P
<1>3. P \in SUBSET Nat
  BY DEF P
<1>4. n \in P
  BY <1>1, <1>2, <1>3, NumberInduction
<1> QED
  BY <1>4 DEF P

LEMMA FlattenPlaces ==
    ASSUME NEW S, NEW n \in Nat, NEW seqs \in [1 .. n -> Seq(S)]
    PROVE  FlattenSeq(seqs) \in Seq(S) /\ IsFlat(FlattenSeq(seqs), seqs, n)
<1>0. seqs \in Seq(Seq(S)) /\ Len(seqs) = n
  OBVIOUS
<1>1. CASE n = 0
  <2>1. FlattenSeq(seqs) = seqs /\ seqs = <<>>
    BY <1>0, <1>1 DEF FlattenSeq
  <2>2. Placed(<<>>, seqs, 0, [k \in {} |-> 1], [k \in {} |-> 1])
    BY DEF Placed
  <2> QED
    BY <1>1, <2>1, <2>2 DEF IsFlat
<1>2. CASE n # 0
  <2> DEFINE flat == CHOOSE f : Flattens(f, seqs, n)
  <2>0. FlattenSeq(seqs) = flat[n]
    BY <1>0, <1>2 DEF FlattenSeq, Flattens
  <2>1. Flattens(flat, seqs, n)
    <3>1. \E f : Flattens(f, seqs, n)
      BY FlatteningExists
    <3> QED
      BY <3>1
  <2> HIDE DEF flat
  <2>2. \A i \in 1 .. n : flat[i] = IF i = 1 THEN seqs[i] ELSE flat[i - 1] \o seqs[i]
    BY <2>1 DEF Flattens
  <2> DEFINE P == {k \in Nat : k + 1 <= n => /\ flat[k + 1] \in Seq(S)
                                            /\ IsFlat(flat[k + 1], seqs, k + 1)}
  <2>3. 0 \in P
    <3>1. 1 \in 1 .. n /\ 0 + 1 = 1 /\ flat[1] = seqs[1] /\ seqs[1] \in Seq(S)
      BY <1>2, <2>2
    <3> QED
      BY <3>1, FlatOfOne
  <2>4. ASSUME NEW k \in P
        PROVE  k + 1 \in P
    <3> SUFFICES ASSUME (k + 1) + 1 <= n
                 PROVE  /\ flat[(k + 1) + 1] \in Seq(S)
                        /\ IsFlat(flat[(k + 1) + 1], seqs, (k + 1) + 1)
      OBVIOUS
    <3> DEFINE j == k + 1
    <3>1. j \in Nat \ {0} /\ j + 1 \in 1 .. n /\ j \in 1 .. n
      OBVIOUS
    <3>2. flat[j] \in Seq(S) /\ IsFlat(flat[j], seqs, j)
      BY <3>1
    <3> HIDE DEF j
    <3>3. j + 1 # 1 /\ (j + 1) - 1 = j
      BY <3>1
    <3>4. flat[j + 1] = flat[j] \o seqs[j + 1]
      BY <2>2, <3>1, <3>3
    <3>5. seqs[j + 1] \in Seq(S)
      BY <3>1
    <3>6. flat[j + 1] \in Seq(S)
      BY <3>2, <3>4, <3>5
    <3>7. IsFlat(flat[j + 1], seqs, j + 1)
      BY <3>1, <3>2, <3>4, <3>5, FlatOfMore
    <3> QED
      BY <3>6, <3>7 DEF j
  <2> HIDE DEF P
  <2>5. P \in SUBSET Nat /\ n - 1 \in Nat
    BY <1>2 DEF P
  <2>6. n - 1 \in P
    BY <2>3, <2>4, <2>5, NumberInduction
  <2>7. (n - 1) + 1 = n
    OBVIOUS
  <2> QED
    BY <2>0, <2>6, <2>7 DEF P
<1> QED
  BY <1>1, <1>2

(* Put end to end, lists have the elements they had. *)
LEMMA FlattenElements ==
    ASSUME NEW S, NEW n \in Nat, NEW seqs \in [1 .. n -> Seq(S)]
    PROVE  /\ FlattenSeq(seqs) \in Seq(S)
           /\ \A x : x \in ToSet(FlattenSeq(seqs)) <=> \E i \in 1 .. n : x \in ToSet(seqs[i])
<1> DEFINE flat == FlattenSeq(seqs)
<1>1. flat \in Seq(S) /\ IsFlat(flat, seqs, n)
  BY FlattenPlaces
<1> HIDE DEF flat
<1>2. PICK of, at : Placed(flat, seqs, n, of, at)
  BY <1>1 DEF IsFlat
<1>3. DOMAIN flat = 1 .. Len(flat) /\ \A i \in 1 .. n : DOMAIN seqs[i] = 1 .. Len(seqs[i])
  BY <1>1
<1>4. ASSUME NEW x \in ToSet(flat)
      PROVE  \E i \in 1 .. n : x \in ToSet(seqs[i])
  <2>1. PICK k \in 1 .. Len(flat) : x = flat[k]
    BY <1>3 DEF ToSet
  <2>2. of[k] \in 1 .. n /\ at[k] \in 1 .. Len(seqs[of[k]]) /\ flat[k] = seqs[of[k]][at[k]]
    BY <1>2 DEF Placed
  <2> QED
    BY <1>3, <2>1, <2>2 DEF ToSet
<1>5. ASSUME NEW i \in 1 .. n, NEW x \in ToSet(seqs[i])
      PROVE  x \in ToSet(flat)
  <2>1. PICK j \in 1 .. Len(seqs[i]) : x = seqs[i][j]
    BY <1>3 DEF ToSet
  <2>2. PICK k \in 1 .. Len(flat) : of[k] = i /\ at[k] = j
    BY <1>2 DEF Placed
  <2>3. flat[k] = seqs[i][j]
    BY <1>2, <2>2 DEF Placed
  <2> QED
    BY <1>3, <2>1, <2>3 DEF ToSet
<1> QED
  BY <1>1, <1>4, <1>5 DEF flat

(* The list of those that are in a set. *)
KeptIn(seq, K) ==
    FlattenSeq([i \in DOMAIN seq |-> IF seq[i] \in K THEN <<seq[i]>> ELSE <<>>])

LEMMA KeptElements ==
    ASSUME NEW S, NEW seq \in Seq(S), NEW K
    PROVE  /\ KeptIn(seq, K) \in Seq(S)
           /\ \A x : x \in ToSet(KeptIn(seq, K)) <=> x \in ToSet(seq) /\ x \in K
<1> DEFINE n == Len(seq)
           seqs == [i \in 1 .. n |-> IF seq[i] \in K THEN <<seq[i]>> ELSE <<>>]
<1>1. n \in Nat /\ DOMAIN seq = 1 .. n
  OBVIOUS
<1>2. seqs \in [1 .. n -> Seq(S)]
  OBVIOUS
<1>3. KeptIn(seq, K) = FlattenSeq(seqs)
  BY <1>1 DEF KeptIn
<1>4. \A i \in 1 .. n : ToSet(seqs[i]) = IF seq[i] \in K THEN {seq[i]} ELSE {}
  <2> SUFFICES ASSUME NEW i \in 1 .. n
               PROVE  ToSet(seqs[i]) = IF seq[i] \in K THEN {seq[i]} ELSE {}
    OBVIOUS
  <2>1. CASE seq[i] \in K
    <3>1. seqs[i] = <<seq[i]>>
      BY <2>1
    <3> QED
      BY <2>1, <3>1 DEF ToSet
  <2>2. CASE seq[i] \notin K
    <3>1. seqs[i] = <<>>
      BY <2>2
    <3> QED
      BY <2>2, <3>1 DEF ToSet
  <2> QED
    BY <2>1, <2>2
<1> HIDE DEF n, seqs
<1>5. /\ FlattenSeq(seqs) \in Seq(S)
      /\ \A x : x \in ToSet(FlattenSeq(seqs)) <=> \E i \in 1 .. n : x \in ToSet(seqs[i])
  BY <1>1, <1>2, FlattenElements
<1>6. \A x : x \in ToSet(seq) <=> \E i \in 1 .. n : x = seq[i]
  BY <1>1 DEF ToSet
<1>7. \A i \in 1 .. n : \A x : x \in ToSet(seqs[i]) <=> x = seq[i] /\ x \in K
  BY <1>4
<1>8. \A x : x \in ToSet(FlattenSeq(seqs)) <=> x \in ToSet(seq) /\ x \in K
  <2> HIDE <1>3, <1>4
  <2> QED
    BY <1>5, <1>6, <1>7
<1> QED
  BY <1>3, <1>5, <1>8

LEMMA SetToSeqElements ==
    ASSUME NEW S, IsFiniteSet(S)
    PROVE  /\ SetToSeq(S) \in [1 .. Cardinality(S) -> S] /\ Cardinality(S) \in Nat
           /\ SetToSeq(S) \in Seq(S)
           /\ ToSet(SetToSeq(S)) = S
           /\ \A i, j \in 1 .. Cardinality(S) :
                 SetToSeq(S)[i] = SetToSeq(S)[j] => i = j
<1> DEFINE n == Cardinality(S)
           seq == SetToSeq(S)
<1>1. n \in Nat /\ ExistsBijection(1 .. n, S)
  BY FS_CardinalityType
<1>2. \E f \in [1 .. n -> S] : IsInjective(f)
  BY <1>1 DEF ExistsBijection, Bijection, Injection
<1>3. seq \in [1 .. n -> S] /\ IsInjective(seq)
  BY <1>2 DEF SetToSeq
<1> HIDE DEF seq
<1>4. seq \in Injection(1 .. n, S)
  BY <1>3 DEF Injection
<1>5. IsFiniteSet(1 .. n) /\ Cardinality(1 .. n) = n
  <2>1. IsFiniteSet(1 .. n) /\ Cardinality(1 .. n) = IF 1 > n THEN 0 ELSE n - 1 + 1
    BY <1>1, FS_Interval
  <2> HIDE DEF n
  <2> QED
    BY <1>1, <2>1
<1>6. seq \in Surjection(1 .. n, S)
  BY <1>4, <1>5, FS_Injection
<1>7. ToSet(seq) = S
  BY <1>6 DEF Surjection, ToSet
<1>8. \A i, j \in 1 .. n : seq[i] = seq[j] => i = j
  BY <1>3 DEF IsInjective
<1>9. seq \in Seq(S)
  BY <1>1, <1>3
<1> QED
  BY <1>1, <1>3, <1>7, <1>8, <1>9 DEF seq

-----------------------------------------------------------------------------
(***************************************************************************)
(* StableSort puts each element in the place that the number of those      *)
(* before it gives it: the result has the same elements, in order.         *)
(***************************************************************************)
SortedBy(seq, less) ==
    LET upTo(i) == {j \in DOMAIN seq :
                       \/ <<seq[j], seq[i]>> \in less
                       \/ j <= i /\ <<seq[i], seq[j]>> \notin less}
        place == [i \in DOMAIN seq |-> Cardinality(upTo(i))]
    IN  [k \in DOMAIN seq |-> seq[CHOOSE i \in DOMAIN seq : place[i] = k]]

WeakOrder(less, S) ==
    /\ \A x, y \in S : <<x, y>> \in less => <<y, x>> \notin less
    /\ \A x, y, z \in S : <<x, z>> \in less => <<x, y>> \in less \/ <<y, z>> \in less

Sorts(perm, seq, n, less) ==
    /\ perm \in [1 .. n -> 1 .. n]
    /\ \A i \in 1 .. n : \E k \in 1 .. n : perm[k] = i
    /\ \A k, l \in 1 .. n : perm[k] = perm[l] => k = l
    /\ SortedBy(seq, less) = [k \in 1 .. n |-> seq[perm[k]]]
    /\ \A k, l \in 1 .. n : k < l => <<seq[perm[l]], seq[perm[k]]>> \notin less

LEMMA InjectionIsOnto ==
    ASSUME NEW n \in Nat, NEW s \in [1 .. n -> 1 .. n],
           \A k, l \in 1 .. n : s[k] = s[l] => k = l
    PROVE  \A i \in 1 .. n : \E k \in 1 .. n : s[k] = i
<1>1. IsInjective(s)
  BY DEF IsInjective
<1>2. s \in Injection(1 .. n, 1 .. n)
  BY <1>1 DEF Injection
<1>3. IsFiniteSet(1 .. n)
  BY FS_Interval
<1>4. s \in Surjection(1 .. n, 1 .. n)
  BY <1>2, <1>3, FS_Injection
<1> QED
  BY <1>4 DEF Surjection

ImageUpTo(s, p) == {s[q] : q \in 1 .. p}

LEMMA InjectionCounts ==
    ASSUME NEW n \in Nat, NEW p \in 1 .. n, NEW s \in [1 .. n -> 1 .. n],
           \A k, l \in 1 .. n : s[k] = s[l] => k = l
    PROVE  Cardinality(ImageUpTo(s, p)) = p
<1> DEFINE T == ImageUpTo(s, p)
           t == [q \in 1 .. p |-> s[q]]
<1>1. t \in [1 .. p -> T] /\ IsInjective(t) /\ \A x \in T : \E q \in 1 .. p : t[q] = x
  BY DEF IsInjective, ImageUpTo
<1>2. t \in Bijection(1 .. p, T)
  BY <1>1 DEF Bijection, Injection, Surjection
<1>3. ExistsBijection(1 .. p, T)
  BY <1>2 DEF ExistsBijection
<1>4. IsFiniteSet(1 .. p) /\ Cardinality(1 .. p) = p
  <2>1. IsFiniteSet(1 .. p) /\ Cardinality(1 .. p) = IF 1 > p THEN 0 ELSE p - 1 + 1
    BY FS_Interval
  <2> QED
    BY <2>1
<1> HIDE DEF T
<1> QED
  BY <1>3, <1>4, FS_Bijection DEF T

LEMMA SortingSorts ==
    ASSUME NEW S, NEW n \in Nat, NEW seq \in [1 .. n -> S],
           NEW less, WeakOrder(less, S)
    PROVE  \E perm : Sorts(perm, seq, n, less)
<1> DEFINE before(j, i) == \/ <<seq[j], seq[i]>> \in less
                           \/ j <= i /\ <<seq[i], seq[j]>> \notin less
           order == {ji \in (1 .. n) \X (1 .. n) : ji[1] # ji[2] /\ before(ji[1], ji[2])}
<1>1. \A j, i \in 1 .. n : <<j, i>> \in order <=> j # i /\ before(j, i)
  OBVIOUS
<1>2. \A i \in 1 .. n : seq[i] \in S
  OBVIOUS
<1>3. \A i, j \in 1 .. n : before(i, i) /\ (before(i, j) \/ before(j, i))
  BY <1>2 DEF WeakOrder
<1>4. \A i, j \in 1 .. n : before(i, j) /\ before(j, i) => i = j
  BY <1>2 DEF WeakOrder
<1>5. \A i, j, k \in 1 .. n : before(i, j) /\ before(j, k) => before(i, k)
  BY <1>2 DEF WeakOrder
<1> HIDE DEF order
<1>6. Orders(order, 1 .. n)
  <2> HIDE DEF before
  <2>1. \A x, y \in 1 .. n : x # y => <<x, y>> \in order \/ <<y, x>> \in order
    BY <1>1, <1>3
  <2>2. \A x, y, z \in 1 .. n :
           <<x, y>> \in order /\ <<y, z>> \in order => <<x, z>> \in order
    BY <1>1, <1>4, <1>5
  <2> QED
    BY <2>1, <2>2 DEF Orders
<1>7. PICK s \in [1 .. n -> 1 .. n] : InOrder(s, n, order)
  <2>1. IsFiniteSet(1 .. n) /\ Cardinality(1 .. n) = n
    <3>1. IsFiniteSet(1 .. n) /\ Cardinality(1 .. n) = IF 1 > n THEN 0 ELSE n - 1 + 1
      BY FS_Interval
    <3> QED
      BY <3>1
  <2> DEFINE I == 1 .. n
  <2>2. IsFiniteSet(I) /\ Cardinality(I) = n /\ Orders(order, I)
    BY <1>6, <2>1
  <2> HIDE DEF I
  <2>3. \E s \in [1 .. n -> I] : InOrder(s, n, order)
    BY <2>2, SortingExists
  <2> QED
    BY <2>3 DEF I
<1>8. \A k, l \in 1 .. n : k < l => s[k] # s[l] /\ before(s[k], s[l])
  <2> HIDE DEF before
  <2> QED
    BY <1>1, <1>7 DEF InOrder
<1>9. \A k, l \in 1 .. n : s[k] = s[l] => k = l
  <2> HIDE DEF before
  <2> QED
    BY <1>8
<1>10. \A i \in 1 .. n : \E k \in 1 .. n : s[k] = i
  BY <1>9, InjectionIsOnto
<1> DEFINE place == [i \in 1 .. n |-> Cardinality({j \in 1 .. n : before(j, i)})]
<1>11. ASSUME NEW p \in 1 .. n
       PROVE  place[s[p]] = p
  <2> HIDE DEF before
  <2>1. \A q \in 1 .. n : before(s[q], s[p]) <=> q \in 1 .. p
    BY <1>3, <1>4, <1>8, <1>9
  <2>2. {j \in 1 .. n : before(j, s[p])} = ImageUpTo(s, p)
    <3>1. \A q \in 1 .. p : q \in 1 .. n
      OBVIOUS
    <3> QED
      BY <1>10, <2>1, <3>1 DEF ImageUpTo
  <2>3. Cardinality(ImageUpTo(s, p)) = p
    BY <1>9, InjectionCounts
  <2> QED
    BY <2>2, <2>3
<1>12. SortedBy(seq, less) = [k \in 1 .. n |-> seq[CHOOSE i \in 1 .. n : place[i] = k]]
  BY DEF SortedBy
<1> HIDE DEF place, before
<1>13. \A k \in 1 .. n : (CHOOSE i \in 1 .. n : place[i] = k) = s[k]
  <2> SUFFICES ASSUME NEW k \in 1 .. n
               PROVE  (CHOOSE i \in 1 .. n : place[i] = k) = s[k]
    OBVIOUS
  <2>1. \A i \in 1 .. n : place[i] = k <=> i = s[k]
    BY <1>10, <1>11
  <2> QED
    BY <2>1
<1>14. SortedBy(seq, less) = [k \in 1 .. n |-> seq[s[k]]]
  BY <1>12, <1>13
<1>15. \A k, l \in 1 .. n : k < l => <<seq[s[l]], seq[s[k]]>> \notin less
  BY <1>2, <1>8 DEF before, WeakOrder
<1> QED
  BY <1>9, <1>10, <1>14, <1>15 DEF Sorts

-----------------------------------------------------------------------------
(***************************************************************************)
(* A fold goes through a value for each prefix: "at" gives them.           *)
(***************************************************************************)
Stages(at, base, step, V, n) ==
    /\ at \in [0 .. n -> V]
    /\ at[0] = base
    /\ \A k \in 0 .. n - 1 : at[k + 1] = step[<<at[k], k + 1>>]

FoldsWithin(it, base, step, V, n) ==
    /\ it[{}] = base
    /\ \A s \in (SUBSET (1 .. n)) \ {{}} :
          it[s \ {Max(s)}] \in V => it[s] = step[<<it[s \ {Max(s)}], Max(s)>>]

HasStages(it, base, step, V, n) ==
    \E at : Stages(at, base, step, V, n) /\ at[n] = it[1 .. n]

LEMMA FoldHasStages ==
    ASSUME NEW n \in Nat, NEW V, NEW base \in V, NEW step \in [V \X (1 .. n) -> V],
           NEW it, FoldsWithin(it, base, step, V, n)
    PROVE  HasStages(it, base, step, V, n)
<1> DEFINE P == {k \in Nat : k <= n => it[1 .. k] \in V}
           at == [k \in 0 .. n |-> it[1 .. k]]
<1>1. 1 .. 0 = {} /\ it[{}] = base
  BY DEF FoldsWithin
<1>2. ASSUME NEW k \in 0 .. n - 1, it[1 .. k] \in V
      PROVE  it[1 .. k + 1] = step[<<it[1 .. k], k + 1>>] /\ it[1 .. k + 1] \in V
  <2> DEFINE s == 1 .. k + 1
  <2>0. k \in Nat /\ k + 1 \in Nat \ {0} /\ k + 1 \in 1 .. n
    OBVIOUS
  <2>1. s \in SUBSET (1 .. n) /\ k + 1 \in s /\ s \ {k + 1} = 1 .. k
    <3>1. s \in SUBSET (1 .. n)
      OBVIOUS
    <3>2. k + 1 \in s
      OBVIOUS
    <3>3. s \ {k + 1} = 1 .. k
      OBVIOUS
    <3> QED
      BY <3>1, <3>2, <3>3
  <2>2. Max(s) = k + 1
    BY <2>0, MaxOfInterval
  <2> HIDE DEF s
  <2>3. s \in (SUBSET (1 .. n)) \ {{}} /\ s \ {Max(s)} = 1 .. k
    BY <2>1, <2>2
  <2>4. it[s] = step[<<it[1 .. k], k + 1>>]
    BY <1>2, <2>2, <2>3 DEF FoldsWithin
  <2>5. step[<<it[1 .. k], k + 1>>] \in V
    BY <1>2, <2>0
  <2> QED
    BY <2>4, <2>5 DEF s
<1>3. 0 \in P
  BY <1>1
<1>4. ASSUME NEW k \in P
      PROVE  k + 1 \in P
  <2> SUFFICES ASSUME k + 1 <= n PROVE it[1 .. k + 1] \in V
    OBVIOUS
  <2>1. k \in 0 .. n - 1 /\ it[1 .. k] \in V
    OBVIOUS
  <2> QED
    BY <1>2, <2>1
<1> HIDE DEF P
<1>5. Nat \subseteq P
  <2>1. P \in SUBSET Nat
    BY DEF P
  <2>2. \A k \in Nat : k \in P => k + 1 \in P
    BY <1>4
  <2> QED
    BY <1>3, <2>2, NumberInduction
<1>6. \A k \in 0 .. n : it[1 .. k] \in V
  BY <1>5 DEF P
<1>7. at \in [0 .. n -> V]
  BY <1>6
<1>8. at[0] = base /\ at[n] = it[1 .. n]
  BY <1>1
<1>9. \A k \in 0 .. n - 1 : at[k + 1] = step[<<at[k], k + 1>>]
  <2> SUFFICES ASSUME NEW k \in 0 .. n - 1
               PROVE  at[k + 1] = step[<<at[k], k + 1>>]
    OBVIOUS
  <2>1. k \in 0 .. n /\ k + 1 \in 0 .. n
    OBVIOUS
  <2> QED
    BY <1>2, <1>6, <2>1
<1> QED
  BY <1>7, <1>8, <1>9 DEF Stages, HasStages

-----------------------------------------------------------------------------
(* Ranges as the functions make and take them. *)
ValidRanges == {r \in [from : Int, to : Int] : r.from <= r.to}

LEMMA SpanIsValid ==
    ASSUME NEW a \in Int, NEW b \in Int
    PROVE  /\ Span(a, b).from = a /\ Span(a, b).to = b
           /\ a <= b => Span(a, b) \in ValidRanges
  BY DEF Span, ValidRanges

LEMMA ValidRange ==
    ASSUME NEW r \in ValidRanges
    PROVE  r.from \in Int /\ r.to \in Int /\ r.from <= r.to /\ r = Span(r.from, r.to)
  BY DEF ValidRanges, Span

LEMMA MaxOfTwo ==
    ASSUME NEW a \in Int, NEW b \in Int
    PROVE  Max({a, b}) = IF a >= b THEN a ELSE b
<1>1. \A x \in {a, b} : (IF a >= b THEN a ELSE b) >= x
  OBVIOUS
<1>2. Max({a, b}) \in {a, b} /\ \A x \in {a, b} : Max({a, b}) >= x
  BY <1>1 DEF Max
<1> QED
  BY <1>2

LEMMA MinOfTwo ==
    ASSUME NEW a \in Int, NEW b \in Int
    PROVE  Min({a, b}) = IF a <= b THEN a ELSE b
<1>1. \A x \in {a, b} : (IF a <= b THEN a ELSE b) <= x
  OBVIOUS
<1>2. Min({a, b}) \in {a, b} /\ \A x \in {a, b} : Min({a, b}) <= x
  BY <1>1 DEF Min
<1> QED
  BY <1>2

(* What a list of ranges stands for, number by number. *)
LEMMA PointsOf ==
    ASSUME NEW ranges
    PROVE  \A x : x \in Points(ranges) <=>
                    \E i \in DOMAIN ranges : x \in ranges[i].from .. ranges[i].to
  BY DEF Points, ToSet

Apart(ranges) ==
    \A i, j \in DOMAIN ranges :
        i # j => \A x : ~ (/\ x \in ranges[i].from .. ranges[i].to
                           /\ x \in ranges[j].from .. ranges[j].to)

Sorted(ranges) == \A k, l \in DOMAIN ranges : k < l => ranges[k].from <= ranges[l].from

LEMMA RangeSortSorts ==
    ASSUME NEW n \in Nat, NEW ranges \in [1 .. n -> ValidRanges]
    PROVE  /\ RangeSort(ranges) \in [1 .. n -> ValidRanges]
           /\ Sorted(RangeSort(ranges))
           /\ ToSet(RangeSort(ranges)) = ToSet(ranges)
           /\ Apart(ranges) => Apart(RangeSort(ranges))
<1> DEFINE less == {ab \in ValidRanges \X ValidRanges : ab[1].from < ab[2].from}
<1>1. \A a, b \in ValidRanges : <<a, b>> \in less <=> a.from < b.from
  OBVIOUS
<1> HIDE DEF less
<1>2. WeakOrder(less, ValidRanges)
  BY <1>1, ValidRange DEF WeakOrder
<1>3. PICK perm : Sorts(perm, ranges, n, less)
  BY <1>2, SortingSorts
<1>4. RangeSort(ranges) = SortedBy(ranges, less)
  <2>1. \A i, j \in 1 .. n : <<ranges[i], ranges[j]>> \in less <=> ranges[i].from < ranges[j].from
    BY <1>1
  <2>2. DOMAIN ranges = 1 .. n
    OBVIOUS
  <2> DEFINE first(i) == {j \in 1 .. n : \/ ranges[j].from < ranges[i].from
                                         \/ j <= i /\ ~ (ranges[i].from < ranges[j].from)}
             second(i) == {j \in 1 .. n : \/ <<ranges[j], ranges[i]>> \in less
                                          \/ j <= i /\ <<ranges[i], ranges[j]>> \notin less}
             place == [i \in 1 .. n |-> Cardinality(first(i))]
             rank == [i \in 1 .. n |-> Cardinality(second(i))]
  <2>3. \A i \in 1 .. n : first(i) = second(i)
    BY <2>1
  <2>4. place = rank
    <3> HIDE DEF first, second
    <3> QED
      BY <2>3
  <2>5. RangeSort(ranges) = [k \in 1 .. n |-> ranges[CHOOSE i \in 1 .. n : place[i] = k]]
    BY <2>2 DEF RangeSort, StableSort
  <2>6. SortedBy(ranges, less) = [k \in 1 .. n |-> ranges[CHOOSE i \in 1 .. n : rank[i] = k]]
    BY <2>2 DEF SortedBy
  <2> HIDE DEF place, rank
  <2> QED
    BY <2>4, <2>5, <2>6
<1> DEFINE sorted == [k \in 1 .. n |-> ranges[perm[k]]]
<1>5. RangeSort(ranges) = sorted
  BY <1>3, <1>4 DEF Sorts
<1>6. perm \in [1 .. n -> 1 .. n]
  BY <1>3 DEF Sorts
<1>7. sorted \in [1 .. n -> ValidRanges]
  BY <1>6
<1>8. Sorted(sorted)
  <2> SUFFICES ASSUME NEW k \in 1 .. n, NEW l \in 1 .. n, k < l
               PROVE  sorted[k].from <= sorted[l].from
    BY DEF Sorted
  <2>1. <<ranges[perm[l]], ranges[perm[k]]>> \notin less
    BY <1>3 DEF Sorts
  <2>2. ranges[perm[k]] \in ValidRanges /\ ranges[perm[l]] \in ValidRanges
    BY <1>6
  <2>3. ~ (ranges[perm[l]].from < ranges[perm[k]].from)
    BY <1>1, <2>1, <2>2
  <2>4. ranges[perm[l]].from \in Int /\ ranges[perm[k]].from \in Int
    BY <2>2, ValidRange
  <2>5. sorted[k] = ranges[perm[k]] /\ sorted[l] = ranges[perm[l]]
    OBVIOUS
  <2> HIDE DEF sorted
  <2> QED
    BY <2>3, <2>4, <2>5
<1>9. ToSet(sorted) = ToSet(ranges)
  <2>1. \A i \in 1 .. n : \E k \in 1 .. n : perm[k] = i
    BY <1>3 DEF Sorts
  <2> QED
    BY <1>6, <2>1 DEF ToSet
<1>10. ASSUME Apart(ranges)
       PROVE  Apart(sorted)
  <2>1. \A k, l \in 1 .. n : perm[k] = perm[l] => k = l
    BY <1>3 DEF Sorts
  <2> SUFFICES ASSUME NEW k \in 1 .. n, NEW l \in 1 .. n, k # l, NEW x,
                      x \in sorted[k].from .. sorted[k].to,
                      x \in sorted[l].from .. sorted[l].to
               PROVE  FALSE
    BY DEF Apart
  <2>2. perm[k] \in DOMAIN ranges /\ perm[l] \in DOMAIN ranges /\ perm[k] # perm[l]
    BY <1>6, <2>1
  <2>3. sorted[k] = ranges[perm[k]] /\ sorted[l] = ranges[perm[l]]
    OBVIOUS
  <2> HIDE DEF sorted
  <2> QED
    BY <1>10, <2>2, <2>3 DEF Apart
<1> QED
  BY <1>5, <1>7, <1>8, <1>9, <1>10

-----------------------------------------------------------------------------
(***************************************************************************)
(* RangeMerge: the result is merged, and stands for what the list did.     *)
(***************************************************************************)
MergeStep(merged, r) ==
    IF merged # <<>> /\ r.from <= Last(merged).to + 1
    THEN [merged EXCEPT ![Len(merged)].to = Max({@, r.to})]
    ELSE Append(merged, r)

Touches(merged, r) == merged # <<>> /\ r.from <= merged[Len(merged)].to + 1

Wider(last, r) == Span(last.from, IF last.to >= r.to THEN last.to ELSE r.to)

LEMMA WiderRange ==
    ASSUME NEW last \in ValidRanges, NEW r \in ValidRanges
    PROVE  /\ Wider(last, r) \in ValidRanges
           /\ Wider(last, r).from = last.from
           /\ Wider(last, r).to = IF last.to >= r.to THEN last.to ELSE r.to
           /\ [last EXCEPT !.to = Max({@, r.to})] = Wider(last, r)
<1>1. last.from \in Int /\ last.to \in Int /\ last.from <= last.to /\ r.to \in Int
  BY ValidRange
<1>2. Max({last.to, r.to}) = IF last.to >= r.to THEN last.to ELSE r.to
  BY <1>1, MaxOfTwo
<1>3. [last EXCEPT !.to = Max({@, r.to})] = Wider(last, r)
  <2>1. last = [from |-> last.from, to |-> last.to]
    BY DEF ValidRanges
  <2> QED
    BY <1>2, <2>1 DEF Wider, Span
<1>4. /\ Wider(last, r) \in ValidRanges
      /\ Wider(last, r).from = last.from
      /\ Wider(last, r).to = IF last.to >= r.to THEN last.to ELSE r.to
  BY <1>1 DEF Wider, Span, ValidRanges
<1> QED
  BY <1>3, <1>4

LEMMA MergeStepEffect ==
    ASSUME NEW merged \in Seq(ValidRanges), NEW r \in ValidRanges
    PROVE  /\ MergeStep(merged, r) \in Seq(ValidRanges)
           /\ MergeStep(merged, r) # <<>>
           /\ Touches(merged, r) =>
                 MergeStep(merged, r) =
                    [merged EXCEPT ![Len(merged)] = Wider(merged[Len(merged)], r)]
           /\ ~Touches(merged, r) => MergeStep(merged, r) = Append(merged, r)
<1>1. CASE Touches(merged, r)
  <2> DEFINE L == Len(merged)
  <2>1. merged # <<>> /\ L \in 1 .. L /\ L \in DOMAIN merged /\ merged[L] \in ValidRanges
    BY <1>1 DEF Touches
  <2>2. [merged[L] EXCEPT !.to = Max({@, r.to})] = Wider(merged[L], r)
    BY <2>1, WiderRange
  <2>3. MergeStep(merged, r) = [merged EXCEPT ![L] = [merged[L] EXCEPT !.to = Max({@, r.to})]]
    BY <1>1, <2>1 DEF MergeStep, Touches, Last
  <2>4. Wider(merged[L], r) \in ValidRanges
    BY <2>1, WiderRange
  <2>5. MergeStep(merged, r) = [merged EXCEPT ![L] = Wider(merged[L], r)]
    BY <2>2, <2>3
  <2>6. [merged EXCEPT ![L] = Wider(merged[L], r)] \in Seq(ValidRanges)
    BY <2>1, <2>4
  <2>7. Len([merged EXCEPT ![L] = Wider(merged[L], r)]) = L
    BY <2>1
  <2> QED
    BY <1>1, <2>1, <2>5, <2>6, <2>7
<1>2. CASE ~Touches(merged, r)
  <2>1. MergeStep(merged, r) = Append(merged, r)
    BY <1>2 DEF MergeStep, Touches, Last
  <2> QED
    BY <1>2, <2>1
<1> QED
  BY <1>1, <1>2

Merges(it, seq) ==
    it = [s \in SUBSET (DOMAIN seq) |->
            IF s = {} THEN <<>> ELSE MergeStep(it[s \ {Max(s)}], seq[Max(s)])]

MergeStages(at, sorted, n) ==
    /\ at \in [0 .. n -> Seq(ValidRanges)]
    /\ at[0] = <<>>
    /\ \A k \in 0 .. n - 1 : at[k + 1] = MergeStep(at[k], sorted[k + 1])

LEMMA MaxInInterval ==
    ASSUME NEW n \in Nat, NEW s \in (SUBSET (1 .. n)) \ {{}}
    PROVE  Max(s) \in s /\ Max(s) \in 1 .. n
<1>1. IsFiniteSet(1 .. n) /\ 1 .. n \subseteq Int
  BY FS_Interval
<1>2. IsFiniteSet(s) /\ s \in SUBSET Int
  BY <1>1, FS_Subset
<1> QED
  BY <1>2, MaxIsElement

LEMMA MergingHasStages ==
    ASSUME NEW n \in Nat, NEW ranges \in [1 .. n -> ValidRanges]
    PROVE  \E at : MergeStages(at, RangeSort(ranges), n) /\ at[n] = RangeMerge(ranges)
<1> DEFINE sorted == RangeSort(ranges)
           V == Seq(ValidRanges)
           step == [p \in V \X (1 .. n) |-> MergeStep(p[1], sorted[p[2]])]
           base == <<>>
<1>1. sorted \in [1 .. n -> ValidRanges]
  BY RangeSortSorts
<1> HIDE DEF sorted
<1>2. base \in V
  OBVIOUS
<1>3. \A v \in V, i \in 1 .. n : MergeStep(v, sorted[i]) \in V
  BY <1>1, MergeStepEffect
<1>4. step \in [V \X (1 .. n) -> V]
  BY <1>3
<1>5. \A v \in V, i \in 1 .. n : step[<<v, i>>] = MergeStep(v, sorted[i])
  OBVIOUS
<1>6. \E it : Merges(it, sorted)
  <2> HIDE DEF V, step, base
  <2>1. PICK it \in [SUBSET (1 .. n) -> V] : FoldSolution(step, base, it, n)
    BY <1>2, <1>4, FoldSolutionExists
  <2>2. ASSUME NEW s \in (SUBSET (1 .. n)) \ {{}}
        PROVE  it[s] = MergeStep(it[s \ {Max(s)}], sorted[Max(s)])
    <3>1. it[s] = step[<<it[s \ {Max(s)}], Max(s)>>]
      BY <2>1 DEF FoldSolution
    <3>2. Max(s) \in 1 .. n /\ it[s \ {Max(s)}] \in V
      BY <2>1, MaxInInterval
    <3> QED
      BY <1>5, <3>1, <3>2
  <2>3. it[{}] = base
    BY <2>1 DEF FoldSolution
  <2>4. it = [s \in SUBSET (1 .. n) |-> it[s]]
    OBVIOUS
  <2>5. DOMAIN sorted = 1 .. n
    BY <1>1
  <2> QED
    BY <2>2, <2>3, <2>4, <2>5 DEF Merges, base
<1> DEFINE it == CHOOSE f : Merges(f, sorted)
<1>7. Merges(it, sorted)
  BY <1>6
<1>8. RangeMerge(ranges) = it[1 .. n]
  <2>1. DOMAIN sorted = 1 .. n
    BY <1>1
  <2> QED
    BY <2>1 DEF sorted, RangeMerge, FoldLeft, MapThenFoldSet, Merges, MergeStep
<1> HIDE DEF it, V, step
<1>9. FoldsWithin(it, base, step, V, n)
  <2>1. it[{}] = base
    BY <1>7 DEF Merges
  <2>2. ASSUME NEW s \in (SUBSET (1 .. n)) \ {{}}, it[s \ {Max(s)}] \in V
        PROVE  it[s] = step[<<it[s \ {Max(s)}], Max(s)>>]
    <3>1. DOMAIN sorted = 1 .. n
      BY <1>1
    <3>2. it[s] = MergeStep(it[s \ {Max(s)}], sorted[Max(s)])
      BY <1>7, <3>1 DEF Merges
    <3>3. Max(s) \in 1 .. n
      BY MaxInInterval
    <3> QED
      BY <1>5, <2>2, <3>2, <3>3
  <2> HIDE DEF base
  <2> QED
    BY <2>1, <2>2 DEF FoldsWithin
<1> HIDE DEF base
<1>10. PICK at : Stages(at, base, step, V, n) /\ at[n] = it[1 .. n]
  <2>1. HasStages(it, base, step, V, n)
    BY <1>2, <1>4, <1>9, FoldHasStages
  <2> QED
    BY <2>1 DEF HasStages
<1>11. \A k \in 0 .. n - 1 : at[k + 1] = MergeStep(at[k], sorted[k + 1])
  <2> SUFFICES ASSUME NEW k \in 0 .. n - 1
               PROVE  at[k + 1] = MergeStep(at[k], sorted[k + 1])
    OBVIOUS
  <2>1. at[k] \in V /\ k + 1 \in 1 .. n
    BY <1>10 DEF Stages
  <2>2. at[k + 1] = step[<<at[k], k + 1>>]
    BY <1>10 DEF Stages
  <2> QED
    BY <1>5, <2>1, <2>2
<1>12. MergeStages(at, sorted, n)
  BY <1>10, <1>11 DEF MergeStages, Stages, V, base
<1> QED
  BY <1>8, <1>10, <1>12 DEF sorted

MergedUpTo(m, sorted, k) ==
    /\ m \in Seq(ValidRanges)
    /\ IsMerged(m)
    /\ m # <<>> => \E i \in 1 .. k : m[Len(m)].from = sorted[i].from
    /\ \A x : x \in Points(m) <=> \E i \in 1 .. k : x \in sorted[i].from .. sorted[i].to

LEMMA MergeStepMerges ==
    ASSUME NEW n \in Nat, NEW sorted \in [1 .. n -> ValidRanges], Sorted(sorted),
           NEW k \in 0 .. n - 1, NEW m, MergedUpTo(m, sorted, k)
    PROVE  MergedUpTo(MergeStep(m, sorted[k + 1]), sorted, k + 1)
<1> DEFINE r == sorted[k + 1]
           L == Len(m)
           next == MergeStep(m, r)
<1>1. m \in Seq(ValidRanges) /\ L \in Nat /\ DOMAIN m = 1 .. L
  BY DEF MergedUpTo
<1>2. k + 1 \in 1 .. n /\ r \in ValidRanges /\ k \in Nat
  OBVIOUS
<1>3. r.from \in Int /\ r.to \in Int /\ r.from <= r.to
  BY <1>2, ValidRange
<1>4. \A i \in 1 .. L : m[i] \in ValidRanges
  BY <1>1
<1>5. m # <<>> => m[L].from <= r.from
  <2> SUFFICES ASSUME m # <<>> PROVE m[L].from <= r.from
    OBVIOUS
  <2>1. PICK i \in 1 .. k : m[L].from = sorted[i].from
    BY DEF MergedUpTo
  <2>2. i \in DOMAIN sorted /\ k + 1 \in DOMAIN sorted /\ i < k + 1
    BY <1>2
  <2> QED
    BY <2>1, <2>2 DEF Sorted
<1>6. /\ next \in Seq(ValidRanges)
      /\ next # <<>>
      /\ Touches(m, r) => next = [m EXCEPT ![L] = Wider(m[L], r)]
      /\ ~Touches(m, r) => next = Append(m, r)
  BY <1>1, <1>2, MergeStepEffect
<1>7. IsMerged(m)
  BY DEF MergedUpTo
<1>8. \A x : x \in Points(m) <=> \E i \in 1 .. L : x \in m[i].from .. m[i].to
  BY <1>1, PointsOf
<1>9. \A x : (\E i \in 1 .. k + 1 : x \in sorted[i].from .. sorted[i].to)
                <=> x \in Points(m) \/ x \in r.from .. r.to
  <2>1. \A i \in 1 .. k + 1 : i \in 1 .. k \/ i = k + 1
    BY <1>2
  <2>2. k + 1 \in 1 .. k + 1 /\ \A i \in 1 .. k : i \in 1 .. k + 1
    BY <1>2
  <2>3. \A x : x \in Points(m) <=> \E i \in 1 .. k : x \in sorted[i].from .. sorted[i].to
    BY DEF MergedUpTo
  <2> QED
    BY <2>1, <2>2, <2>3
<1> HIDE DEF r, next, L
<1>10. CASE Touches(m, r)
  <2> DEFINE w == Wider(m[L], r)
  <2>1. m # <<>> /\ L \in 1 .. L /\ L # 0 /\ r.from <= m[L].to + 1
    BY <1>1, <1>10 DEF Touches, L
  <2>2. /\ w \in ValidRanges /\ w.from = m[L].from
        /\ w.to = IF m[L].to >= r.to THEN m[L].to ELSE r.to
    BY <1>2, <1>4, <2>1, WiderRange
  <2> HIDE DEF w
  <2>3. next = [m EXCEPT ![L] = w]
    BY <1>6, <1>10 DEF w
  <2>4. Len(next) = L /\ DOMAIN next = 1 .. L /\ next[L] = w
        /\ \A i \in 1 .. L : i # L => next[i] = m[i]
    BY <1>1, <2>1, <2>3 DEF L
  <2>5. IsMerged(next)
    <3>1. \A i \in 1 .. L : IsValidRange(next[i])
      BY <1>4, <2>2, <2>4, ValidRange DEF IsValidRange
    <3>2. \A i \in 1 .. L - 1 : next[i].to + 1 < next[i + 1].from
      <4> SUFFICES ASSUME NEW i \in 1 .. L - 1
                   PROVE  next[i].to + 1 < next[i + 1].from
        OBVIOUS
      <4>1. i \in 1 .. L /\ i # L /\ i + 1 \in 1 .. L
        BY <1>1
      <4>2. next[i] = m[i] /\ next[i + 1].from = m[i + 1].from
        BY <2>2, <2>4, <4>1
      <4>3. m[i].to + 1 < m[i + 1].from
        BY <1>7 DEF IsMerged, L
      <4> QED
        BY <4>2, <4>3
    <3> QED
      BY <2>4, <3>1, <3>2 DEF IsMerged
  <2>6. \E i \in 1 .. k + 1 : next[Len(next)].from = sorted[i].from
    <3>1. PICK i \in 1 .. k : m[L].from = sorted[i].from
      BY <2>1 DEF MergedUpTo, L
    <3>2. i \in 1 .. k + 1
      BY <1>2
    <3> QED
      BY <2>2, <2>4, <3>1, <3>2
  <2>7. \A x : x \in Points(next) <=> x \in Points(m) \/ x \in r.from .. r.to
    <3>1. \A x : x \in w.from .. w.to <=> x \in m[L].from .. m[L].to \/ x \in r.from .. r.to
      <4>1. m[L].from \in Int /\ m[L].to \in Int /\ m[L].from <= m[L].to
        BY <1>4, <2>1, ValidRange
      <4> QED
        BY <1>3, <1>5, <2>1, <2>2, <4>1
    <3>2. \A x : x \in Points(next) <=> \E i \in 1 .. L : x \in next[i].from .. next[i].to
      BY <2>4, PointsOf
    <3> QED
      BY <1>8, <2>1, <2>4, <3>1, <3>2
  <2> QED
    BY <1>6, <1>9, <2>5, <2>6, <2>7 DEF MergedUpTo, next, r
<1>11. CASE ~Touches(m, r)
  <2>1. next = Append(m, r)
    BY <1>6, <1>11
  <2>2. Len(next) = L + 1 /\ DOMAIN next = 1 .. L + 1 /\ next[L + 1] = r
        /\ \A i \in 1 .. L : next[i] = m[i]
    BY <1>1, <1>2, <2>1 DEF L
  <2>3. \A i \in 1 .. L + 1 : i \in 1 .. L \/ i = L + 1
    BY <1>1
  <2>4. \A i \in 1 .. L : i \in 1 .. L + 1
    BY <1>1
  <2>5. IsMerged(next)
    <3>1. \A i \in 1 .. L + 1 : IsValidRange(next[i])
      BY <1>2, <1>4, <2>2, <2>3, ValidRange DEF IsValidRange
    <3>2. \A i \in 1 .. (L + 1) - 1 : next[i].to + 1 < next[i + 1].from
      <4> SUFFICES ASSUME NEW i \in 1 .. (L + 1) - 1
                   PROVE  next[i].to + 1 < next[i + 1].from
        OBVIOUS
      <4>1. i \in 1 .. L
        BY <1>1
      <4>2. CASE i = L
        <5>1. m # <<>>
          BY <1>1, <4>1 DEF L
        <5>2. ~ (r.from <= m[L].to + 1)
          BY <1>11, <5>1 DEF Touches, L
        <5>3. m[L].to \in Int
          BY <1>4, <4>1, <4>2, ValidRange
        <5>4. next[i] = m[L] /\ next[i + 1] = r
          BY <2>2, <4>1, <4>2
        <5> QED
          BY <1>3, <5>2, <5>3, <5>4
      <4>3. CASE i # L
        <5>1. i \in 1 .. L - 1 /\ i + 1 \in 1 .. L
          BY <1>1, <4>1, <4>3
        <5>2. m[i].to + 1 < m[i + 1].from
          BY <1>7, <5>1 DEF IsMerged, L
        <5> QED
          BY <2>2, <4>1, <5>1, <5>2
      <4> QED
        BY <4>2, <4>3
    <3> QED
      BY <2>2, <3>1, <3>2 DEF IsMerged
  <2>6. \E i \in 1 .. k + 1 : next[Len(next)].from = sorted[i].from
    <3>1. k + 1 \in 1 .. k + 1
      BY <1>2
    <3> QED
      BY <2>2, <3>1 DEF r
  <2>7. \A x : x \in Points(next) <=> x \in Points(m) \/ x \in r.from .. r.to
    <3>1. \A x : x \in Points(next) <=> \E i \in 1 .. L + 1 : x \in next[i].from .. next[i].to
      BY <2>2, PointsOf
    <3>2. L + 1 \in 1 .. L + 1
      BY <1>1
    <3> QED
      BY <1>8, <2>2, <2>3, <2>4, <3>1, <3>2
  <2> QED
    BY <1>6, <1>9, <2>5, <2>6, <2>7 DEF MergedUpTo, next, r
<1> QED
  BY <1>10, <1>11

(* Any list of ranges becomes a merged one that stands for the same numbers. *)
THEOREM RangeMergeMerges ==
    ASSUME NEW n \in Nat, NEW ranges \in [1 .. n -> ValidRanges]
    PROVE  /\ RangeMerge(ranges) \in Seq(ValidRanges)
           /\ IsMerged(RangeMerge(ranges))
           /\ Points(RangeMerge(ranges)) = Points(ranges)
<1> DEFINE sorted == RangeSort(ranges)
<1>1. /\ sorted \in [1 .. n -> ValidRanges] /\ Sorted(sorted)
      /\ ToSet(sorted) = ToSet(ranges)
  BY RangeSortSorts
<1>2. PICK at : MergeStages(at, sorted, n) /\ at[n] = RangeMerge(ranges)
  BY MergingHasStages
<1> HIDE DEF sorted
<1> DEFINE P == {k \in Nat : k <= n => MergedUpTo(at[k], sorted, k)}
<1>3. 0 \in P
  <2>1. at[0] = <<>> /\ <<>> \in Seq(ValidRanges) /\ Len(<<>>) = 0 /\ 1 .. 0 = {}
    BY <1>2 DEF MergeStages
  <2>2. \A x : x \notin Points(<<>>)
    BY PointsOf
  <2>3. IsMerged(<<>>)
    BY DEF IsMerged
  <2> QED
    BY <2>1, <2>2, <2>3 DEF MergedUpTo
<1>4. ASSUME NEW k \in P
      PROVE  k + 1 \in P
  <2> SUFFICES ASSUME k + 1 <= n PROVE MergedUpTo(at[k + 1], sorted, k + 1)
    OBVIOUS
  <2>1. k \in 0 .. n - 1 /\ MergedUpTo(at[k], sorted, k)
    OBVIOUS
  <2>2. at[k + 1] = MergeStep(at[k], sorted[k + 1])
    BY <1>2, <2>1 DEF MergeStages
  <2> QED
    BY <1>1, <2>1, <2>2, MergeStepMerges
<1> HIDE DEF P
<1>5. P \in SUBSET Nat
  BY DEF P
<1>6. n \in P
  BY <1>3, <1>4, <1>5, NumberInduction
<1>7. MergedUpTo(RangeMerge(ranges), sorted, n)
  BY <1>2, <1>6 DEF P
<1>8. Points(sorted) = Points(ranges)
  BY <1>1 DEF Points
<1>9. DOMAIN sorted = 1 .. n
  BY <1>1
<1>10. \A x : x \in Points(RangeMerge(ranges)) <=> x \in Points(sorted)
  BY <1>7, <1>9, PointsOf DEF MergedUpTo
<1> QED
  BY <1>7, <1>8, <1>10 DEF MergedUpTo

-----------------------------------------------------------------------------
(***************************************************************************)
(* RangeExclude and the functions on lists made of it: set difference.     *)
(***************************************************************************)
LEMMA FlattenPoints ==
    ASSUME NEW n \in Nat, NEW seqs \in [1 .. n -> Seq(ValidRanges)]
    PROVE  /\ FlattenSeq(seqs) \in Seq(ValidRanges)
           /\ \A x : x \in Points(FlattenSeq(seqs)) <=> \E i \in 1 .. n : x \in Points(seqs[i])
           /\ (/\ \A i \in 1 .. n : Apart(seqs[i])
               /\ \A i, j \in 1 .. n :
                     i # j => \A x : ~ (x \in Points(seqs[i]) /\ x \in Points(seqs[j])))
              => Apart(FlattenSeq(seqs))
<1> DEFINE flat == FlattenSeq(seqs)
<1>1. flat \in Seq(ValidRanges) /\ IsFlat(flat, seqs, n)
  BY FlattenPlaces
<1>2. \A r : r \in ToSet(flat) <=> \E i \in 1 .. n : r \in ToSet(seqs[i])
  BY FlattenElements
<1> HIDE DEF flat
<1>3. \A x : x \in Points(flat) <=> \E i \in 1 .. n : x \in Points(seqs[i])
  BY <1>2 DEF Points
<1>4. ASSUME \A i \in 1 .. n : Apart(seqs[i]),
             \A i, j \in 1 .. n :
                i # j => \A x : ~ (x \in Points(seqs[i]) /\ x \in Points(seqs[j]))
      PROVE  Apart(flat)
  <2>1. PICK of, at : Placed(flat, seqs, n, of, at)
    BY <1>1 DEF IsFlat
  <2>2. DOMAIN flat = 1 .. Len(flat) /\ \A i \in 1 .. n : DOMAIN seqs[i] = 1 .. Len(seqs[i])
    BY <1>1
  <2> SUFFICES ASSUME NEW k \in 1 .. Len(flat), NEW l \in 1 .. Len(flat), k # l, NEW x,
                      x \in flat[k].from .. flat[k].to, x \in flat[l].from .. flat[l].to
               PROVE  FALSE
    BY <2>2 DEF Apart
  <2>3. /\ of[k] \in 1 .. n /\ at[k] \in DOMAIN seqs[of[k]] /\ flat[k] = seqs[of[k]][at[k]]
        /\ of[l] \in 1 .. n /\ at[l] \in DOMAIN seqs[of[l]] /\ flat[l] = seqs[of[l]][at[l]]
    <3>1. \A j \in 1 .. Len(flat) : of[j] \in 1 .. n
      BY <2>1 DEF Placed
    <3>2. \A j \in 1 .. Len(flat) :
             at[j] \in 1 .. Len(seqs[of[j]]) /\ flat[j] = seqs[of[j]][at[j]]
      BY <2>1 DEF Placed
    <3> QED
      BY <2>2, <3>1, <3>2
  <2>4. x \in Points(seqs[of[k]]) /\ x \in Points(seqs[of[l]])
    BY <2>3, PointsOf
  <2>5. of[k] = of[l]
    BY <1>4, <2>3, <2>4
  <2>6. at[k] # at[l]
    <3>1. k < l \/ l < k
      OBVIOUS
    <3>2. at[k] \in Nat /\ at[l] \in Nat /\ of[k] \in Int
      BY <2>1, <2>3 DEF Placed
    <3>3. k < l => of[k] < of[l] \/ (of[k] = of[l] /\ at[k] < at[l])
      BY <2>1 DEF Placed
    <3>4. l < k => of[l] < of[k] \/ (of[l] = of[k] /\ at[l] < at[k])
      BY <2>1 DEF Placed
    <3> QED
      BY <2>5, <3>1, <3>2, <3>3, <3>4
  <2>7. Apart(seqs[of[k]])
    BY <1>4, <2>3
  <2> QED
    BY <2>3, <2>5, <2>6, <2>7 DEF Apart
<1> QED
  BY <1>1, <1>3, <1>4 DEF flat

LEMMA PointsOfNone == \A x : x \notin Points(<<>>)
  BY PointsOf

LEMMA PointsOfOne ==
    ASSUME NEW r
    PROVE  \A x : x \in Points(<<r>>) <=> x \in r.from .. r.to
<1>1. DOMAIN <<r>> = {1} /\ <<r>>[1] = r
  OBVIOUS
<1> HIDE DEF Points
<1> QED
  BY <1>1, PointsOf

Excludes(left, r, ex) ==
    /\ left \in Seq(ValidRanges)
    /\ Apart(left)
    /\ \A x : x \in Points(left) <=> x \in r.from .. r.to /\ x \notin ex.from .. ex.to

LEMMA RangeExcludeExcludes ==
    ASSUME NEW r \in ValidRanges, NEW ex \in ValidRanges
    PROVE  Excludes(RangeExclude(r, ex), r, ex)
<1>1. /\ r.from \in Int /\ r.to \in Int /\ r.from <= r.to
      /\ ex.from \in Int /\ ex.to \in Int /\ ex.from <= ex.to
  BY ValidRange
<1> DEFINE low == Span(r.from, ex.from - 1)
           high == Span(ex.to + 1, r.to)
<1>2. /\ low.from = r.from /\ low.to = ex.from - 1
      /\ high.from = ex.to + 1 /\ high.to = r.to
      /\ r.from < ex.from => low \in ValidRanges
      /\ ex.to < r.to => high \in ValidRanges
  BY <1>1, SpanIsValid
<1>3. RangeExclude(r, ex) =
         IF ~RangeOverlap(r, ex) THEN <<r>>
         ELSE (IF r.from < ex.from THEN <<low>> ELSE <<>>)
                 \o (IF ex.to < r.to THEN <<high>> ELSE <<>>)
  BY DEF RangeExclude
<1> HIDE DEF low, high
<1>4. CASE ~RangeOverlap(r, ex)
  <2>1. RangeExclude(r, ex) = <<r>>
    BY <1>3, <1>4
  <2>2. \A x : x \in r.from .. r.to => x \notin ex.from .. ex.to
    BY <1>1, <1>4 DEF RangeOverlap
  <2>3. Apart(<<r>>) /\ <<r>> \in Seq(ValidRanges)
    BY DEF Apart
  <2> QED
    BY <2>1, <2>2, <2>3, PointsOfOne DEF Excludes
<1>5. CASE RangeOverlap(r, ex) /\ r.from < ex.from /\ ex.to < r.to
  <2> DEFINE both == <<low>> \o <<high>>
  <2>1. RangeExclude(r, ex) = both
    BY <1>3, <1>5
  <2>2. DOMAIN both = {1, 2} /\ both[1] = low /\ both[2] = high /\ both \in Seq(ValidRanges)
    <3>1. <<low>> \in Seq(ValidRanges) /\ <<high>> \in Seq(ValidRanges)
      BY <1>2, <1>5
    <3>2. Len(<<low>>) = 1 /\ Len(<<high>>) = 1 /\ <<low>>[1] = low /\ <<high>>[1] = high
      OBVIOUS
    <3>3. both \in Seq(ValidRanges) /\ Len(both) = 2
      BY <3>1, <3>2
    <3>4. both[1] = low /\ both[2] = high
      BY <3>1, <3>2
    <3>5. DOMAIN both = 1 .. 2 /\ 1 .. 2 = {1, 2}
      BY <3>3
    <3> QED
      BY <3>3, <3>4, <3>5
  <2> HIDE DEF both
  <2>3. \A x : x \in Points(both) <=> x \in low.from .. low.to \/ x \in high.from .. high.to
    BY <2>2, PointsOf
  <2>4. \A x : x \in low.from .. low.to => x \notin high.from .. high.to
    BY <1>1, <1>2
  <2>5. Apart(both)
    BY <2>2, <2>4 DEF Apart
  <2>6. \A x : x \in low.from .. low.to \/ x \in high.from .. high.to
                 <=> x \in r.from .. r.to /\ x \notin ex.from .. ex.to
    BY <1>1, <1>2, <1>5
  <2> QED
    BY <2>1, <2>2, <2>3, <2>5, <2>6 DEF Excludes, both
<1>6. CASE RangeOverlap(r, ex) /\ r.from < ex.from /\ ~ (ex.to < r.to)
  <2>1. RangeExclude(r, ex) = <<low>>
    BY <1>3, <1>6
  <2>2. Apart(<<low>>) /\ <<low>> \in Seq(ValidRanges)
    BY <1>2, <1>6 DEF Apart
  <2>3. \A x : x \in low.from .. low.to
                 <=> x \in r.from .. r.to /\ x \notin ex.from .. ex.to
    BY <1>1, <1>2, <1>6 DEF RangeOverlap
  <2> QED
    BY <2>1, <2>2, <2>3, PointsOfOne DEF Excludes
<1>7. CASE RangeOverlap(r, ex) /\ ~ (r.from < ex.from) /\ ex.to < r.to
  <2>1. RangeExclude(r, ex) = <<high>>
    BY <1>3, <1>7
  <2>2. Apart(<<high>>) /\ <<high>> \in Seq(ValidRanges)
    BY <1>2, <1>7 DEF Apart
  <2>3. \A x : x \in high.from .. high.to
                 <=> x \in r.from .. r.to /\ x \notin ex.from .. ex.to
    BY <1>1, <1>2, <1>7 DEF RangeOverlap
  <2> QED
    BY <2>1, <2>2, <2>3, PointsOfOne DEF Excludes
<1>8. CASE RangeOverlap(r, ex) /\ ~ (r.from < ex.from) /\ ~ (ex.to < r.to)
  <2>1. RangeExclude(r, ex) = <<>>
    BY <1>3, <1>8
  <2>2. Apart(<<>>) /\ <<>> \in Seq(ValidRanges)
    BY DEF Apart
  <2>3. \A x : x \in r.from .. r.to => x \in ex.from .. ex.to
    BY <1>1, <1>8
  <2> QED
    BY <2>1, <2>2, <2>3, PointsOfNone DEF Excludes
<1> QED
  BY <1>4, <1>5, <1>6, <1>7, <1>8

ExcludeStep(left, ex) == FlattenSeq([i \in DOMAIN left |-> RangeExclude(left[i], ex)])

LEMMA ExcludeStepExcludes ==
    ASSUME NEW left \in Seq(ValidRanges), NEW ex \in ValidRanges
    PROVE  /\ ExcludeStep(left, ex) \in Seq(ValidRanges)
           /\ \A x : x \in Points(ExcludeStep(left, ex))
                        <=> x \in Points(left) /\ x \notin ex.from .. ex.to
           /\ Apart(left) => Apart(ExcludeStep(left, ex))
<1> DEFINE n == Len(left)
           seqs == [i \in 1 .. n |-> RangeExclude(left[i], ex)]
<1>1. n \in Nat /\ DOMAIN left = 1 .. n /\ \A i \in 1 .. n : left[i] \in ValidRanges
  OBVIOUS
<1>2. \A i \in 1 .. n : Excludes(seqs[i], left[i], ex)
  BY <1>1, RangeExcludeExcludes
<1>3. \A i \in 1 .. n : seqs[i] \in Seq(ValidRanges)
  BY <1>2 DEF Excludes
<1>4. seqs \in [1 .. n -> Seq(ValidRanges)]
  BY <1>3
<1>5. ExcludeStep(left, ex) = FlattenSeq(seqs)
  BY <1>1 DEF ExcludeStep
<1> HIDE DEF seqs, n
<1>6. /\ FlattenSeq(seqs) \in Seq(ValidRanges)
      /\ \A x : x \in Points(FlattenSeq(seqs)) <=> \E i \in 1 .. n : x \in Points(seqs[i])
      /\ (/\ \A i \in 1 .. n : Apart(seqs[i])
          /\ \A i, j \in 1 .. n :
                i # j => \A x : ~ (x \in Points(seqs[i]) /\ x \in Points(seqs[j])))
         => Apart(FlattenSeq(seqs))
  BY <1>1, <1>4, FlattenPoints
<1>7. \A i \in 1 .. n : \A x : x \in Points(seqs[i])
                <=> x \in left[i].from .. left[i].to /\ x \notin ex.from .. ex.to
  BY <1>2 DEF Excludes
<1>8. \A x : x \in Points(left) <=> \E i \in 1 .. n : x \in left[i].from .. left[i].to
  BY <1>1, PointsOf
<1>9. \A x : x \in Points(FlattenSeq(seqs)) <=> x \in Points(left) /\ x \notin ex.from .. ex.to
  BY <1>6, <1>7, <1>8
<1>10. Apart(left) => Apart(FlattenSeq(seqs))
  <2> SUFFICES ASSUME Apart(left) PROVE Apart(FlattenSeq(seqs))
    OBVIOUS
  <2>1. \A i \in 1 .. n : Apart(seqs[i])
    BY <1>2 DEF Excludes
  <2>2. \A i, j \in 1 .. n :
           i # j => \A x : ~ (x \in Points(seqs[i]) /\ x \in Points(seqs[j]))
    BY <1>1, <1>7 DEF Apart
  <2> QED
    BY <1>6, <2>1, <2>2
<1> QED
  BY <1>5, <1>6, <1>9, <1>10

ExcludesAll(it, r, exclude) ==
    it = [s \in SUBSET (DOMAIN exclude) |->
            IF s = {} THEN <<r>> ELSE ExcludeStep(it[s \ {Max(s)}], exclude[Max(s)])]

ExcludeStages(at, r, exclude, n) ==
    /\ at \in [0 .. n -> Seq(ValidRanges)]
    /\ at[0] = <<r>>
    /\ \A k \in 0 .. n - 1 : at[k + 1] = ExcludeStep(at[k], exclude[k + 1])

LEMMA ExcludingHasStages ==
    ASSUME NEW r \in ValidRanges, NEW n \in Nat, NEW exclude \in [1 .. n -> ValidRanges]
    PROVE  \E at : ExcludeStages(at, r, exclude, n) /\ at[n] = RangeExcludeMany(r, exclude)
<1> DEFINE V == Seq(ValidRanges)
           step == [p \in V \X (1 .. n) |-> ExcludeStep(p[1], exclude[p[2]])]
           base == <<r>>
<1>1. DOMAIN exclude = 1 .. n
  OBVIOUS
<1>2. base \in V
  OBVIOUS
<1>3. \A v \in V, i \in 1 .. n : ExcludeStep(v, exclude[i]) \in V
  BY ExcludeStepExcludes
<1>4. step \in [V \X (1 .. n) -> V]
  BY <1>3
<1>5. \A v \in V, i \in 1 .. n : step[<<v, i>>] = ExcludeStep(v, exclude[i])
  OBVIOUS
<1>6. \E it : ExcludesAll(it, r, exclude)
  <2> HIDE DEF V, step, base
  <2>1. PICK it \in [SUBSET (1 .. n) -> V] : FoldSolution(step, base, it, n)
    BY <1>2, <1>4, FoldSolutionExists
  <2>2. ASSUME NEW s \in (SUBSET (1 .. n)) \ {{}}
        PROVE  it[s] = ExcludeStep(it[s \ {Max(s)}], exclude[Max(s)])
    <3>1. it[s] = step[<<it[s \ {Max(s)}], Max(s)>>]
      BY <2>1 DEF FoldSolution
    <3>2. Max(s) \in 1 .. n /\ it[s \ {Max(s)}] \in V
      BY <2>1, MaxInInterval
    <3> QED
      BY <1>5, <3>1, <3>2
  <2>3. it[{}] = base
    BY <2>1 DEF FoldSolution
  <2>4. it = [s \in SUBSET (1 .. n) |-> it[s]]
    OBVIOUS
  <2> QED
    BY <1>1, <2>2, <2>3, <2>4 DEF ExcludesAll, base
<1> DEFINE it == CHOOSE f : ExcludesAll(f, r, exclude)
<1>7. ExcludesAll(it, r, exclude)
  BY <1>6
<1>8. RangeExcludeMany(r, exclude) = it[1 .. n]
  BY <1>1 DEF RangeExcludeMany, FoldLeft, MapThenFoldSet, ExcludesAll, ExcludeStep
<1> HIDE DEF it, V, step
<1>9. FoldsWithin(it, base, step, V, n)
  <2>1. it[{}] = base
    BY <1>7 DEF ExcludesAll
  <2>2. ASSUME NEW s \in (SUBSET (1 .. n)) \ {{}}, it[s \ {Max(s)}] \in V
        PROVE  it[s] = step[<<it[s \ {Max(s)}], Max(s)>>]
    <3>1. it[s] = ExcludeStep(it[s \ {Max(s)}], exclude[Max(s)])
      BY <1>1, <1>7 DEF ExcludesAll
    <3>2. Max(s) \in 1 .. n
      BY MaxInInterval
    <3> QED
      BY <1>5, <2>2, <3>1, <3>2
  <2> HIDE DEF base
  <2> QED
    BY <2>1, <2>2 DEF FoldsWithin
<1> HIDE DEF base
<1>10. PICK at : Stages(at, base, step, V, n) /\ at[n] = it[1 .. n]
  <2>1. HasStages(it, base, step, V, n)
    BY <1>2, <1>4, <1>9, FoldHasStages
  <2> QED
    BY <2>1 DEF HasStages
<1>11. \A k \in 0 .. n - 1 : at[k + 1] = ExcludeStep(at[k], exclude[k + 1])
  <2> SUFFICES ASSUME NEW k \in 0 .. n - 1
               PROVE  at[k + 1] = ExcludeStep(at[k], exclude[k + 1])
    OBVIOUS
  <2>1. at[k] \in V /\ k + 1 \in 1 .. n
    BY <1>10 DEF Stages
  <2>2. at[k + 1] = step[<<at[k], k + 1>>]
    BY <1>10 DEF Stages
  <2> QED
    BY <1>5, <2>1, <2>2
<1>12. ExcludeStages(at, r, exclude, n)
  BY <1>10, <1>11 DEF ExcludeStages, Stages, V, base
<1> QED
  BY <1>8, <1>10, <1>12

ExcludesUpTo(left, r, exclude, k) ==
    /\ left \in Seq(ValidRanges)
    /\ Apart(left)
    /\ \A x : x \in Points(left) <=>
                 /\ x \in r.from .. r.to
                 /\ \A i \in 1 .. k : x \notin exclude[i].from .. exclude[i].to

LEMMA RangeExcludeManyExcludes ==
    ASSUME NEW r \in ValidRanges, NEW n \in Nat, NEW exclude \in [1 .. n -> ValidRanges]
    PROVE  ExcludesUpTo(RangeExcludeMany(r, exclude), r, exclude, n)
<1>1. PICK at : ExcludeStages(at, r, exclude, n) /\ at[n] = RangeExcludeMany(r, exclude)
  BY ExcludingHasStages
<1> DEFINE P == {k \in Nat : k <= n => ExcludesUpTo(at[k], r, exclude, k)}
<1>2. 0 \in P
  <2>1. at[0] = <<r>> /\ <<r>> \in Seq(ValidRanges) /\ Apart(<<r>>)
    BY <1>1 DEF ExcludeStages, Apart
  <2>2. 1 .. 0 = {}
    OBVIOUS
  <2> QED
    BY <2>1, <2>2, PointsOfOne DEF ExcludesUpTo
<1>3. ASSUME NEW k \in P
      PROVE  k + 1 \in P
  <2> SUFFICES ASSUME k + 1 <= n PROVE ExcludesUpTo(at[k + 1], r, exclude, k + 1)
    OBVIOUS
  <2> DEFINE left == at[k]
             ex == exclude[k + 1]
  <2>1. k \in 0 .. n - 1 /\ k + 1 \in 1 .. n /\ ex \in ValidRanges
    OBVIOUS
  <2>2. ExcludesUpTo(left, r, exclude, k)
    OBVIOUS
  <2>3. at[k + 1] = ExcludeStep(left, ex)
    BY <1>1, <2>1 DEF ExcludeStages
  <2> HIDE DEF left, ex
  <2>4. left \in Seq(ValidRanges) /\ Apart(left)
    BY <2>2 DEF ExcludesUpTo
  <2>5. /\ ExcludeStep(left, ex) \in Seq(ValidRanges)
        /\ \A x : x \in Points(ExcludeStep(left, ex))
                     <=> x \in Points(left) /\ x \notin ex.from .. ex.to
        /\ Apart(left) => Apart(ExcludeStep(left, ex))
    BY <2>1, <2>4, ExcludeStepExcludes
  <2>6. \A x : (\A i \in 1 .. k + 1 : x \notin exclude[i].from .. exclude[i].to)
                  <=> /\ \A i \in 1 .. k : x \notin exclude[i].from .. exclude[i].to
                      /\ x \notin ex.from .. ex.to
    <3>1. \A i \in 1 .. k + 1 : i \in 1 .. k \/ i = k + 1
      BY <2>1
    <3>2. k + 1 \in 1 .. k + 1 /\ \A i \in 1 .. k : i \in 1 .. k + 1
      BY <2>1
    <3> QED
      BY <3>1, <3>2 DEF ex
  <2> QED
    BY <2>2, <2>3, <2>4, <2>5, <2>6 DEF ExcludesUpTo
<1> HIDE DEF P
<1>4. P \in SUBSET Nat
  BY DEF P
<1>5. n \in P
  BY <1>2, <1>3, <1>4, NumberInduction
<1> QED
  BY <1>1, <1>5 DEF P

(* Of what the list stands for, what the excluded ranges do not. *)
THEOREM RangeArrayExcludeExcludes ==
    ASSUME NEW ranges \in Seq(ValidRanges), NEW exclude \in Seq(ValidRanges)
    PROVE  /\ RangeArrayExclude(ranges, exclude) \in Seq(ValidRanges)
           /\ Points(RangeArrayExclude(ranges, exclude)) = Points(ranges) \ Points(exclude)
           /\ Apart(ranges) => Apart(RangeArrayExclude(ranges, exclude))
<1> DEFINE n == Len(ranges)
           m == Len(exclude)
           seqs == [i \in 1 .. n |-> RangeExcludeMany(ranges[i], exclude)]
<1>1. /\ n \in Nat /\ DOMAIN ranges = 1 .. n /\ \A i \in 1 .. n : ranges[i] \in ValidRanges
      /\ m \in Nat /\ DOMAIN exclude = 1 .. m /\ exclude \in [1 .. m -> ValidRanges]
  OBVIOUS
<1>2. RangeArrayExclude(ranges, exclude) = FlattenSeq(seqs)
  BY <1>1 DEF RangeArrayExclude
<1> HIDE DEF n, m
<1>3. \A i \in 1 .. n : ExcludesUpTo(seqs[i], ranges[i], exclude, m)
  BY <1>1, RangeExcludeManyExcludes
<1>4. \A i \in 1 .. n : seqs[i] \in Seq(ValidRanges)
  BY <1>3 DEF ExcludesUpTo
<1>5. seqs \in [1 .. n -> Seq(ValidRanges)]
  BY <1>4
<1> HIDE DEF seqs
<1>6. /\ FlattenSeq(seqs) \in Seq(ValidRanges)
      /\ \A x : x \in Points(FlattenSeq(seqs)) <=> \E i \in 1 .. n : x \in Points(seqs[i])
      /\ (/\ \A i \in 1 .. n : Apart(seqs[i])
          /\ \A i, j \in 1 .. n :
                i # j => \A x : ~ (x \in Points(seqs[i]) /\ x \in Points(seqs[j])))
         => Apart(FlattenSeq(seqs))
  BY <1>1, <1>5, FlattenPoints
<1>7. \A i \in 1 .. n : \A x : x \in Points(seqs[i])
                <=> x \in ranges[i].from .. ranges[i].to /\ x \notin Points(exclude)
  <2>1. \A x : x \in Points(exclude) <=> \E i \in 1 .. m : x \in exclude[i].from .. exclude[i].to
    BY <1>1, PointsOf
  <2> QED
    BY <1>3, <2>1 DEF ExcludesUpTo
<1>8. \A x : x \in Points(ranges) <=> \E i \in 1 .. n : x \in ranges[i].from .. ranges[i].to
  BY <1>1, PointsOf
<1>9. \A x : x \in Points(FlattenSeq(seqs)) <=> x \in Points(ranges) /\ x \notin Points(exclude)
  BY <1>6, <1>7, <1>8
<1>10. ASSUME Apart(ranges)
       PROVE  Apart(FlattenSeq(seqs))
  <2>1. \A i \in 1 .. n : Apart(seqs[i])
    BY <1>3 DEF ExcludesUpTo
  <2>2. \A i, j \in 1 .. n :
           i # j => \A x : ~ (x \in Points(seqs[i]) /\ x \in Points(seqs[j]))
    BY <1>1, <1>7, <1>10 DEF Apart
  <2> QED
    BY <1>6, <2>1, <2>2
<1> QED
  BY <1>2, <1>6, <1>9, <1>10

(* A merged list is apart. *)
LEMMA MergedIsOrdered ==
    ASSUME NEW ranges \in Seq(ValidRanges), IsMerged(ranges)
    PROVE  \A i, j \in DOMAIN ranges : i < j => ranges[i].to + 1 < ranges[j].from
<1> DEFINE n == Len(ranges)
           P == {k \in Nat : \A i \in 1 .. n : i + k + 1 <= n =>
                                ranges[i].to + 1 < ranges[i + k + 1].from}
<1>1. n \in Nat /\ DOMAIN ranges = 1 .. n /\ \A i \in 1 .. n : ranges[i] \in ValidRanges
  OBVIOUS
<1>2. \A i \in 1 .. n - 1 : ranges[i].to + 1 < ranges[i + 1].from
  BY DEF IsMerged
<1> HIDE DEF n
<1>3. 0 \in P
  <2>1. \A i \in 1 .. n : i + 0 + 1 = i + 1 /\ (i + 1 <= n => i \in 1 .. n - 1)
    BY <1>1
  <2> QED
    BY <1>2, <2>1
<1>4. ASSUME NEW k \in P
      PROVE  k + 1 \in P
  <2> SUFFICES ASSUME NEW i \in 1 .. n, i + (k + 1) + 1 <= n
               PROVE  ranges[i].to + 1 < ranges[i + (k + 1) + 1].from
    OBVIOUS
  <2> DEFINE j == i + k + 1
  <2>1. k \in Nat /\ j \in 1 .. n /\ j \in 1 .. n - 1 /\ i + (k + 1) + 1 = j + 1 /\ j + 1 \in 1 .. n
    BY <1>1
  <2>2. ranges[i].to + 1 < ranges[j].from
    BY <2>1
  <2> HIDE DEF j
  <2>3. ranges[j].to + 1 < ranges[j + 1].from
    BY <1>2, <2>1
  <2>4. /\ ranges[i].to \in Int /\ ranges[j].from \in Int /\ ranges[j].to \in Int
        /\ ranges[j + 1].from \in Int /\ ranges[j].from <= ranges[j].to
    BY <1>1, <2>1, ValidRange
  <2>5. ranges[i].to + 1 < ranges[j + 1].from
    <3> DEFINE a == ranges[i].to
               b == ranges[j].from
               c == ranges[j].to
               d == ranges[j + 1].from
    <3>1. a \in Int /\ b \in Int /\ c \in Int /\ d \in Int /\ b <= c
      BY <2>4
    <3>2. a + 1 < b /\ c + 1 < d
      BY <2>2, <2>3
    <3> HIDE DEF a, b, c, d
    <3>3. a + 1 < d
      BY <3>1, <3>2
    <3> QED
      BY <3>3 DEF a, d
  <2> QED
    BY <2>1, <2>5
<1> HIDE DEF P
<1>5. P \in SUBSET Nat
  BY DEF P
<1>6. Nat \subseteq P
  BY <1>3, <1>4, <1>5, NumberInduction
<1>7. ASSUME NEW i \in 1 .. n, NEW j \in 1 .. n, i < j
      PROVE  ranges[i].to + 1 < ranges[j].from
  <2> DEFINE k == j - i - 1
  <2>1. k \in Nat /\ i + k + 1 = j
    BY <1>1, <1>7
  <2> HIDE DEF k
  <2>2. k \in P
    BY <1>6, <2>1
  <2>3. i + k + 1 <= n
    BY <1>1, <2>1
  <2>4. ranges[i].to + 1 < ranges[i + k + 1].from
    BY <2>2, <2>3 DEF P
  <2> QED
    BY <2>1, <2>4
<1> QED
  BY <1>1, <1>7

LEMMA MergedIsApart ==
    ASSUME NEW ranges \in Seq(ValidRanges), IsMerged(ranges)
    PROVE  Apart(ranges)
<1> SUFFICES ASSUME NEW i \in DOMAIN ranges, NEW j \in DOMAIN ranges, i # j, NEW x,
                    x \in ranges[i].from .. ranges[i].to, x \in ranges[j].from .. ranges[j].to
             PROVE  FALSE
  BY DEF Apart
<1>1. DOMAIN ranges = 1 .. Len(ranges)
  OBVIOUS
<1>2. ranges[i] \in ValidRanges /\ ranges[j] \in ValidRanges
  OBVIOUS
<1>3. /\ ranges[i].from \in Int /\ ranges[i].to \in Int
      /\ ranges[j].from \in Int /\ ranges[j].to \in Int
  BY <1>2, ValidRange
<1>4. i < j \/ j < i
  BY <1>1
<1>5. /\ i < j => ranges[i].to + 1 < ranges[j].from
      /\ j < i => ranges[j].to + 1 < ranges[i].from
  BY MergedIsOrdered
<1> QED
  BY <1>3, <1>4, <1>5

-----------------------------------------------------------------------------
(***************************************************************************)
(* What the results of a run leave in the lists of a product.              *)
(***************************************************************************)
LEMMA ConcatPoints ==
    ASSUME NEW s \in Seq(ValidRanges), NEW t \in Seq(ValidRanges)
    PROVE  s \o t \in Seq(ValidRanges) /\ Points(s \o t) = Points(s) \cup Points(t)
<1> DEFINE n == Len(s)
           m == Len(t)
           both == s \o t
<1>1. /\ n \in Nat /\ DOMAIN s = 1 .. n /\ m \in Nat /\ DOMAIN t = 1 .. m
      /\ both \in Seq(ValidRanges) /\ Len(both) = n + m
  OBVIOUS
<1>2. \A i \in 1 .. n : i \in 1 .. n + m /\ both[i] = s[i]
  OBVIOUS
<1>3. \A i \in 1 .. n + m : i \in 1 .. n \/ (i - n \in 1 .. m /\ both[i] = t[i - n])
  OBVIOUS
<1>4. \A j \in 1 .. m : j + n \in 1 .. n + m /\ both[j + n] = t[j]
  <2> SUFFICES ASSUME NEW j \in 1 .. m PROVE j + n \in 1 .. n + m /\ both[j + n] = t[j]
    OBVIOUS
  <2>1. j + n \in 1 .. n + m /\ j + n > n /\ (j + n) - n = j
    BY <1>1
  <2> QED
    BY <2>1
<1>5. DOMAIN both = 1 .. n + m
  BY <1>1
<1> HIDE DEF n, m, both
<1>6. \A x : x \in Points(both) <=> x \in Points(s) \/ x \in Points(t)
  <2>1. \A x : x \in Points(both) => x \in Points(s) \/ x \in Points(t)
    BY <1>1, <1>2, <1>3, <1>5, PointsOf
  <2>2. \A x : x \in Points(s) => x \in Points(both)
    BY <1>1, <1>2, <1>5, PointsOf
  <2>3. \A x : x \in Points(t) => x \in Points(both)
    BY <1>1, <1>4, <1>5, PointsOf
  <2> QED
    BY <2>1, <2>2, <2>3
<1> QED
  BY <1>1, <1>6 DEF both

(* What a set of ranges stands for. *)
SetPoints(ranges) == UNION {r.from .. r.to : r \in ranges}

LEMMA SetToSeqPoints ==
    ASSUME NEW S \in SUBSET ValidRanges, IsFiniteSet(S)
    PROVE  SetToSeq(S) \in Seq(ValidRanges) /\ Points(SetToSeq(S)) = SetPoints(S)
<1>1. SetToSeq(S) \in Seq(S) /\ ToSet(SetToSeq(S)) = S
  BY SetToSeqElements
<1>2. SetToSeq(S) \in Seq(ValidRanges)
  BY <1>1
<1> QED
  BY <1>1, <1>2 DEF Points, SetPoints

LEMMA MergeOfSeq ==
    ASSUME NEW ranges \in Seq(ValidRanges)
    PROVE  /\ RangeMerge(ranges) \in Seq(ValidRanges)
           /\ IsMerged(RangeMerge(ranges))
           /\ Points(RangeMerge(ranges)) = Points(ranges)
<1>1. Len(ranges) \in Nat /\ ranges \in [1 .. Len(ranges) -> ValidRanges]
  OBVIOUS
<1> QED
  BY <1>1, RangeMergeMerges

LEMMA NoOverlapIsApart ==
    ASSUME NEW s \in Seq(ValidRanges), NEW t \in Seq(ValidRanges), ~RangeManyOverlap(s, t)
    PROVE  \A x : ~ (x \in Points(s) /\ x \in Points(t))
<1> SUFFICES ASSUME NEW i \in DOMAIN s, NEW j \in DOMAIN t, NEW x,
                    x \in s[i].from .. s[i].to, x \in t[j].from .. t[j].to
             PROVE  FALSE
  BY PointsOf
<1>1. s[i] \in ValidRanges /\ t[j] \in ValidRanges
  OBVIOUS
<1>2. /\ s[i].from \in Int /\ s[i].to \in Int /\ t[j].from \in Int /\ t[j].to \in Int
  BY <1>1, ValidRange
<1>3. ~ RangeOverlap(s[i], t[j])
  BY DEF RangeManyOverlap, ToSet
<1> QED
  BY <1>2, <1>3 DEF RangeOverlap

IsRow(row) ==
    /\ row.covered \in Seq(ValidRanges) /\ IsMerged(row.covered)
    /\ row.toRetry \in Seq(ValidRanges) /\ IsMerged(row.toRetry)

Updates(next, row, items, failed) ==
    /\ IsRow(next)
    /\ Points(next.covered) = Points(row.covered) \cup SetPoints(items)
    /\ Points(next.toRetry) =
          (Points(row.toRetry) \ SetPoints(items \ failed)) \cup SetPoints(failed)

(***************************************************************************)
(* The lists of a row are merged again, and hold the results: what was     *)
(* queried is covered, what failed is to be retried, what did not fail is  *)
(* not any more.                                                           *)
(***************************************************************************)
THEOREM MergeImportStateUpdates ==
    ASSUME NEW row, IsRow(row),
           NEW items \in SUBSET ValidRanges, IsFiniteSet(items),
           NEW failed \in SUBSET ValidRanges, IsFiniteSet(failed)
    PROVE  Updates(MergeImportState(row, items, failed), row, items, failed)
<1> DEFINE success == RangeMerge(SetToSeq(items \ failed))
           error == RangeMerge(SetToSeq(failed))
           covered == SetToSeq(items)
           joined == IF RangeArrayOverlap(covered) THEN RangeMerge(covered) ELSE covered
           done == IF RangeManyOverlap(success, error)
                   THEN RangeSortedArrayExclude(success, error) ELSE success
           next == MergeImportState(row, items, failed)
<1>1. IsFiniteSet(items \ failed) /\ items \ failed \in SUBSET ValidRanges
  BY FS_Difference
<1>2. success \in Seq(ValidRanges) /\ Points(success) = SetPoints(items \ failed)
  BY <1>1, SetToSeqPoints, MergeOfSeq
<1>3. error \in Seq(ValidRanges) /\ Points(error) = SetPoints(failed)
  BY SetToSeqPoints, MergeOfSeq
<1>4. joined \in Seq(ValidRanges) /\ Points(joined) = SetPoints(items)
  <2>1. covered \in Seq(ValidRanges) /\ Points(covered) = SetPoints(items)
    BY SetToSeqPoints
  <2> HIDE DEF covered
  <2>2. RangeMerge(covered) \in Seq(ValidRanges) /\ Points(RangeMerge(covered)) = Points(covered)
    BY <2>1, MergeOfSeq
  <2> QED
    BY <2>1, <2>2
<1> HIDE DEF success, error, joined, covered
<1>5. done \in Seq(ValidRanges) /\ Points(done) = Points(success) \ Points(error)
  <2>1. CASE RangeManyOverlap(success, error)
    <3> DEFINE a == RangeMerge(success)
               b == RangeMerge(error)
    <3>1. /\ a \in Seq(ValidRanges) /\ Points(a) = Points(success)
          /\ b \in Seq(ValidRanges) /\ Points(b) = Points(error)
      BY <1>2, <1>3, MergeOfSeq
    <3>2. done = RangeArrayExclude(a, b)
      BY <2>1 DEF RangeSortedArrayExclude
    <3> HIDE DEF a, b, done
    <3> QED
      BY <3>1, <3>2, RangeArrayExcludeExcludes
  <2>2. CASE ~RangeManyOverlap(success, error)
    <3>1. \A x : ~ (x \in Points(success) /\ x \in Points(error))
      BY <1>2, <1>3, <2>2, NoOverlapIsApart
    <3>2. done = success
      BY <2>2
    <3> HIDE DEF done
    <3>3. Points(success) = Points(success) \ Points(error)
      BY <3>1
    <3> QED
      BY <1>2, <3>2, <3>3
  <2> QED
    BY <2>1, <2>2
<1>6. next = UpdateImportRanges(row, joined, done, error)
  BY DEF MergeImportState, success, error, covered, joined
<1> HIDE DEF done, next
<1>7. next.covered = RangeMerge(row.covered \o joined)
      /\ next.toRetry = RangeMerge(RangeArrayExclude(row.toRetry, done) \o error)
  BY <1>6 DEF UpdateImportRanges
<1>8. /\ next.covered \in Seq(ValidRanges) /\ IsMerged(next.covered)
      /\ Points(next.covered) = Points(row.covered) \cup Points(joined)
  <2> DEFINE all == row.covered \o joined
  <2>1. all \in Seq(ValidRanges) /\ Points(all) = Points(row.covered) \cup Points(joined)
    BY <1>4, ConcatPoints DEF IsRow
  <2> HIDE DEF all
  <2>2. next.covered = RangeMerge(all)
    BY <1>7 DEF all
  <2> QED
    BY <2>1, <2>2, MergeOfSeq
<1>9. /\ next.toRetry \in Seq(ValidRanges) /\ IsMerged(next.toRetry)
      /\ Points(next.toRetry) = (Points(row.toRetry) \ Points(done)) \cup Points(error)
  <2> DEFINE left == RangeArrayExclude(row.toRetry, done)
             all == left \o error
  <2>1. left \in Seq(ValidRanges) /\ Points(left) = Points(row.toRetry) \ Points(done)
    BY <1>5, RangeArrayExcludeExcludes DEF IsRow
  <2> HIDE DEF left
  <2>2. all \in Seq(ValidRanges) /\ Points(all) = Points(left) \cup Points(error)
    BY <1>3, <2>1, ConcatPoints
  <2> HIDE DEF all
  <2>3. next.toRetry = RangeMerge(all)
    BY <1>7 DEF all, left
  <2> QED
    BY <2>1, <2>2, <2>3, MergeOfSeq
<1>10. (Points(row.toRetry) \ Points(done)) \cup Points(error)
          = (Points(row.toRetry) \ SetPoints(items \ failed)) \cup SetPoints(failed)
  BY <1>2, <1>3, <1>5
<1>11. Updates(next, row, items, failed)
  BY <1>4, <1>8, <1>9, <1>10 DEF Updates, IsRow
<1> QED
  BY <1>11 DEF next

-----------------------------------------------------------------------------
(***************************************************************************)
(* TakeNewestRanges: parts of the ranges, apart, none longer than allowed. *)
(***************************************************************************)
Within(points, span) ==
    {r \in ValidRanges : r.from .. r.to \subseteq points /\ r.to - r.from < span}

TakeStates(points, span) ==
    {s \in [queue : Seq(ValidRanges), taken : Seq(Within(points, span))] :
        /\ Points(s.queue) \subseteq points
        /\ Apart(s.queue) /\ Apart(s.taken)
        /\ \A x : ~ (x \in Points(s.queue) /\ x \in Points(s.taken))}

LEMMA LastAndFront ==
    ASSUME NEW S, NEW s \in Seq(S), s # <<>>
    PROVE  /\ Len(s) \in Nat \ {0} /\ Last(s) = s[Len(s)] /\ Last(s) \in S
           /\ Front(s) \in Seq(S) /\ Len(Front(s)) = Len(s) - 1
           /\ \A i \in 1 .. Len(s) - 1 : Front(s)[i] = s[i]
           /\ Front(s) = <<>> <=> Len(s) = 1
<1>1. Len(s) \in Nat \ {0} /\ Last(s) = s[Len(s)] /\ Last(s) \in S
  BY DEF Last
<1>2. /\ Front(s) \in Seq(S) /\ Len(Front(s)) = Len(s) - 1
      /\ \A i \in 1 .. Len(s) - 1 : Front(s)[i] = s[i]
  <2> DEFINE m == Len(s) - 1
  <2>1. m \in Nat /\ m <= Len(s)
    BY <1>1
  <2>2. Front(s) = SubSeq(s, 1, m)
    BY DEF Front
  <2> HIDE DEF m
  <2>3. \A i \in 1 .. m : i \in 1 .. Len(s)
    BY <1>1, <2>1
  <2>4. Len(SubSeq(s, 1, m)) = m
    BY <2>1
  <2>5. SubSeq(s, 1, m) \in Seq(S)
    BY <2>1, <2>3
  <2>6. \A i \in 1 .. m : SubSeq(s, 1, m)[i] = s[i]
    BY <2>1
  <2> QED
    BY <2>2, <2>4, <2>5, <2>6 DEF m
<1>3. Front(s) = <<>> <=> Len(Front(s)) = 0
  BY <1>2
<1> QED
  BY <1>1, <1>2, <1>3

LEMMA AppendPoints ==
    ASSUME NEW S \in SUBSET ValidRanges, NEW s \in Seq(S), NEW r \in S
    PROVE  /\ Append(s, r) \in Seq(S)
           /\ \A x : x \in Points(Append(s, r)) <=> x \in Points(s) \/ x \in r.from .. r.to
           /\ (Apart(s) /\ \A x : ~ (x \in Points(s) /\ x \in r.from .. r.to))
                 => Apart(Append(s, r))
<1> DEFINE n == Len(s)
           t == Append(s, r)
<1>1. /\ n \in Nat /\ DOMAIN s = 1 .. n /\ t \in Seq(S) /\ DOMAIN t = 1 .. n + 1
      /\ t[n + 1] = r /\ n + 1 \in 1 .. n + 1
  OBVIOUS
<1>2. \A i \in 1 .. n : i \in 1 .. n + 1 /\ t[i] = s[i]
  OBVIOUS
<1>3. \A i \in 1 .. n + 1 : i \in 1 .. n \/ i = n + 1
  OBVIOUS
<1> HIDE DEF n, t
<1>4. \A x : x \in Points(t) <=> x \in Points(s) \/ x \in r.from .. r.to
  BY <1>1, <1>2, <1>3, PointsOf
<1>5. ASSUME Apart(s), \A x : ~ (x \in Points(s) /\ x \in r.from .. r.to)
      PROVE  Apart(t)
  <2>1. \A i \in 1 .. n : \A x \in s[i].from .. s[i].to : x \in Points(s)
    BY <1>1, PointsOf
  <2> SUFFICES ASSUME NEW i \in 1 .. n + 1, NEW j \in 1 .. n + 1, i # j, NEW x,
                      x \in t[i].from .. t[i].to, x \in t[j].from .. t[j].to
               PROVE  FALSE
    BY <1>1 DEF Apart
  <2>2. CASE i \in 1 .. n /\ j \in 1 .. n
    BY <1>1, <1>2, <1>5, <2>2 DEF Apart
  <2>3. CASE i = n + 1
    <3>1. j \in 1 .. n
      BY <1>3, <2>3
    <3> QED
      BY <1>1, <1>2, <1>5, <2>1, <2>3, <3>1
  <2>4. CASE j = n + 1
    <3>1. i \in 1 .. n
      BY <1>3, <2>4
    <3> QED
      BY <1>1, <1>2, <1>5, <2>1, <2>4, <3>1
  <2> QED
    BY <1>3, <2>2, <2>3, <2>4
<1> QED
  BY <1>1, <1>4, <1>5 DEF t

LEMMA FrontPoints ==
    ASSUME NEW s \in Seq(ValidRanges), s # <<>>
    PROVE  /\ Front(s) \in Seq(ValidRanges)
           /\ \A x : x \in Points(s) <=> x \in Points(Front(s)) \/ x \in Last(s).from .. Last(s).to
           /\ Apart(s) => /\ Apart(Front(s))
                          /\ \A x : ~ (x \in Points(Front(s)) /\ x \in Last(s).from .. Last(s).to)
<1> DEFINE n == Len(s) - 1
           t == Front(s)
           r == Last(s)
<1>1. /\ n \in Nat /\ DOMAIN s = 1 .. n + 1 /\ s[n + 1] = r /\ n + 1 \in 1 .. n + 1
      /\ t \in Seq(ValidRanges) /\ DOMAIN t = 1 .. n
      /\ \A i \in 1 .. n : t[i] = s[i]
  <2>1. /\ Len(s) \in Nat \ {0} /\ r = s[Len(s)]
        /\ t \in Seq(ValidRanges) /\ Len(t) = Len(s) - 1
        /\ \A i \in 1 .. Len(s) - 1 : t[i] = s[i]
    BY LastAndFront
  <2>2. Len(s) = n + 1 /\ n \in Nat /\ n + 1 \in 1 .. n + 1
    BY <2>1
  <2> HIDE DEF t, r
  <2>3. DOMAIN t = 1 .. n /\ DOMAIN s = 1 .. Len(s)
    BY <2>1
  <2> QED
    BY <2>1, <2>2, <2>3
<1> HIDE DEF n, t, r
<1>2. \A i \in 1 .. n : i \in 1 .. n + 1 /\ i # n + 1
  BY <1>1
<1>3. \A i \in 1 .. n + 1 : i \in 1 .. n \/ i = n + 1
  BY <1>1
<1>4. \A x : x \in Points(s) <=> x \in Points(t) \/ x \in r.from .. r.to
  BY <1>1, <1>2, <1>3, PointsOf
<1>5. ASSUME Apart(s)
      PROVE  Apart(t) /\ \A x : ~ (x \in Points(t) /\ x \in r.from .. r.to)
  <2>1. Apart(t)
    BY <1>1, <1>2, <1>5 DEF Apart
  <2>2. \A x : ~ (x \in Points(t) /\ x \in r.from .. r.to)
    <3> SUFFICES ASSUME NEW i \in 1 .. n, NEW x,
                        x \in t[i].from .. t[i].to, x \in r.from .. r.to
                 PROVE  FALSE
      BY <1>1, PointsOf
    <3>1. i \in DOMAIN s /\ n + 1 \in DOMAIN s /\ i # n + 1 /\ s[i] = t[i] /\ s[n + 1] = r
      BY <1>1, <1>2
    <3> QED
      BY <1>5, <3>1 DEF Apart
  <2> QED
    BY <2>1, <2>2
<1> QED
  BY <1>1, <1>4, <1>5 DEF t, r

(* A range of the queue is taken. *)
LEMMA TookIsTakeState ==
    ASSUME NEW points, NEW span \in Nat \ {0}, NEW state \in TakeStates(points, span),
           NEW queue \in Seq(ValidRanges), Apart(queue),
           NEW r \in ValidRanges, r.to - r.from < span,
           \A x : x \in Points(queue) => x \in Points(state.queue),
           \A x : x \in r.from .. r.to => x \in Points(state.queue),
           \A x : ~ (x \in Points(queue) /\ x \in r.from .. r.to)
    PROVE  [queue |-> queue, taken |-> Append(state.taken, r)] \in TakeStates(points, span)
<1> DEFINE S == Within(points, span)
           taken == state.taken
           next == Append(taken, r)
<1>1. /\ taken \in Seq(S) /\ Points(state.queue) \subseteq points
      /\ Apart(taken)
      /\ \A x : ~ (x \in Points(state.queue) /\ x \in Points(taken))
  BY DEF TakeStates
<1>2. S \in SUBSET ValidRanges /\ r \in S
  BY <1>1 DEF Within
<1> HIDE DEF S, taken, next
<1>3. /\ next \in Seq(S)
      /\ \A x : x \in Points(next) <=> x \in Points(taken) \/ x \in r.from .. r.to
      /\ (Apart(taken) /\ \A x : ~ (x \in Points(taken) /\ x \in r.from .. r.to))
            => Apart(next)
  BY <1>1, <1>2, AppendPoints DEF next
<1>4. Apart(next)
  BY <1>1, <1>3
<1>5. \A x : ~ (x \in Points(queue) /\ x \in Points(next))
  BY <1>1, <1>3
<1>6. Points(queue) \subseteq points
  BY <1>1
<1> DEFINE new == [queue |-> queue, taken |-> next]
<1>7. new.queue = queue /\ new.taken = next
      /\ new \in [queue : Seq(ValidRanges), taken : Seq(S)]
  BY <1>3
<1> HIDE DEF new
<1>8. new \in TakeStates(points, span)
  BY <1>4, <1>5, <1>6, <1>7 DEF TakeStates, S
<1> QED
  BY <1>8 DEF new, next, taken

LEMMA TakeStepTakes ==
    ASSUME NEW points, NEW span \in Nat \ {0}, NEW take \in Nat,
           NEW state \in TakeStates(points, span)
    PROVE  TakeStep(state, span, take) \in TakeStates(points, span)
<1> DEFINE queue == state.queue
           current == Last(queue)
           rest == Front(queue)
           before == Last(rest)
           cut == Span(current.to + 1 - span, current.to)
           next == TakeStep(state, span, take)
<1>1. queue \in Seq(ValidRanges) /\ Apart(queue)
  BY DEF TakeStates
<1>2. CASE queue = <<>> \/ Len(state.taken) >= take
  <2>1. next = state
    BY <1>2 DEF TakeStep
  <2> QED
    BY <2>1
<1>3. CASE ~ (queue = <<>> \/ Len(state.taken) >= take)
  <2> HIDE DEF queue, next
  <2>1. current \in ValidRanges /\ rest \in Seq(ValidRanges)
    BY <1>1, <1>3, LastAndFront
  <2> DEFINE a == current.from
             b == current.to
  <2>2. a \in Int /\ b \in Int /\ a <= b
    BY <2>1, ValidRange
  <2>3. RangeSize(current) = b - a + 1
    BY <2>2, MaxOfTwo DEF RangeSize
  <2>4. cut.from = b + 1 - span /\ cut.to = b /\ cut \in ValidRanges
        /\ cut.to - cut.from < span
    BY <2>2, SpanIsValid
  <2>5. /\ \A x : x \in Points(queue) <=> x \in Points(rest) \/ x \in a .. b
        /\ Apart(rest) /\ \A x : ~ (x \in Points(rest) /\ x \in a .. b)
    BY <1>1, <1>3, FrontPoints
  <2>6. next =
          IF RangeSize(current) > span
          THEN [queue |-> Append(rest, Span(a, cut.from - 1)),
                taken |-> Append(state.taken, cut)]
          ELSE IF rest = <<>> \/ ~RangeOverlap(current, before)
          THEN [queue |-> rest, taken |-> Append(state.taken, current)]
          ELSE IF b - before.from + 1 > span
          THEN [queue |-> Append(Front(rest), Span(before.from, cut.from - 1)),
                taken |-> Append(state.taken, cut)]
          ELSE [state EXCEPT !.queue =
                  Append(Front(rest), Span(Min({a, before.from}), b))]
    BY <1>3 DEF TakeStep, next, queue
  <2> HIDE DEF current, rest, a, b, cut, before
  <2>7. CASE RangeSize(current) > span
    <3> DEFINE left == Span(a, cut.from - 1)
    <3>1. left \in ValidRanges /\ left.from = a /\ left.to = b - span /\ a <= b - span
      BY <2>2, <2>3, <2>4, <2>7, SpanIsValid
    <3> HIDE DEF left
    <3> DEFINE q == Append(rest, left)
    <3>2. \A x : x \in left.from .. left.to => x \in a .. b /\ x \notin cut.from .. cut.to
      BY <2>2, <2>4, <3>1
    <3>3. \A x : x \in cut.from .. cut.to => x \in a .. b
      BY <2>2, <2>4, <3>1
    <3>4. /\ q \in Seq(ValidRanges)
          /\ \A x : x \in Points(q) <=> x \in Points(rest) \/ x \in left.from .. left.to
          /\ Apart(q)
      BY <2>1, <2>5, <3>1, <3>2, AppendPoints
    <3> HIDE DEF q
    <3>5. next = [queue |-> q, taken |-> Append(state.taken, cut)]
      BY <2>6, <2>7 DEF q, left
    <3>6. /\ \A x : x \in Points(q) => x \in Points(queue)
          /\ \A x : x \in cut.from .. cut.to => x \in Points(queue)
          /\ \A x : ~ (x \in Points(q) /\ x \in cut.from .. cut.to)
      BY <2>5, <3>2, <3>3, <3>4
    <3>7. [queue |-> q, taken |-> Append(state.taken, cut)] \in TakeStates(points, span)
      BY <2>4, <3>4, <3>6, TookIsTakeState DEF queue
    <3> QED
      BY <3>5, <3>7 DEF next
  <2>8. CASE ~ (RangeSize(current) > span) /\ (rest = <<>> \/ ~RangeOverlap(current, before))
    <3>1. next = [queue |-> rest, taken |-> Append(state.taken, current)]
      BY <2>6, <2>8
    <3>2. current.to - current.from < span
      BY <2>2, <2>3, <2>8 DEF a, b
    <3>3. /\ \A x : x \in Points(rest) => x \in Points(queue)
          /\ \A x : x \in current.from .. current.to => x \in Points(queue)
          /\ \A x : ~ (x \in Points(rest) /\ x \in current.from .. current.to)
      BY <2>5 DEF a, b
    <3>4. [queue |-> rest, taken |-> Append(state.taken, current)] \in TakeStates(points, span)
      BY <2>1, <2>5, <3>2, <3>3, TookIsTakeState DEF queue
    <3> QED
      BY <3>1, <3>4 DEF next
  <2>9. CASE rest # <<>> /\ RangeOverlap(current, before)
    <3>1. before \in ValidRanges /\ Len(rest) \in 1 .. Len(rest) /\ before = rest[Len(rest)]
      BY <2>1, <2>9, LastAndFront DEF before
    <3>2. before.from \in Int /\ before.to \in Int /\ before.from <= before.to
      BY <3>1, ValidRange
    <3>3. \A x : x \in before.from .. before.to => x \in Points(rest)
      BY <2>1, <3>1, PointsOf
    <3>4. PICK x \in Int : x \in a .. b /\ x \in before.from .. before.to
      <4>1. IF a <= before.from THEN before.from \in a .. b /\ before.from \in before.from .. before.to
            ELSE a \in a .. b /\ a \in before.from .. before.to
        BY <2>2, <2>9, <3>2 DEF RangeOverlap, a, b
      <4> QED
        BY <2>2, <3>2, <4>1
    <3> QED
      BY <2>5, <3>3, <3>4
  <2> QED
    BY <2>7, <2>8, <2>9
<1> QED
  BY <1>2, <1>3

Takes(it, ranges, span, take, indices) ==
    it = [s \in SUBSET (DOMAIN indices) |->
            IF s = {} THEN [queue |-> RangeSort(ranges), taken |-> <<>>]
            ELSE TakeStep(it[s \ {Max(s)}], span, take)]

(* What is taken is apart, and part of the ranges, none of it too long. *)
LEMMA TakeNewestTakes ==
    ASSUME NEW ranges \in Seq(ValidRanges), Apart(ranges),
           NEW span \in Nat \ {0}, NEW take \in Nat
    PROVE  /\ TakeNewestRanges(ranges, span, take) \in Seq(Within(Points(ranges), span))
           /\ Apart(TakeNewestRanges(ranges, span, take))
<1> DEFINE points == Points(ranges)
           V == TakeStates(points, span)
           base == [queue |-> RangeSort(ranges), taken |-> <<>>]
           n == Len(ranges) + take
           indices == [k \in 1 .. n |-> k]
           step == [p \in V \X (1 .. n) |-> TakeStep(p[1], span, take)]
<1>1. n \in Nat /\ DOMAIN indices = 1 .. n
  OBVIOUS
<1>2. CASE take = 0
  <2>1. TakeNewestRanges(ranges, span, take) = <<>>
    BY <1>2 DEF TakeNewestRanges
  <2> QED
    BY <2>1 DEF Apart
<1>3. CASE take # 0
  <2>1. base \in V
    <3> DEFINE sorted == RangeSort(ranges)
               m == Len(ranges)
    <3>1. m \in Nat /\ ranges \in [1 .. m -> ValidRanges]
      OBVIOUS
    <3> HIDE DEF m
    <3>2. /\ sorted \in [1 .. m -> ValidRanges] /\ ToSet(sorted) = ToSet(ranges)
          /\ Apart(sorted)
      BY <3>1, RangeSortSorts
    <3> HIDE DEF sorted
    <3>3. sorted \in Seq(ValidRanges) /\ Points(sorted) = points
      BY <3>1, <3>2 DEF Points
    <3>4. base.queue = sorted /\ base.taken = <<>>
          /\ base \in [queue : Seq(ValidRanges), taken : Seq(Within(points, span))]
      BY <3>3 DEF sorted
    <3>5. Apart(<<>>) /\ \A x : x \notin Points(<<>>)
      BY PointsOfNone DEF Apart
    <3> HIDE DEF base, points
    <3> QED
      BY <3>2, <3>3, <3>4, <3>5 DEF TakeStates
  <2>2. \A v \in V : TakeStep(v, span, take) \in V
    BY TakeStepTakes
  <2>3. step \in [V \X (1 .. n) -> V]
    BY <2>2
  <2>4. \A v \in V, i \in 1 .. n : step[<<v, i>>] = TakeStep(v, span, take)
    OBVIOUS
  <2>5. \E it : Takes(it, ranges, span, take, indices)
    <3> HIDE DEF V, step, base, n, indices
    <3>1. PICK it \in [SUBSET (1 .. n) -> V] : FoldSolution(step, base, it, n)
      BY <1>1, <2>1, <2>3, FoldSolutionExists
    <3>2. ASSUME NEW s \in (SUBSET (1 .. n)) \ {{}}
          PROVE  it[s] = TakeStep(it[s \ {Max(s)}], span, take)
      <4>1. it[s] = step[<<it[s \ {Max(s)}], Max(s)>>]
        BY <3>1 DEF FoldSolution
      <4>2. Max(s) \in 1 .. n /\ it[s \ {Max(s)}] \in V
        BY <1>1, <3>1, MaxInInterval
      <4> QED
        BY <2>4, <4>1, <4>2
    <3>3. it[{}] = base
      BY <3>1 DEF FoldSolution
    <3>4. it = [s \in SUBSET (1 .. n) |-> it[s]]
      OBVIOUS
    <3> QED
      BY <1>1, <3>2, <3>3, <3>4 DEF Takes, base
  <2> DEFINE it == CHOOSE f : Takes(f, ranges, span, take, indices)
  <2>6. Takes(it, ranges, span, take, indices)
    BY <2>5
  <2>7. TakeNewestRanges(ranges, span, take) = it[1 .. n].taken
    <3>1. ~ (span <= 0 \/ take <= 0)
      BY <1>3
    <3> QED
      BY <1>1, <3>1 DEF TakeNewestRanges, FoldLeft, MapThenFoldSet, Takes
  <2> HIDE DEF it, V, step
  <2>8. FoldsWithin(it, base, step, V, n)
    <3> HIDE DEF n, indices
    <3>1. it[{}] = base
      BY <2>6 DEF Takes
    <3>2. ASSUME NEW s \in (SUBSET (1 .. n)) \ {{}}, it[s \ {Max(s)}] \in V
          PROVE  it[s] = step[<<it[s \ {Max(s)}], Max(s)>>]
      <4>1. it[s] = TakeStep(it[s \ {Max(s)}], span, take)
        BY <1>1, <2>6 DEF Takes
      <4>2. Max(s) \in 1 .. n
        BY <1>1, MaxInInterval
      <4> QED
        BY <2>4, <3>2, <4>1, <4>2
    <3> HIDE DEF base
    <3> QED
      BY <3>1, <3>2 DEF FoldsWithin
  <2> HIDE DEF base, n, indices
  <2>9. PICK at : Stages(at, base, step, V, n) /\ at[n] = it[1 .. n]
    <3>1. HasStages(it, base, step, V, n)
      BY <1>1, <2>1, <2>3, <2>8, FoldHasStages
    <3> QED
      BY <3>1 DEF HasStages
  <2>10. it[1 .. n] \in V
    <3>1. n \in 0 .. n
      BY <1>1
    <3> QED
      BY <2>9, <3>1 DEF Stages
  <2> QED
    BY <2>7, <2>10 DEF V, TakeStates
<1> QED
  BY <1>2, <1>3

-----------------------------------------------------------------------------
(***************************************************************************)
(* Queries: what each is made for is wanted, and within the limits.        *)
(***************************************************************************)
Filters == UNION {[objs -> Seq(ValidRanges)] : objs \in SUBSET Products}

Methods == {"jsonrpc batch", "address batch", "prices"}

JsonMethod == "jsonrpc batch"
AddressMethod == "address batch"
PriceMethod == "prices"

LEMMA MethodsOfQueries == {JsonMethod, AddressMethod, PriceMethod} = Methods
  BY ZenonT(10) DEF JsonMethod, AddressMethod, PriceMethod, Methods

QueryRecords ==
    [type : Methods, objs : SUBSET Products,
     range : ValidRanges, filter : Filters]

Queries(want, span) ==
    {q \in QueryRecords :
        /\ Cardinality(q.objs) <= MaxAddresses
        /\ q.range.to - q.range.from < span
        /\ \E o \in q.objs : q.range.to \in want[o]
        /\ \A a \in ObjsAndRanges(q) :
              a.obj \in Products /\ a.range \in Within(want[a.obj], span)}

SingleQuery(kind, o, r) ==
    [type |-> kind, objs |-> {o}, range |-> r, filter |-> [x \in {o} |-> <<>>]]

LEMMA SingleQueryIsQuery ==
    ASSUME NEW want, NEW span \in Nat \ {0}, NEW kind \in Methods,
           NEW o \in Products, NEW r \in Within(want[o], span), MaxAddresses \in Nat \ {0}
    PROVE  /\ SingleQuery(kind, o, r) \in Queries(want, span)
           /\ ObjsAndRanges(SingleQuery(kind, o, r)) = {[obj |-> o, range |-> r]}
<1> DEFINE q == SingleQuery(kind, o, r)
           f == [x \in {o} |-> <<>>]
<1>1. q.type = kind /\ q.objs = {o} /\ q.range = r /\ q.filter = f /\ f[o] = <<>>
  BY DEF SingleQuery
<1>2. r \in ValidRanges /\ r.from .. r.to \subseteq want[o] /\ r.to - r.from < span
  BY DEF Within
<1>3. f \in [{o} -> Seq(ValidRanges)] /\ {o} \in SUBSET Products
  <2>1. <<>> \in Seq(ValidRanges)
    OBVIOUS
  <2>2. {o} \in SUBSET Products
    OBVIOUS
  <2> QED
    BY <2>1, <2>2
<1>4. f \in Filters
  BY <1>3 DEF Filters
<1>5. q \in QueryRecords
  BY <1>2, <1>3, <1>4 DEF QueryRecords, SingleQuery
<1> HIDE DEF q, f
<1>6. ObjsAndRanges(q) = {[obj |-> o, range |-> r]}
  BY <1>1 DEF ObjsAndRanges
<1>7. Cardinality(q.objs) <= MaxAddresses
  <2>1. Cardinality(q.objs) = 1
    BY <1>1, FS_Singleton
  <2>2. 1 <= MaxAddresses
    OBVIOUS
  <2> QED
    BY <2>1, <2>2
<1>8. r.to \in want[o]
  <2>0. r.from \in Int /\ r.to \in Int /\ r.from <= r.to
    BY <1>2, ValidRange
  <2>1. r.to \in r.from .. r.to
    BY <2>0
  <2> QED
    BY <1>2, <2>1
<1>9. \A a \in ObjsAndRanges(q) : a.obj \in Products /\ a.range \in Within(want[a.obj], span)
  <2> SUFFICES ASSUME NEW a \in ObjsAndRanges(q)
               PROVE  a.obj \in Products /\ a.range \in Within(want[a.obj], span)
    OBVIOUS
  <2>1. a = [obj |-> o, range |-> r]
    BY <1>6
  <2>2. a.obj = o /\ a.range = r
    BY <2>1
  <2> QED
    BY <2>2
<1>10. q.range.to - q.range.from < span /\ \E x \in q.objs : q.range.to \in want[x]
  BY <1>1, <1>2, <1>8
<1>11. q \in Queries(want, span)
  BY <1>5, <1>7, <1>9, <1>10 DEF Queries
<1> QED
  BY <1>6, <1>11 DEF q

(* The ranges to query of a product. *)
Parts(want) ==
    {part \in [obj : Products, ranges : Seq(ValidRanges)] :
        Points(part.ranges) \subseteq want[part.obj] /\ Apart(part.ranges)}

Limits == {MaxSpan, MaxAddresses, MaxQueries, SnapshotBlocks} \subseteq Nat \ {0}

LEMMA WithinSmaller ==
    ASSUME NEW S, NEW T, S \subseteq T, NEW span
    PROVE  Within(S, span) \subseteq Within(T, span)
  BY DEF Within

LEMMA SeqOfSmaller ==
    ASSUME NEW S, NEW T, S \subseteq T, NEW s \in Seq(S)
    PROVE  s \in Seq(T)
  OBVIOUS

JsonQueriesOf(part) ==
    LET ranges == TakeNewestRanges(part.ranges, MaxSpan, MaxQueries)
    IN  [j \in DOMAIN ranges |-> SingleQuery(JsonMethod, part.obj, ranges[j])]

LEMMA JsonQueriesOfPart ==
    ASSUME Limits, NEW want, NEW part \in Parts(want)
    PROVE  JsonQueriesOf(part) \in Seq(Queries(want, MaxSpan))
<1> DEFINE ranges == TakeNewestRanges(part.ranges, MaxSpan, MaxQueries)
           points == Points(part.ranges)
           S == Within(points, MaxSpan)
           n == Len(ranges)
<1>1. /\ part.obj \in Products /\ part.ranges \in Seq(ValidRanges) /\ Apart(part.ranges)
      /\ points \subseteq want[part.obj]
  BY DEF Parts
<1>2. MaxSpan \in Nat \ {0} /\ MaxQueries \in Nat /\ MaxAddresses \in Nat \ {0}
  BY DEF Limits
<1>3. ranges \in Seq(S)
  BY <1>1, <1>2, TakeNewestTakes
<1>4. S \subseteq Within(want[part.obj], MaxSpan)
  BY <1>1, WithinSmaller
<1> HIDE DEF ranges, S
<1>5. n \in Nat /\ DOMAIN ranges = 1 .. n /\ \A j \in 1 .. n : ranges[j] \in S
  BY <1>3
<1> DEFINE queries == [j \in 1 .. n |-> SingleQuery(JsonMethod, part.obj, ranges[j])]
<1>6. JsonQueriesOf(part) = queries
  BY <1>5 DEF JsonQueriesOf, ranges
<1> HIDE DEF n
<1>7. \A j \in 1 .. n :
         SingleQuery(JsonMethod, part.obj, ranges[j]) \in Queries(want, MaxSpan)
  <2> SUFFICES ASSUME NEW j \in 1 .. n
               PROVE  SingleQuery(JsonMethod, part.obj, ranges[j]) \in Queries(want, MaxSpan)
    OBVIOUS
  <2>1. ranges[j] \in Within(want[part.obj], MaxSpan)
    BY <1>4, <1>5
  <2> QED
    BY <1>1, <1>2, <2>1, SingleQueryIsQuery, MethodsOfQueries
<1>8. queries \in Seq(Queries(want, MaxSpan))
  <2> DEFINE Q == Queries(want, MaxSpan)
  <2>1. queries \in [1 .. n -> Q]
    BY <1>7
  <2> HIDE DEF queries, Q
  <2>2. queries \in Seq(Q)
    BY <1>5, <2>1
  <2> QED
    BY <2>2 DEF Q
<1> QED
  BY <1>6, <1>8

LEMMA JsonQueriesAreQueries ==
    ASSUME Limits, NEW want, NEW parts \in Seq(Parts(want))
    PROVE  JsonRpcBatchQueries(parts, Options) \in Seq(Queries(want, MaxSpan))
<1> DEFINE n == Len(parts)
           S == Queries(want, MaxSpan)
           seqs == [i \in 1 .. n |-> JsonQueriesOf(parts[i])]
<1>1. n \in Nat /\ DOMAIN parts = 1 .. n /\ \A i \in 1 .. n : parts[i] \in Parts(want)
  OBVIOUS
<1>2. JsonRpcBatchQueries(parts, Options) = FlattenSeq(seqs)
  BY <1>1 DEF JsonRpcBatchQueries, JsonQueriesOf, Options, SingleQuery, JsonMethod
<1> HIDE DEF n, S
<1>3. \A i \in 1 .. n : JsonQueriesOf(parts[i]) \in Seq(S)
  BY <1>1, JsonQueriesOfPart DEF S
<1>4. seqs \in [1 .. n -> Seq(S)]
  BY <1>3
<1> HIDE DEF seqs
<1>5. FlattenSeq(seqs) \in Seq(S)
  BY <1>1, <1>4, FlattenElements
<1> QED
  BY <1>2, <1>5 DEF S

-----------------------------------------------------------------------------
(***************************************************************************)
(* Address batches: sorting and grouping the products of a slice.          *)
(***************************************************************************)
Sums(it, s) ==
    it = [t \in SUBSET (DOMAIN s) |-> IF t = {} THEN 0 ELSE it[t \ {Max(t)}] + s[Max(t)]]

LEMMA SumIsInteger ==
    ASSUME NEW n \in Nat, NEW s \in [1 .. n -> Int]
    PROVE  Sum(s) \in Int
<1> DEFINE V == Int
           base == 0
           step == [p \in V \X (1 .. n) |-> p[1] + s[p[2]]]
<1>1. DOMAIN s = 1 .. n
  OBVIOUS
<1>2. base \in V
  OBVIOUS
<1>3. \A v \in V, i \in 1 .. n : v + s[i] \in V
  OBVIOUS
<1>4. step \in [V \X (1 .. n) -> V]
  BY <1>3
<1>5. \A v \in V, i \in 1 .. n : step[<<v, i>>] = v + s[i]
  OBVIOUS
<1>6. \E it : Sums(it, s)
  <2> HIDE DEF V, step, base
  <2>1. PICK it \in [SUBSET (1 .. n) -> V] : FoldSolution(step, base, it, n)
    BY <1>2, <1>4, FoldSolutionExists
  <2>2. ASSUME NEW t \in (SUBSET (1 .. n)) \ {{}}
        PROVE  it[t] = it[t \ {Max(t)}] + s[Max(t)]
    <3>1. it[t] = step[<<it[t \ {Max(t)}], Max(t)>>]
      BY <2>1 DEF FoldSolution
    <3>2. Max(t) \in 1 .. n /\ it[t \ {Max(t)}] \in V
      BY <2>1, MaxInInterval
    <3> QED
      BY <1>5, <3>1, <3>2
  <2>3. it[{}] = base
    BY <2>1 DEF FoldSolution
  <2>4. it = [t \in SUBSET (1 .. n) |-> it[t]]
    OBVIOUS
  <2> QED
    BY <1>1, <2>2, <2>3, <2>4 DEF Sums, base
<1> DEFINE it == CHOOSE f : Sums(f, s)
<1>7. Sums(it, s)
  BY <1>6
<1>8. Sum(s) = it[1 .. n]
  BY <1>1 DEF Sum, FoldLeft, MapThenFoldSet, Sums
<1> HIDE DEF it, V, step
<1>9. FoldsWithin(it, base, step, V, n)
  <2>1. it[{}] = base
    BY <1>7 DEF Sums
  <2>2. ASSUME NEW t \in (SUBSET (1 .. n)) \ {{}}, it[t \ {Max(t)}] \in V
        PROVE  it[t] = step[<<it[t \ {Max(t)}], Max(t)>>]
    <3>1. it[t] = it[t \ {Max(t)}] + s[Max(t)]
      BY <1>1, <1>7 DEF Sums
    <3>2. Max(t) \in 1 .. n
      BY MaxInInterval
    <3> QED
      BY <1>5, <2>2, <3>1, <3>2
  <2> HIDE DEF base
  <2> QED
    BY <2>1, <2>2 DEF FoldsWithin
<1> HIDE DEF base
<1>10. HasStages(it, base, step, V, n)
  BY <1>2, <1>4, <1>9, FoldHasStages
<1>11. it[1 .. n] \in V
  <2>1. PICK at : Stages(at, base, step, V, n) /\ at[n] = it[1 .. n]
    BY <1>10 DEF HasStages
  <2>2. n \in 0 .. n
    OBVIOUS
  <2> QED
    BY <2>1, <2>2 DEF Stages
<1> QED
  BY <1>8, <1>11 DEF V

LEMMA CoverageIsInteger ==
    ASSUME NEW ranges \in Seq(ValidRanges)
    PROVE  Coverage(ranges) \in Int
<1> DEFINE n == Len(ranges)
           sizes == [i \in 1 .. n |-> RangeSize(ranges[i])]
<1>1. n \in Nat /\ DOMAIN ranges = 1 .. n /\ \A i \in 1 .. n : ranges[i] \in ValidRanges
  OBVIOUS
<1>2. Coverage(ranges) = Sum(sizes)
  BY <1>1 DEF Coverage
<1> HIDE DEF n
<1>3. \A i \in 1 .. n : RangeSize(ranges[i]) \in Int
  <2> SUFFICES ASSUME NEW i \in 1 .. n PROVE RangeSize(ranges[i]) \in Int
    OBVIOUS
  <2>1. ranges[i].to \in Int /\ ranges[i].from \in Int
    BY <1>1, ValidRange
  <2>2. ranges[i].to - ranges[i].from + 1 \in Int
    BY <2>1
  <2> QED
    BY <2>2, MaxOfTwo DEF RangeSize
<1>4. sizes \in [1 .. n -> Int]
  BY <1>3
<1> HIDE DEF sizes
<1> QED
  BY <1>1, <1>2, <1>4, SumIsInteger

PartsSorted(parts, luck) ==
    LET before(a, b) ==
            \/ Coverage(a.ranges) > Coverage(b.ranges)
            \/ Coverage(a.ranges) = Coverage(b.ranges) /\ luck[a.obj] > luck[b.obj]
    IN  StableSort(parts, before)

Reorders(sorted, seq, n) ==
    \E perm \in [1 .. n -> 1 .. n] :
        /\ \A k, l \in 1 .. n : perm[k] = perm[l] => k = l
        /\ sorted = [k \in 1 .. n |-> seq[perm[k]]]

LEMMA PartsSortedReorders ==
    ASSUME NEW luck \in [Products -> Int], NEW n \in Nat,
           NEW parts \in [1 .. n -> [obj : Products, ranges : Seq(ValidRanges)]]
    PROVE  Reorders(PartsSorted(parts, luck), parts, n)
<1> DEFINE S == [obj : Products, ranges : Seq(ValidRanges)]
           key == [a \in S |-> Coverage(a.ranges)]
           tie == [a \in S |-> luck[a.obj]]
           less == {ab \in S \X S : \/ key[ab[1]] > key[ab[2]]
                                    \/ (key[ab[1]] = key[ab[2]] /\ tie[ab[1]] > tie[ab[2]])}
<1>1. \A a \in S : key[a] = Coverage(a.ranges) /\ key[a] \in Int
                   /\ tie[a] = luck[a.obj] /\ tie[a] \in Int
  BY CoverageIsInteger
<1> HIDE DEF key, tie
<1>2. \A a, b \in S : <<a, b>> \in less <=> \/ key[a] > key[b]
                                            \/ (key[a] = key[b] /\ tie[a] > tie[b])
  OBVIOUS
<1>3. \A i \in 1 .. n : parts[i] \in S
  OBVIOUS
<1>4. DOMAIN parts = 1 .. n
  OBVIOUS
<1> HIDE DEF S, less
<1>5. WeakOrder(less, S)
  <2>1. ASSUME NEW x \in S, NEW y \in S, <<x, y>> \in less
        PROVE  <<y, x>> \notin less
    <3>1. key[x] \in Int /\ key[y] \in Int /\ tie[x] \in Int /\ tie[y] \in Int
      BY <1>1
    <3>2. key[x] > key[y] \/ (key[x] = key[y] /\ tie[x] > tie[y])
      BY <1>2, <2>1
    <3>3. ~ (key[y] > key[x] \/ (key[y] = key[x] /\ tie[y] > tie[x]))
      BY <3>1, <3>2
    <3> QED
      BY <1>2, <3>3
  <2>2. ASSUME NEW x \in S, NEW y \in S, NEW z \in S, <<x, z>> \in less
        PROVE  <<x, y>> \in less \/ <<y, z>> \in less
    <3>1. key[x] \in Int /\ key[y] \in Int /\ key[z] \in Int
          /\ tie[x] \in Int /\ tie[y] \in Int /\ tie[z] \in Int
      BY <1>1
    <3>2. key[x] > key[z] \/ (key[x] = key[z] /\ tie[x] > tie[z])
      BY <1>2, <2>2
    <3>3. \/ key[x] > key[y]
          \/ (key[x] = key[y] /\ tie[x] > tie[y])
          \/ key[y] > key[z]
          \/ (key[y] = key[z] /\ tie[y] > tie[z])
      BY <3>1, <3>2
    <3> QED
      BY <1>2, <3>3
  <2> QED
    BY <2>1, <2>2 DEF WeakOrder
<1>6. parts \in [1 .. n -> S]
  BY DEF S
<1>7. PICK perm : Sorts(perm, parts, n, less)
  BY <1>5, <1>6, SortingSorts
<1>8. PartsSorted(parts, luck) = SortedBy(parts, less)
  <2> DEFINE Before(i, j) ==
               \/ Coverage(parts[i].ranges) > Coverage(parts[j].ranges)
               \/ /\ Coverage(parts[i].ranges) = Coverage(parts[j].ranges)
                  /\ luck[parts[i].obj] > luck[parts[j].obj]
             first(i) == {j \in 1 .. n : Before(j, i) \/ (j <= i /\ ~Before(i, j))}
             second(i) == {j \in 1 .. n : \/ <<parts[j], parts[i]>> \in less
                                          \/ (j <= i /\ <<parts[i], parts[j]>> \notin less)}
             place == [i \in 1 .. n |-> Cardinality(first(i))]
             rank == [i \in 1 .. n |-> Cardinality(second(i))]
  <2>1. \A i, j \in 1 .. n : <<parts[i], parts[j]>> \in less <=> Before(i, j)
    <3> SUFFICES ASSUME NEW i \in 1 .. n, NEW j \in 1 .. n
                 PROVE  <<parts[i], parts[j]>> \in less <=> Before(i, j)
      OBVIOUS
    <3> DEFINE a == parts[i]
               b == parts[j]
    <3>1. a \in S /\ b \in S
      BY <1>3
    <3>2. /\ key[a] = Coverage(parts[i].ranges) /\ key[b] = Coverage(parts[j].ranges)
          /\ tie[a] = luck[parts[i].obj] /\ tie[b] = luck[parts[j].obj]
      BY <1>1, <3>1
    <3> HIDE DEF a, b
    <3>3. <<a, b>> \in less <=> \/ key[a] > key[b]
                               \/ (key[a] = key[b] /\ tie[a] > tie[b])
      BY <1>2, <3>1
    <3>4. Before(i, j) <=> \/ key[a] > key[b]
                           \/ (key[a] = key[b] /\ tie[a] > tie[b])
      BY <3>2
    <3> QED
      BY <3>3, <3>4 DEF a, b
  <2>2. PartsSorted(parts, luck) = [k \in 1 .. n |-> parts[CHOOSE i \in 1 .. n : place[i] = k]]
    BY <1>4 DEF PartsSorted, StableSort
  <2>3. SortedBy(parts, less) = [k \in 1 .. n |-> parts[CHOOSE i \in 1 .. n : rank[i] = k]]
    BY <1>4 DEF SortedBy
  <2> HIDE DEF Before
  <2>4. \A i \in 1 .. n : first(i) = second(i)
    BY <2>1
  <2>5. place = rank
    <3> HIDE DEF first, second
    <3> QED
      BY <2>4
  <2> HIDE DEF place, rank
  <2> QED
    BY <2>2, <2>3, <2>5
<1>9. /\ perm \in [1 .. n -> 1 .. n]
      /\ \A k, l \in 1 .. n : perm[k] = perm[l] => k = l
      /\ PartsSorted(parts, luck) = [k \in 1 .. n |-> parts[perm[k]]]
  BY <1>7, <1>8 DEF Sorts
<1> QED
  BY <1>9 DEF Reorders

LEMMA Division ==
    ASSUME NEW a \in Nat, NEW n \in Nat \ {0}, NEW i \in 1 .. (a + n - 1) \div n
    PROVE  (i - 1) * n \in Nat /\ (i - 1) * n < a /\ i * n = (i - 1) * n + n /\ i * n \in Nat
<1> DEFINE q == (a + n - 1) \div n
<1>1. q \in Nat /\ q * n <= a + n - 1 /\ i <= q /\ i \in Nat \ {0}
  OBVIOUS
<1> HIDE DEF q
<1>2. i * n <= q * n
  BY <1>1
<1>3. i * n \in Int /\ q * n \in Int /\ (i - 1) * n = i * n - n /\ (i - 1) * n \in Nat
  BY <1>1
<1> QED
  BY <1>1, <1>2, <1>3

(* The parts of a list, none of them empty or too long. *)
ChunkPlace(n, c, i) == (c - 1) * n + i

Chunked(chunks, s, S, n, m) ==
    /\ DOMAIN chunks = 1 .. m
    /\ \A c \in 1 .. m :
         /\ chunks[c] \in Seq(S)
         /\ Len(chunks[c]) \in 1 .. n
         /\ \A i \in 1 .. Len(chunks[c]) :
              /\ ChunkPlace(n, c, i) \in 1 .. Len(s)
              /\ chunks[c][i] = s[ChunkPlace(n, c, i)]

LEMMA ChunkParts ==
    ASSUME NEW S, NEW s \in Seq(S), NEW n \in Nat \ {0}
    PROVE  \E m \in Nat : Chunked(Chunk(s, n), s, S, n, m)
<1> DEFINE L == Len(s)
           m == (L + n - 1) \div n
           chunks == Chunk(s, n)
<1>1. L \in Nat /\ DOMAIN s = 1 .. L
  OBVIOUS
<1>2. m \in Nat
  BY <1>1
<1>3. chunks = [c \in 1 .. m |-> SubSeq(s, (c - 1) * n + 1, Min({L, c * n}))]
  BY DEF Chunk
<1>4. ASSUME NEW c \in 1 .. m
      PROVE  /\ chunks[c] \in Seq(S) /\ Len(chunks[c]) \in 1 .. n
             /\ \A i \in 1 .. Len(chunks[c]) :
                   (c - 1) * n + i \in 1 .. L /\ chunks[c][i] = s[(c - 1) * n + i]
  <2> DEFINE lo == (c - 1) * n
             hi == Min({L, c * n})
  <2>1. lo \in Nat /\ lo < L /\ c * n = lo + n /\ c * n \in Nat
    BY <1>1, Division
  <2>2. hi = IF L <= c * n THEN L ELSE c * n
    BY <1>1, <2>1, MinOfTwo
  <2>3. chunks[c] = SubSeq(s, lo + 1, hi)
    BY <1>3
  <2> HIDE DEF lo, hi, L, m, chunks
  <2>4. hi \in Nat /\ lo + 1 <= hi /\ hi <= L /\ hi - lo \in 1 .. n
    BY <1>1, <2>1, <2>2
  <2>5. \A i \in lo + 1 .. hi : i \in 1 .. L /\ s[i] \in S
    BY <1>1, <2>1, <2>4 DEF L
  <2>6. /\ SubSeq(s, lo + 1, hi) \in Seq(S)
        /\ Len(SubSeq(s, lo + 1, hi)) = hi - lo
        /\ \A i \in 1 .. hi - lo : SubSeq(s, lo + 1, hi)[i] = s[lo + i]
    <3> DEFINE sub == SubSeq(s, lo + 1, hi)
    <3>1. lo + 1 \in Int /\ hi \in Int
      BY <2>1, <2>4
    <3>2. Len(sub) = hi - lo
      BY <2>1, <2>4
    <3>3. sub \in Seq(S)
      BY <2>5, <3>1
    <3>4. ASSUME NEW i \in 1 .. hi - lo PROVE sub[i] = s[(lo + 1) + i - 1]
      <4>1. lo + 1 \in Nat /\ hi \in Nat /\ lo + 1 >= 1 /\ hi <= Len(s)
        BY <2>1, <2>4 DEF L
      <4>2. i \in 1 .. Len(sub)
        BY <3>2
      <4>3. i \in 1 .. (1 + hi - (lo + 1))
        BY <2>1, <2>4
      <4>4. s \in Seq(S)
        OBVIOUS
      <4> QED
        BY <4>1, <4>2, <4>3, <4>4
    <3>5. \A i \in 1 .. hi - lo : (lo + 1) + i - 1 = lo + i
      BY <2>1, <2>4
    <3> HIDE DEF sub
    <3>6. \A i \in 1 .. hi - lo : sub[i] = s[lo + i]
      BY <3>4, <3>5
    <3> QED
      BY <3>2, <3>3, <3>6 DEF sub
  <2>7. \A i \in 1 .. hi - lo : lo + i \in 1 .. L
    BY <1>1, <2>1, <2>4
  <2>8. /\ chunks[c] \in Seq(S) /\ Len(chunks[c]) \in 1 .. n
        /\ \A i \in 1 .. Len(chunks[c]) : lo + i \in 1 .. L /\ chunks[c][i] = s[lo + i]
    BY <2>3, <2>4, <2>6, <2>7
  <2> QED
    BY <2>8 DEF lo
<1>5. DOMAIN chunks = 1 .. m
  BY <1>3
<1> HIDE DEF chunks, m
<1>6. \A c, i : ChunkPlace(n, c, i) = (c - 1) * n + i
  BY DEF ChunkPlace
<1>7. Chunked(chunks, s, S, n, m)
  BY <1>4, <1>5, <1>6 DEF Chunked, L
<1> QED
  BY <1>2, <1>7 DEF chunks

LEMMA LeastValue ==
    ASSUME NEW S, IsFiniteSet(S), S # {}, NEW f \in [S -> Int]
    PROVE  \E x \in S : \A y \in S : f[x] <= f[y]
<1> DEFINE g == [x \in S |-> 0 - f[x]]
<1>1. \A x \in S : f[x] \in Int
  OBVIOUS
<1>2. g \in [S -> Int] /\ \A x \in S : g[x] = 0 - f[x]
  BY <1>1
<1> HIDE DEF g
<1>3. PICK x \in S : \A y \in S : g[y] <= g[x]
  BY <1>2, GreatestValue
<1>4. \A y \in S : f[x] <= f[y]
  BY <1>1, <1>2, <1>3
<1> QED
  BY <1>4

(* The smallest range that holds all of a list. *)
LEMMA CoveringCovers ==
    ASSUME NEW n \in Nat \ {0}, NEW ranges \in [1 .. n -> ValidRanges]
    PROVE  /\ RangeCovering(ranges) \in ValidRanges
           /\ \A i \in 1 .. n : /\ RangeCovering(ranges).from <= ranges[i].from
                                /\ ranges[i].to <= RangeCovering(ranges).to
           /\ \E i \in 1 .. n : RangeCovering(ranges).from = ranges[i].from
           /\ \E i \in 1 .. n : RangeCovering(ranges).to = ranges[i].to
<1> DEFINE from == [i \in 1 .. n |-> ranges[i].from]
           to == [i \in 1 .. n |-> ranges[i].to]
           froms == {r.from : r \in ToSet(ranges)}
           tos == {r.to : r \in ToSet(ranges)}
           c == RangeCovering(ranges)
<1>1. \A i \in 1 .. n : ranges[i].from \in Int /\ ranges[i].to \in Int
                        /\ ranges[i].from <= ranges[i].to
  <2> SUFFICES ASSUME NEW i \in 1 .. n
               PROVE  ranges[i].from \in Int /\ ranges[i].to \in Int
                      /\ ranges[i].from <= ranges[i].to
    OBVIOUS
  <2>1. ranges[i] \in ValidRanges
    OBVIOUS
  <2> QED
    BY <2>1, ValidRange
<1>2. /\ from \in [1 .. n -> Int] /\ \A i \in 1 .. n : from[i] = ranges[i].from
      /\ to \in [1 .. n -> Int] /\ \A i \in 1 .. n : to[i] = ranges[i].to
  BY <1>1
<1>3. /\ \A x : x \in froms <=> \E i \in 1 .. n : x = ranges[i].from
      /\ \A x : x \in tos <=> \E i \in 1 .. n : x = ranges[i].to
  BY DEF ToSet
<1>4. c.from = Min(froms) /\ c.to = Max(tos)
  BY DEF RangeCovering, Span
<1>5. IsFiniteSet(1 .. n) /\ 1 .. n # {}
  <2>1. IsFiniteSet(1 .. n)
    BY FS_Interval
  <2>2. 1 \in 1 .. n
    OBVIOUS
  <2> QED
    BY <2>1, <2>2
<1> HIDE DEF from, to, froms, tos
<1>6. PICK i \in 1 .. n : \A k \in 1 .. n : from[i] <= from[k]
  BY <1>2, <1>5, LeastValue
<1>7. PICK j \in 1 .. n : \A k \in 1 .. n : to[k] <= to[j]
  BY <1>2, <1>5, GreatestValue
<1>8. Min(froms) \in froms /\ \A x \in froms : Min(froms) <= x
  <2>1. from[i] \in froms /\ \A x \in froms : from[i] <= x
    <3>1. from[i] \in froms
      BY <1>2, <1>3
    <3>2. ASSUME NEW x \in froms PROVE from[i] <= x
      <4>1. PICK k \in 1 .. n : x = ranges[k].from
        BY <1>3
      <4> QED
        BY <1>2, <1>6, <4>1
    <3> QED
      BY <3>1, <3>2
  <2> QED
    BY <2>1 DEF Min
<1>9. Max(tos) \in tos /\ \A x \in tos : Max(tos) >= x
  <2>1. to[j] \in tos /\ \A x \in tos : to[j] >= x
    <3>1. to[j] \in tos
      BY <1>2, <1>3
    <3>2. ASSUME NEW x \in tos PROVE to[j] >= x
      <4>1. PICK k \in 1 .. n : x = ranges[k].to
        BY <1>3
      <4>2. to[k] = x /\ to[k] <= to[j] /\ to[k] \in Int /\ to[j] \in Int
        BY <1>2, <1>7, <4>1
      <4> QED
        BY <4>2
    <3> QED
      BY <3>1, <3>2
  <2> QED
    BY <2>1 DEF Max
<1> DEFINE a == Min(froms)
           b == Max(tos)
<1>10. c = Span(a, b)
  BY DEF RangeCovering, froms, tos
<1> HIDE DEF c, a, b
<1>11. PICK k \in 1 .. n : a = ranges[k].from
  BY <1>3, <1>8 DEF a
<1>12. PICK l \in 1 .. n : b = ranges[l].to
  BY <1>3, <1>9 DEF b
<1>13. \A m \in 1 .. n : a <= ranges[m].from /\ ranges[m].to <= b
  BY <1>1, <1>3, <1>8, <1>9, <1>12 DEF a, b
<1>14. a \in Int /\ b \in Int /\ a <= b
  <2>1. a \in Int /\ b \in Int
    BY <1>1, <1>11, <1>12
  <2>2. a <= ranges[k].from /\ ranges[k].to <= b
    BY <1>13
  <2>3. ranges[k].from \in Int /\ ranges[k].to \in Int /\ ranges[k].from <= ranges[k].to
    BY <1>1
  <2> QED
    BY <2>1, <2>2, <2>3
<1>15. c.from = a /\ c.to = b /\ c \in ValidRanges
  BY <1>10, <1>14, SpanIsValid
<1> QED
  BY <1>11, <1>12, <1>13, <1>15 DEF c

(* The parts that a slice of the index leaves. *)
SliceParts(want, slice) ==
    {part \in Parts(want) :
        part.ranges # <<>> /\ Points(part.ranges) \subseteq slice.from .. slice.to}

BatchObjs(chunk) == {chunk[i].obj : i \in DOMAIN chunk}

Others(ranges, other) == Keep(ranges, LAMBDA r : r # other)

BatchFilter(chunk, o) ==
    Others(RangeMerge(chunk[CHOOSE i \in DOMAIN chunk : chunk[i].obj = o].ranges),
           RangeCovering(AllRanges(chunk)))

BatchQuery(chunk) ==
    [type |-> AddressMethod, objs |-> BatchObjs(chunk),
     range |-> RangeCovering(AllRanges(chunk)),
     filter |-> [o \in BatchObjs(chunk) |-> BatchFilter(chunk, o)]]

LEMMA PartOfSlice ==
    ASSUME NEW want, NEW slice \in ValidRanges, NEW part \in SliceParts(want, slice)
    PROVE  /\ part.obj \in Products /\ part.ranges \in Seq(ValidRanges)
           /\ part.ranges # <<>>
           /\ \A x : x \in Points(part.ranges) => x \in want[part.obj]
           /\ \A x : x \in Points(part.ranges) => x \in slice.from .. slice.to
           /\ \A r \in ToSet(part.ranges) :
                 /\ r \in ValidRanges
                 /\ slice.from <= r.from /\ r.to <= slice.to
                 /\ r.from \in want[part.obj] /\ r.to \in want[part.obj]
<1>1. /\ part.obj \in Products /\ part.ranges \in Seq(ValidRanges)
      /\ part.ranges # <<>>
      /\ \A x : x \in Points(part.ranges) => x \in want[part.obj]
      /\ \A x : x \in Points(part.ranges) => x \in slice.from .. slice.to
  BY DEF SliceParts, Parts
<1>2. ASSUME NEW r \in ToSet(part.ranges)
      PROVE  /\ r \in ValidRanges
             /\ slice.from <= r.from /\ r.to <= slice.to
             /\ r.from \in want[part.obj] /\ r.to \in want[part.obj]
  <2>1. r \in ValidRanges
    BY <1>1 DEF ToSet
  <2>2. r.from \in Int /\ r.to \in Int /\ r.from <= r.to
    BY <2>1, ValidRange
  <2>3. r.from \in r.from .. r.to /\ r.to \in r.from .. r.to
    BY <2>2
  <2>4. r.from \in Points(part.ranges) /\ r.to \in Points(part.ranges)
    BY <2>3 DEF Points
  <2>5. r.from \in slice.from .. slice.to /\ r.to \in slice.from .. slice.to
    BY <1>1, <2>4
  <2>6. slice.from \in Int /\ slice.to \in Int
    BY ValidRange
  <2>7. slice.from <= r.from /\ r.to <= slice.to
    BY <2>5, <2>6
  <2> QED
    BY <1>1, <2>1, <2>4, <2>7
<1> QED
  BY <1>1, <1>2

LEMMA BatchObjsFew ==
    ASSUME NEW S, NEW n \in Nat, NEW chunk \in [1 .. n -> S],
           \A i \in 1 .. n : chunk[i].obj \in Products
    PROVE  /\ BatchObjs(chunk) \in SUBSET Products
           /\ IsFiniteSet(BatchObjs(chunk)) /\ Cardinality(BatchObjs(chunk)) <= n
<1> DEFINE objs == BatchObjs(chunk)
           f == [i \in 1 .. n |-> chunk[i].obj]
<1>1. objs = {chunk[i].obj : i \in 1 .. n}
  BY DEF BatchObjs
<1>2. f \in Surjection(1 .. n, objs)
  BY <1>1 DEF Surjection
<1>3. IsFiniteSet(1 .. n) /\ Cardinality(1 .. n) = n
  <2>1. 0 \in Int
    OBVIOUS
  <2>2. IsFiniteSet(1 .. n) /\ Cardinality(1 .. n) = IF 1 > n THEN 0 ELSE n - 1 + 1
    BY FS_Interval
  <2> QED
    BY <2>2
<1> HIDE DEF objs, f
<1>4. IsFiniteSet(objs) /\ Cardinality(objs) <= Cardinality(1 .. n)
  BY <1>2, <1>3, FS_Surjection
<1>5. objs \in SUBSET Products
  BY <1>1
<1> QED
  BY <1>3, <1>4, <1>5 DEF objs

LEMMA SomeElement ==
    ASSUME NEW S, NEW s \in Seq(S), s # <<>>
    PROVE  \E x \in ToSet(s) : x = s[1]
<1>1. 1 \in DOMAIN s
  OBVIOUS
<1> QED
  BY <1>1 DEF ToSet

(* What is kept of the answer for a product, or the whole range. *)
LEMMA BatchClaims ==
    ASSUME NEW want, NEW slice \in ValidRanges, NEW covering \in ValidRanges,
           slice.from <= covering.from, covering.to <= slice.to,
           NEW part \in SliceParts(want, slice),
           NEW filter, filter = KeptIn(RangeMerge(part.ranges), ValidRanges \ {covering})
    PROVE  /\ filter \in Seq(ValidRanges)
           /\ \A r \in ToSet(filter) : r.from .. r.to \subseteq Points(part.ranges)
           /\ filter = <<>> => covering.from .. covering.to \subseteq Points(part.ranges)
<1> DEFINE merged == RangeMerge(part.ranges)
           K == ValidRanges \ {covering}
<1>1. part.ranges \in Seq(ValidRanges) /\ part.ranges # <<>>
  BY PartOfSlice
<1>2. merged \in Seq(ValidRanges) /\ Points(merged) = Points(part.ranges)
  BY <1>1, MergeOfSeq
<1> HIDE DEF merged, K
<1>3. filter = KeptIn(merged, K)
  BY DEF merged, K
<1>4. /\ filter \in Seq(ValidRanges)
      /\ \A x : x \in ToSet(filter) <=> x \in ToSet(merged) /\ x \in K
  <2>1. /\ KeptIn(merged, K) \in Seq(ValidRanges)
        /\ \A x : x \in ToSet(KeptIn(merged, K)) <=> x \in ToSet(merged) /\ x \in K
    BY <1>2, KeptElements
  <2> QED
    BY <1>3, <2>1
<1>5. \A r \in ToSet(filter) : r.from .. r.to \subseteq Points(part.ranges)
  BY <1>2, <1>4 DEF Points
<1>6. ASSUME filter = <<>>
      PROVE  covering.from .. covering.to \subseteq Points(part.ranges)
  <2>1. ToSet(filter) = {}
    BY <1>6 DEF ToSet
  <2>2. PICK r \in ToSet(part.ranges) : TRUE
    BY <1>1, SomeElement
  <2>3. r.from \in Points(part.ranges)
    <3>1. r \in ValidRanges
      BY PartOfSlice
    <3>2. r.from \in r.from .. r.to
      BY <3>1, ValidRange
    <3> QED
      BY <3>2 DEF Points
  <2>4. PICK s \in ToSet(merged) : r.from \in s.from .. s.to
    BY <1>2, <2>3 DEF Points
  <2>5. s \in ValidRanges
    BY <1>2 DEF ToSet
  <2>6. s \notin K
    BY <1>4, <2>1
  <2>7. s = covering
    BY <2>5, <2>6 DEF K
  <2> QED
    BY <1>2, <2>4, <2>7 DEF Points
<1> QED
  BY <1>4, <1>5, <1>6

LEMMA PointsWithin ==
    ASSUME NEW want, NEW span \in Int, NEW slice \in ValidRanges, slice.to - slice.from < span,
           NEW part \in SliceParts(want, slice),
           NEW r \in ValidRanges, r.from .. r.to \subseteq Points(part.ranges)
    PROVE  r \in Within(want[part.obj], span)
<1>1. r.from \in Int /\ r.to \in Int /\ r.from <= r.to
  BY ValidRange
<1>2. slice.from \in Int /\ slice.to \in Int
  BY ValidRange
<1>3. r.from \in r.from .. r.to /\ r.to \in r.from .. r.to
  BY <1>1
<1>4. r.from \in slice.from .. slice.to /\ r.to \in slice.from .. slice.to
  BY <1>3, PartOfSlice
<1>5. r.to - r.from < span
  BY <1>1, <1>2, <1>4
<1>6. r.from .. r.to \subseteq want[part.obj]
  BY PartOfSlice
<1> QED
  BY <1>5, <1>6 DEF Within

LEMMA AllRangesOfChunk ==
    ASSUME NEW want, NEW slice \in ValidRanges, NEW n \in Nat,
           NEW chunk \in [1 .. n -> SliceParts(want, slice)]
    PROVE  /\ AllRanges(chunk) \in Seq(ValidRanges)
           /\ \A r : r \in ToSet(AllRanges(chunk))
                        <=> \E i \in 1 .. n : r \in ToSet(chunk[i].ranges)
           /\ n # 0 => AllRanges(chunk) # <<>>
<1> DEFINE seqs == [i \in 1 .. n |-> chunk[i].ranges]
<1>1. \A i \in 1 .. n : chunk[i] \in SliceParts(want, slice)
  OBVIOUS
<1>2. \A i \in 1 .. n : chunk[i].ranges \in Seq(ValidRanges) /\ chunk[i].ranges # <<>>
  BY <1>1, PartOfSlice
<1>3. AllRanges(chunk) = FlattenSeq(seqs)
  BY DEF AllRanges
<1>4. seqs \in [1 .. n -> Seq(ValidRanges)] /\ \A i \in 1 .. n : seqs[i] = chunk[i].ranges
  BY <1>2
<1> HIDE DEF seqs
<1>5. /\ FlattenSeq(seqs) \in Seq(ValidRanges)
      /\ \A x : x \in ToSet(FlattenSeq(seqs)) <=> \E i \in 1 .. n : x \in ToSet(seqs[i])
  BY <1>4, FlattenElements
<1>6. ASSUME n # 0 PROVE FlattenSeq(seqs) # <<>>
  <2>1. 1 \in 1 .. n
    BY <1>6
  <2>2. PICK x \in ToSet(chunk[1].ranges) : TRUE
    BY <1>2, <2>1, SomeElement
  <2>3. x \in ToSet(FlattenSeq(seqs))
    BY <1>4, <1>5, <2>1, <2>2
  <2> QED
    BY <2>3 DEF ToSet
<1> QED
  BY <1>3, <1>4, <1>5, <1>6

LEMMA KeptOthers ==
    ASSUME NEW seq \in Seq(ValidRanges), NEW other
    PROVE  KeptIn(seq, ValidRanges \ {other}) = Others(seq, other)
<1> DEFINE first == [i \in DOMAIN seq |->
                        IF seq[i] \in ValidRanges \ {other} THEN <<seq[i]>> ELSE <<>>]
           second == [i \in DOMAIN seq |-> IF seq[i] # other THEN <<seq[i]>> ELSE <<>>]
<1>1. KeptIn(seq, ValidRanges \ {other}) = FlattenSeq(first)
  BY DEF KeptIn
<1>2. Others(seq, other) = FlattenSeq(second)
  BY DEF Others, Keep
<1>3. \A i \in DOMAIN seq : seq[i] \in ValidRanges
  OBVIOUS
<1>4. first = second
  BY <1>3
<1> QED
  BY <1>1, <1>2, <1>4

(* A query for several products is within the limits, and wanted by each. *)
LEMMA BatchQueryIsQuery ==
    ASSUME Limits, NEW want, NEW span \in Int,
           NEW slice \in ValidRanges, slice.to - slice.from < span,
           NEW n \in 1 .. MaxAddresses, NEW chunk \in [1 .. n -> SliceParts(want, slice)]
    PROVE  BatchQuery(chunk) \in Queries(want, span)
<1> DEFINE covering == RangeCovering(AllRanges(chunk))
           objs == BatchObjs(chunk)
           filter == [o \in objs |-> BatchFilter(chunk, o)]
           q == BatchQuery(chunk)
           ranges == AllRanges(chunk)
           m == Len(ranges)
           partOf(o) == chunk[CHOOSE i \in DOMAIN chunk : chunk[i].obj = o]
<1>1. MaxAddresses \in Nat \ {0} /\ n \in Nat /\ n <= MaxAddresses /\ n # 0
  BY DEF Limits
<1>2. \A i \in 1 .. n : chunk[i] \in SliceParts(want, slice)
  OBVIOUS
<1>3. \A i \in 1 .. n : chunk[i].obj \in Products
  BY <1>2, PartOfSlice
<1>4. objs \in SUBSET Products /\ Cardinality(objs) <= n
  BY <1>1, <1>3, BatchObjsFew
<1>5. /\ ranges \in Seq(ValidRanges) /\ ranges # <<>>
      /\ \A r : r \in ToSet(ranges) <=> \E i \in 1 .. n : r \in ToSet(chunk[i].ranges)
  BY <1>1, AllRangesOfChunk
<1> HIDE DEF ranges
<1>6. m \in Nat \ {0} /\ ranges \in [1 .. m -> ValidRanges]
      /\ \A k \in 1 .. m : ranges[k] \in ToSet(ranges)
  BY <1>5 DEF ToSet
<1> HIDE DEF m
<1>7. /\ covering \in ValidRanges
      /\ \E k \in 1 .. m : covering.from = ranges[k].from
      /\ \E k \in 1 .. m : covering.to = ranges[k].to
  BY <1>6, CoveringCovers DEF ranges
<1> HIDE DEF covering, objs, q, filter
<1>8. PICK i \in 1 .. n : /\ covering.to <= slice.to
                          /\ covering.to \in want[chunk[i].obj]
  <2>1. PICK k \in 1 .. m : covering.to = ranges[k].to
    BY <1>7
  <2>2. PICK i \in 1 .. n : ranges[k] \in ToSet(chunk[i].ranges)
    BY <1>5, <1>6
  <2>3. chunk[i] \in SliceParts(want, slice)
    BY <1>2
  <2>4. ranges[k].to <= slice.to /\ ranges[k].to \in want[chunk[i].obj]
    BY <2>2, <2>3, PartOfSlice
  <2> QED
    BY <2>1, <2>4
<1>9. slice.from <= covering.from
  <2>1. PICK k \in 1 .. m : covering.from = ranges[k].from
    BY <1>7
  <2>2. PICK j \in 1 .. n : ranges[k] \in ToSet(chunk[j].ranges)
    BY <1>5, <1>6
  <2>3. chunk[j] \in SliceParts(want, slice)
    BY <1>2
  <2>4. slice.from <= ranges[k].from
    BY <2>2, <2>3, PartOfSlice
  <2> QED
    BY <2>1, <2>4
<1>10. \A o \in objs : partOf(o) \in SliceParts(want, slice) /\ partOf(o).obj = o
  <2> SUFFICES ASSUME NEW o \in objs
               PROVE  partOf(o) \in SliceParts(want, slice) /\ partOf(o).obj = o
    OBVIOUS
  <2>1. \E j \in 1 .. n : chunk[j].obj = o
    BY DEF objs, BatchObjs
  <2>2. DOMAIN chunk = 1 .. n
    OBVIOUS
  <2> QED
    BY <1>2, <2>1, <2>2
<1>11. \A o \in objs :
          filter[o] = KeptIn(RangeMerge(partOf(o).ranges), ValidRanges \ {covering})
  <2> SUFFICES ASSUME NEW o \in objs
               PROVE  filter[o] = KeptIn(RangeMerge(partOf(o).ranges), ValidRanges \ {covering})
    OBVIOUS
  <2> DEFINE merged == RangeMerge(partOf(o).ranges)
  <2>1. merged \in Seq(ValidRanges)
    <3>1. partOf(o).ranges \in Seq(ValidRanges)
      BY <1>10, PartOfSlice
    <3> QED
      BY <3>1, MergeOfSeq
  <2>2. filter[o] = Others(merged, covering)
    BY DEF filter, BatchFilter, covering
  <2> HIDE DEF merged
  <2>3. KeptIn(merged, ValidRanges \ {covering}) = Others(merged, covering)
    BY <2>1, KeptOthers
  <2> QED
    BY <2>2, <2>3 DEF merged
<1> HIDE DEF partOf
<1>12. ASSUME NEW o \in objs
       PROVE  /\ filter[o] \in Seq(ValidRanges)
              /\ \A r \in ToSet(filter[o]) : r \in Within(want[o], span)
              /\ filter[o] = <<>> => covering \in Within(want[o], span)
  <2> DEFINE part == partOf(o)
             f == filter[o]
  <2>1. part \in SliceParts(want, slice) /\ part.obj = o
    BY <1>10
  <2>2. f = KeptIn(RangeMerge(part.ranges), ValidRanges \ {covering})
    BY <1>11
  <2> HIDE DEF part, f
  <2>3. /\ f \in Seq(ValidRanges)
        /\ \A r \in ToSet(f) : r.from .. r.to \subseteq Points(part.ranges)
        /\ f = <<>> => covering.from .. covering.to \subseteq Points(part.ranges)
    BY <1>7, <1>8, <1>9, <2>1, <2>2, BatchClaims
  <2>4. \A r \in ToSet(f) : r \in ValidRanges
    BY <2>3 DEF ToSet
  <2>5. \A r \in ToSet(f) : r \in Within(want[o], span)
    BY <2>1, <2>3, <2>4, PointsWithin
  <2>6. f = <<>> => covering \in Within(want[o], span)
    BY <1>7, <2>1, <2>3, PointsWithin
  <2> QED
    BY <2>3, <2>5, <2>6 DEF f
<1>13. q.type = AddressMethod /\ q.objs = objs /\ q.range = covering /\ q.filter = filter
  BY DEF q, BatchQuery, objs, covering, filter
<1>14. q \in QueryRecords
  <2>1. AddressMethod \in Methods
    BY MethodsOfQueries
  <2>2. filter \in [objs -> Seq(ValidRanges)]
    BY <1>12 DEF filter
  <2>3. filter \in Filters
    BY <1>4, <2>2 DEF Filters
  <2>4. q = [type |-> AddressMethod, objs |-> objs, range |-> covering, filter |-> filter]
    BY DEF q, BatchQuery, objs, covering, filter
  <2> QED
    BY <1>4, <1>7, <2>1, <2>3, <2>4 DEF QueryRecords
<1>15. q.range.to - q.range.from < span
  <2>1. slice.from \in Int /\ slice.to \in Int /\ covering.from \in Int /\ covering.to \in Int
    BY <1>7, ValidRange
  <2> QED
    BY <1>8, <1>9, <1>13, <2>1
<1>16. \E o \in q.objs : q.range.to \in want[o]
  <2>1. chunk[i].obj \in objs
    BY DEF objs, BatchObjs
  <2> QED
    BY <1>8, <1>13, <2>1
<1>17. Cardinality(q.objs) <= MaxAddresses
  <2>1. Cardinality(objs) \in Nat
    <3>1. IsFiniteSet(1 .. n)
      BY FS_Interval
    <3>2. IsFiniteSet(objs)
      BY <1>1, <1>3, BatchObjsFew DEF objs
    <3> QED
      BY <3>2, FS_CardinalityType
  <2> QED
    BY <1>1, <1>4, <1>13, <2>1
<1>18. \A a \in ObjsAndRanges(q) : a.obj \in Products /\ a.range \in Within(want[a.obj], span)
  <2> SUFFICES ASSUME NEW a \in ObjsAndRanges(q)
               PROVE  a.obj \in Products /\ a.range \in Within(want[a.obj], span)
    OBVIOUS
  <2>1. PICK o \in objs :
           a \in (IF filter[o] = <<>> THEN {[obj |-> o, range |-> covering]}
                  ELSE {[obj |-> o, range |-> r] : r \in ToSet(filter[o])})
    BY <1>13 DEF ObjsAndRanges
  <2>2. o \in Products
    BY <1>4
  <2>3. CASE filter[o] = <<>>
    <3>1. a.obj = o /\ a.range = covering
      BY <2>1, <2>3
    <3> QED
      BY <1>12, <2>2, <2>3, <3>1
  <2>4. CASE filter[o] # <<>>
    <3>1. PICK r \in ToSet(filter[o]) : a = [obj |-> o, range |-> r]
      BY <2>1, <2>4
    <3>2. a.obj = o /\ a.range = r
      BY <3>1
    <3> QED
      BY <1>12, <2>2, <3>2
  <2> QED
    BY <2>3, <2>4
<1>19. q \in Queries(want, span)
  BY <1>14, <1>15, <1>16, <1>17, <1>18 DEF Queries
<1> QED
  BY <1>19 DEF q

LEMMA AddressQueriesOfChunks ==
    ASSUME NEW parts, NEW luck
    PROVE  LET chunks == Chunk(PartsSorted(parts, luck), Options.maxAddresses)
           IN  AddressBatchQueries(parts, luck, Options)
                  = [c \in DOMAIN chunks |-> BatchQuery(chunks[c])]
  BY ZenonT(20) DEF AddressBatchQueries, PartsSorted, BatchQuery, BatchObjs,
                    BatchFilter, AddressMethod, Others

LEMMA AddressQueriesAreQueries ==
    ASSUME Limits, NEW want, NEW span \in Int,
           NEW slice \in ValidRanges, slice.to - slice.from < span,
           NEW luck \in [Products -> Int], NEW parts \in Seq(SliceParts(want, slice))
    PROVE  AddressBatchQueries(parts, luck, Options) \in Seq(Queries(want, span))
<1> DEFINE n == Len(parts)
           sorted == PartsSorted(parts, luck)
           chunks == Chunk(sorted, MaxAddresses)
           S == SliceParts(want, slice)
           Q == Queries(want, span)
<1>1. n \in Nat /\ parts \in [1 .. n -> S]
  OBVIOUS
<1>2. \A part \in S : part \in [obj : Products, ranges : Seq(ValidRanges)]
  BY DEF SliceParts, Parts
<1> HIDE DEF n, S
<1>3. parts \in [1 .. n -> [obj : Products, ranges : Seq(ValidRanges)]]
  BY <1>1, <1>2
<1>4. Reorders(sorted, parts, n)
  BY <1>1, <1>3, PartsSortedReorders
<1> HIDE DEF sorted
<1>a. PICK perm \in [1 .. n -> 1 .. n] : sorted = [k \in 1 .. n |-> parts[perm[k]]]
  BY <1>4 DEF Reorders
<1>5. sorted \in Seq(S)
  BY <1>1, <1>a
<1>6. MaxAddresses \in Nat \ {0} /\ Options.maxAddresses = MaxAddresses
  BY DEF Limits, Options
<1>b. PICK m \in Nat : Chunked(chunks, sorted, S, MaxAddresses, m)
  BY <1>5, <1>6, ChunkParts
<1>7. /\ DOMAIN chunks = 1 .. m
      /\ \A c \in 1 .. m : chunks[c] \in Seq(S) /\ Len(chunks[c]) \in 1 .. MaxAddresses
  BY <1>b DEF Chunked
<1>8. AddressBatchQueries(parts, luck, Options) = [c \in DOMAIN chunks |-> BatchQuery(chunks[c])]
  <2>1. AddressBatchQueries(parts, luck, Options)
           = [c \in DOMAIN Chunk(sorted, Options.maxAddresses) |->
                 BatchQuery(Chunk(sorted, Options.maxAddresses)[c])]
    BY AddressQueriesOfChunks DEF sorted
  <2> QED
    BY <1>6, <2>1
<1> HIDE DEF chunks
<1>9. ASSUME NEW c \in 1 .. m
      PROVE  BatchQuery(chunks[c]) \in Q
  <2> DEFINE k == Len(chunks[c])
  <2>1. k \in 1 .. MaxAddresses /\ chunks[c] \in [1 .. k -> S]
    BY <1>6, <1>7
  <2> HIDE DEF k
  <2> QED
    BY <2>1, BatchQueryIsQuery DEF S
<1> HIDE DEF Q
<1>10. [c \in 1 .. m |-> BatchQuery(chunks[c])] \in Seq(Q)
  BY <1>9
<1> QED
  BY <1>7, <1>8, <1>10 DEF Q

LEMMA MoreQueries ==
    ASSUME NEW want, NEW s \in Int, NEW t \in Int, s <= t
    PROVE  Queries(want, s) \subseteq Queries(want, t)
<1>1. \A S : Within(S, s) \subseteq Within(S, t)
  <2> SUFFICES ASSUME NEW S, NEW r \in Within(S, s) PROVE r \in Within(S, t)
    OBVIOUS
  <2>1. r \in ValidRanges /\ r.from .. r.to \subseteq S /\ r.to - r.from < s
    BY DEF Within
  <2>2. r.to - r.from \in Int
    BY <2>1, ValidRange
  <2>3. r.to - r.from < t
    BY <2>1, <2>2
  <2> QED
    BY <2>1, <2>3 DEF Within
<1> SUFFICES ASSUME NEW q \in Queries(want, s) PROVE q \in Queries(want, t)
  OBVIOUS
<1>2. /\ q \in QueryRecords
      /\ Cardinality(q.objs) <= MaxAddresses
      /\ q.range.to - q.range.from < s
      /\ \E o \in q.objs : q.range.to \in want[o]
      /\ \A a \in ObjsAndRanges(q) : a.obj \in Products /\ a.range \in Within(want[a.obj], s)
  BY DEF Queries
<1>3. q.range \in ValidRanges
  BY <1>2 DEF QueryRecords
<1>4. q.range.to - q.range.from \in Int
  BY <1>3, ValidRange
<1>5. q.range.to - q.range.from < t
  BY <1>2, <1>4
<1>6. \A a \in ObjsAndRanges(q) : a.obj \in Products /\ a.range \in Within(want[a.obj], t)
  BY <1>1, <1>2
<1> QED
  BY <1>2, <1>5, <1>6 DEF Queries

(* Whichever method is chosen for the products of a slice. *)
LEMMA BestMethodQueries ==
    ASSUME Limits, NEW want, NEW span \in Int, MaxSpan <= span,
           NEW slice \in ValidRanges, slice.to - slice.from < span,
           NEW luck \in [Products -> Int], NEW parts \in Seq(SliceParts(want, slice))
    PROVE  BestMethodForRanges(parts, luck, Options) \in Seq(Queries(want, span))
<1> DEFINE json == JsonRpcBatchQueries(parts, Options)
           address == AddressBatchQueries(parts, luck, Options)
<1>1. BestMethodForRanges(parts, luck, Options) = json
      \/ BestMethodForRanges(parts, luck, Options) = address
  BY ZenonT(20) DEF BestMethodForRanges
<1>2. address \in Seq(Queries(want, span))
  BY AddressQueriesAreQueries
<1>3. MaxSpan \in Int
  BY DEF Limits
<1>4. SliceParts(want, slice) \subseteq Parts(want)
  BY DEF SliceParts
<1>5. parts \in Seq(Parts(want))
  BY <1>4, SeqOfSmaller
<1> HIDE DEF json, address
<1>6. json \in Seq(Queries(want, MaxSpan))
  BY <1>5, JsonQueriesAreQueries DEF json
<1>7. Queries(want, MaxSpan) \subseteq Queries(want, span)
  BY <1>3, MoreQueries
<1>8. json \in Seq(Queries(want, span))
  BY <1>6, <1>7, SeqOfSmaller
<1> QED
  BY <1>1, <1>2, <1>8

-----------------------------------------------------------------------------
(***************************************************************************)
(* The steps of a run, and the slices they are cut into.                   *)
(***************************************************************************)
LEMMA ReverseRanges ==
    ASSUME NEW s \in Seq(ValidRanges)
    PROVE  /\ Reverse(s) \in Seq(ValidRanges)
           /\ Points(Reverse(s)) = Points(s)
           /\ Apart(s) => Apart(Reverse(s))
<1> DEFINE n == Len(s)
           t == Reverse(s)
<1>1. n \in Nat /\ DOMAIN s = 1 .. n /\ \A i \in 1 .. n : s[i] \in ValidRanges
  OBVIOUS
<1>2. t = [i \in 1 .. n |-> s[(n - i) + 1]]
  BY DEF Reverse
<1> HIDE DEF t, n
<1>3. \A i \in 1 .. n : (n - i) + 1 \in 1 .. n /\ (n - ((n - i) + 1)) + 1 = i
  BY <1>1
<1>4. t \in Seq(ValidRanges) /\ DOMAIN t = 1 .. n
      /\ \A i \in 1 .. n : t[i] = s[(n - i) + 1]
  BY <1>1, <1>2, <1>3
<1>5. \A i \in 1 .. n : s[i] = t[(n - i) + 1]
  BY <1>3, <1>4
<1>6. Points(t) = Points(s)
  <2>1. \A x : x \in Points(t) => x \in Points(s)
    BY <1>1, <1>3, <1>4, PointsOf
  <2>2. \A x : x \in Points(s) => x \in Points(t)
    BY <1>1, <1>3, <1>4, <1>5, PointsOf
  <2> QED
    BY <2>1, <2>2
<1>7. ASSUME Apart(s) PROVE Apart(t)
  <2> SUFFICES ASSUME NEW i \in 1 .. n, NEW j \in 1 .. n, i # j, NEW x,
                      x \in t[i].from .. t[i].to, x \in t[j].from .. t[j].to
               PROVE  FALSE
    BY <1>4 DEF Apart
  <2>1. (n - i) + 1 \in 1 .. n /\ (n - j) + 1 \in 1 .. n /\ (n - i) + 1 # (n - j) + 1
    BY <1>1, <1>3
  <2>2. t[i] = s[(n - i) + 1] /\ t[j] = s[(n - j) + 1]
    BY <1>4
  <2> QED
    BY <1>1, <1>7, <2>1, <2>2 DEF Apart
<1> QED
  BY <1>4, <1>6, <1>7 DEF t

LEMMA SortedExclude ==
    ASSUME NEW ranges \in Seq(ValidRanges), NEW exclude \in Seq(ValidRanges)
    PROVE  /\ RangeSortedArrayExclude(ranges, exclude) \in Seq(ValidRanges)
           /\ Points(RangeSortedArrayExclude(ranges, exclude)) = Points(ranges) \ Points(exclude)
           /\ Apart(RangeSortedArrayExclude(ranges, exclude))
<1> DEFINE a == RangeMerge(ranges)
           b == RangeMerge(exclude)
<1>1. /\ a \in Seq(ValidRanges) /\ IsMerged(a) /\ Points(a) = Points(ranges)
      /\ b \in Seq(ValidRanges) /\ Points(b) = Points(exclude)
  BY MergeOfSeq
<1>2. RangeSortedArrayExclude(ranges, exclude) = RangeArrayExclude(a, b)
  BY DEF RangeSortedArrayExclude
<1> HIDE DEF a, b
<1>3. Apart(a)
  BY <1>1, MergedIsApart
<1> QED
  BY <1>1, <1>2, <1>3, RangeArrayExcludeExcludes

(* States of products: "fresh" and "retry" are what is to query of each. *)
StatesOf(fresh, retry) ==
    {s \in [obj : Products, full : ValidRanges,
            covered : Seq(ValidRanges), toRetry : Seq(ValidRanges)] :
        /\ Apart(s.toRetry)
        /\ (s.full.from .. s.full.to) \ (Points(s.covered) \cup Points(s.toRetry))
              \subseteq fresh[s.obj]
        /\ Points(s.toRetry) \subseteq retry[s.obj]}

FreshPart(s) ==
    [obj |-> s.obj,
     ranges |-> Reverse(RangeSortedArrayExclude(<<s.full>>, s.covered \o s.toRetry))]

RetryPart(s) == [obj |-> s.obj, ranges |-> Reverse(s.toRetry)]

LEMMA StepsOf ==
    ASSUME NEW states
    PROVE  Steps(states, Options) =
              <<[i \in DOMAIN states |-> FreshPart(states[i])],
                [i \in DOMAIN states |-> RetryPart(states[i])]>>
  BY DEF Steps, Options, FreshPart, RetryPart

LEMMA StatePartsAreWanted ==
    ASSUME NEW fresh, NEW retry, NEW s \in StatesOf(fresh, retry)
    PROVE  FreshPart(s) \in Parts(fresh) /\ RetryPart(s) \in Parts(retry)
<1>1. /\ s.obj \in Products /\ s.full \in ValidRanges
      /\ s.covered \in Seq(ValidRanges) /\ s.toRetry \in Seq(ValidRanges)
      /\ Apart(s.toRetry)
      /\ (s.full.from .. s.full.to) \ (Points(s.covered) \cup Points(s.toRetry))
            \subseteq fresh[s.obj]
      /\ Points(s.toRetry) \subseteq retry[s.obj]
  BY DEF StatesOf
<1>2. RetryPart(s) \in Parts(retry)
  <2> DEFINE ranges == Reverse(s.toRetry)
             part == [obj |-> s.obj, ranges |-> ranges]
  <2>1. ranges \in Seq(ValidRanges) /\ Points(ranges) = Points(s.toRetry) /\ Apart(ranges)
    BY <1>1, ReverseRanges
  <2>2. part.obj = s.obj /\ part.ranges = ranges /\ RetryPart(s) = part
    BY DEF RetryPart
  <2> HIDE DEF ranges
  <2>3. part \in [obj : Products, ranges : Seq(ValidRanges)]
    BY <1>1, <2>1
  <2> HIDE DEF part
  <2> QED
    BY <1>1, <2>1, <2>2, <2>3 DEF Parts
<1>3. FreshPart(s) \in Parts(fresh)
  <2> DEFINE left == RangeSortedArrayExclude(<<s.full>>, s.covered \o s.toRetry)
             ranges == Reverse(left)
             part == [obj |-> s.obj, ranges |-> ranges]
  <2>1. /\ s.covered \o s.toRetry \in Seq(ValidRanges)
        /\ Points(s.covered \o s.toRetry) = Points(s.covered) \cup Points(s.toRetry)
    BY <1>1, ConcatPoints
  <2>2. <<s.full>> \in Seq(ValidRanges)
    BY <1>1
  <2>3. \A x : x \in Points(<<s.full>>) <=> x \in s.full.from .. s.full.to
    BY PointsOfOne
  <2>4. /\ left \in Seq(ValidRanges) /\ Apart(left)
        /\ Points(left) = Points(<<s.full>>) \ Points(s.covered \o s.toRetry)
    BY <2>1, <2>2, SortedExclude
  <2> HIDE DEF left
  <2>5. ranges \in Seq(ValidRanges) /\ Points(ranges) = Points(left) /\ Apart(ranges)
    BY <2>4, ReverseRanges
  <2>6. Points(ranges) \subseteq fresh[s.obj]
    BY <1>1, <2>1, <2>3, <2>4, <2>5
  <2>7. part.obj = s.obj /\ part.ranges = ranges /\ FreshPart(s) = part
    BY DEF FreshPart, left
  <2> HIDE DEF ranges
  <2>8. part \in [obj : Products, ranges : Seq(ValidRanges)]
    BY <1>1, <2>5
  <2> HIDE DEF part
  <2> QED
    BY <2>5, <2>6, <2>7, <2>8 DEF Parts
<1> QED
  BY <1>2, <1>3

(* What a slice keeps of a list of ranges. *)
LEMMA IntersectIntersects ==
    ASSUME NEW ranges \in Seq(ValidRanges), NEW slice \in ValidRanges
    PROVE  /\ RangeIntersect(ranges, slice) \in Seq(ValidRanges)
           /\ \A x : x \in Points(RangeIntersect(ranges, slice))
                        => x \in Points(ranges) /\ x \in slice.from .. slice.to
           /\ Apart(ranges) => Apart(RangeIntersect(ranges, slice))
<1> DEFINE n == Len(ranges)
           one(i) == IF RangeOverlap(ranges[i], slice) THEN <<ranges[i]>> ELSE <<>>
           seqs == [i \in 1 .. n |-> one(i)]
           common == FlattenSeq(seqs)
           m == Len(common)
           cut(r) == Span(Max({r.from, slice.from}), Min({r.to, slice.to}))
           result == RangeIntersect(ranges, slice)
<1>1. n \in Nat /\ DOMAIN ranges = 1 .. n /\ \A i \in 1 .. n : ranges[i] \in ValidRanges
  OBVIOUS
<1>2. result = [i \in DOMAIN common |-> cut(common[i])]
  BY <1>1 DEF RangeIntersect, Keep
<1> HIDE DEF n
<1>3. \A i \in 1 .. n : one(i) \in Seq(ValidRanges) /\ Apart(one(i))
  <2> SUFFICES ASSUME NEW i \in 1 .. n PROVE one(i) \in Seq(ValidRanges) /\ Apart(one(i))
    OBVIOUS
  <2>1. CASE RangeOverlap(ranges[i], slice)
    <3>1. one(i) = <<ranges[i]>>
      BY <2>1
    <3>2. <<ranges[i]>> \in Seq(ValidRanges)
      BY <1>1
    <3>3. Apart(<<ranges[i]>>)
      BY DEF Apart
    <3> QED
      BY <3>1, <3>2, <3>3
  <2>2. CASE ~RangeOverlap(ranges[i], slice)
    <3>1. one(i) = <<>>
      BY <2>2
    <3>2. <<>> \in Seq(ValidRanges) /\ Apart(<<>>)
      BY DEF Apart
    <3> QED
      BY <3>1, <3>2
  <2> QED
    BY <2>1, <2>2
<1>4. \A i \in 1 .. n : \A x : x \in Points(one(i)) =>
         x \in ranges[i].from .. ranges[i].to /\ RangeOverlap(ranges[i], slice)
  BY PointsOfOne, PointsOfNone
<1>5. \A i \in 1 .. n : \A r \in ToSet(one(i)) : r \in ValidRanges /\ RangeOverlap(r, slice)
  BY <1>1 DEF ToSet
<1> HIDE DEF one
<1>6. seqs \in [1 .. n -> Seq(ValidRanges)] /\ \A i \in 1 .. n : seqs[i] = one(i)
  BY <1>3
<1> HIDE DEF seqs
<1>7. /\ common \in Seq(ValidRanges)
      /\ \A x : x \in Points(common) <=> \E i \in 1 .. n : x \in Points(seqs[i])
      /\ (/\ \A i \in 1 .. n : Apart(seqs[i])
          /\ \A i, j \in 1 .. n :
                i # j => \A x : ~ (x \in Points(seqs[i]) /\ x \in Points(seqs[j])))
         => Apart(common)
  BY <1>1, <1>6, FlattenPoints
<1>8. \A r \in ToSet(common) : r \in ValidRanges /\ RangeOverlap(r, slice)
  <2>1. \A x : x \in ToSet(common) <=> \E i \in 1 .. n : x \in ToSet(seqs[i])
    BY <1>1, <1>6, FlattenElements
  <2> QED
    BY <1>5, <1>6, <2>1
<1>9. \A x : x \in Points(common) => x \in Points(ranges)
  BY <1>1, <1>4, <1>6, <1>7, PointsOf
<1>10. ASSUME Apart(ranges) PROVE Apart(common)
  <2>1. \A i \in 1 .. n : Apart(seqs[i])
    BY <1>3, <1>6
  <2>2. ASSUME NEW i \in 1 .. n, NEW j \in 1 .. n, i # j, NEW x,
               x \in Points(seqs[i]), x \in Points(seqs[j])
        PROVE  FALSE
    BY <1>1, <1>4, <1>6, <1>10, <2>2 DEF Apart
  <2> QED
    BY <1>7, <2>1, <2>2
<1> HIDE DEF common
<1>11. m \in Nat /\ DOMAIN common = 1 .. m
       /\ \A i \in 1 .. m : common[i] \in ValidRanges /\ RangeOverlap(common[i], slice)
  BY <1>7, <1>8 DEF ToSet
<1> HIDE DEF m
<1>12. ASSUME NEW i \in 1 .. m
       PROVE  /\ cut(common[i]) \in ValidRanges
              /\ \A x : x \in cut(common[i]).from .. cut(common[i]).to =>
                          /\ x \in common[i].from .. common[i].to
                          /\ x \in slice.from .. slice.to
  <2> DEFINE a == common[i].from
             b == common[i].to
             c == slice.from
             d == slice.to
  <2>1. a \in Int /\ b \in Int /\ a <= b /\ c \in Int /\ d \in Int /\ c <= d
    BY <1>11, ValidRange
  <2>2. a <= d /\ c <= b
    BY <1>11 DEF RangeOverlap
  <2> HIDE DEF a, b, c, d
  <2>3. Max({a, c}) = (IF a >= c THEN a ELSE c) /\ Min({b, d}) = (IF b <= d THEN b ELSE d)
    BY <2>1, MaxOfTwo, MinOfTwo
  <2> DEFINE lo == Max({a, c})
             hi == Min({b, d})
  <2>4. cut(common[i]) = Span(lo, hi)
    BY DEF a, b, c, d
  <2> HIDE DEF lo, hi
  <2>5. /\ lo \in Int /\ hi \in Int /\ lo <= hi
        /\ lo >= a /\ lo >= c /\ hi <= b /\ hi <= d
    BY <2>1, <2>2, <2>3 DEF lo, hi
  <2>6. cut(common[i]).from = lo /\ cut(common[i]).to = hi /\ cut(common[i]) \in ValidRanges
    BY <2>4, <2>5, SpanIsValid
  <2>7. \A x : x \in lo .. hi => x \in a .. b /\ x \in c .. d
    BY <2>1, <2>5
  <2> QED
    BY <2>6, <2>7 DEF a, b, c, d
<1> HIDE DEF cut, result
<1>13. result \in Seq(ValidRanges) /\ DOMAIN result = 1 .. m
       /\ \A i \in 1 .. m : result[i] = cut(common[i])
  BY <1>2, <1>11, <1>12
<1>14. \A x : x \in Points(result) => x \in Points(common) /\ x \in slice.from .. slice.to
  BY <1>11, <1>12, <1>13, PointsOf
<1>15. ASSUME Apart(common) PROVE Apart(result)
  BY <1>11, <1>12, <1>13, <1>15 DEF Apart
<1> QED
  BY <1>9, <1>10, <1>13, <1>14, <1>15 DEF result

CutPart(part, slice) == [part EXCEPT !.ranges = RangeIntersect(@, slice)]

LEMMA CutPartIsPart ==
    ASSUME NEW want, NEW slice \in ValidRanges, NEW part \in Parts(want)
    PROVE  /\ CutPart(part, slice) \in Parts(want)
           /\ CutPart(part, slice).obj = part.obj
           /\ Points(CutPart(part, slice).ranges) \subseteq Points(part.ranges)
           /\ Points(CutPart(part, slice).ranges) \subseteq slice.from .. slice.to
<1> DEFINE ranges == RangeIntersect(part.ranges, slice)
           new == CutPart(part, slice)
<1>1. /\ part \in [obj : Products, ranges : Seq(ValidRanges)]
      /\ Points(part.ranges) \subseteq want[part.obj] /\ Apart(part.ranges)
  BY DEF Parts
<1>2. /\ ranges \in Seq(ValidRanges) /\ Apart(ranges)
      /\ \A x : x \in Points(ranges) => x \in Points(part.ranges) /\ x \in slice.from .. slice.to
  BY <1>1, IntersectIntersects
<1>3. new = [part EXCEPT !.ranges = ranges]
  BY DEF CutPart
<1> HIDE DEF ranges, new
<1>4. /\ new \in [obj : Products, ranges : Seq(ValidRanges)]
      /\ new.obj = part.obj /\ new.ranges = ranges
  BY <1>1, <1>2, <1>3
<1>5. new \in Parts(want)
  BY <1>1, <1>2, <1>4 DEF Parts
<1> QED
  BY <1>2, <1>4, <1>5 DEF new

NonemptyParts(want) == {part \in Parts(want) : part.ranges # <<>>}

CutParts(parts, slice) == [i \in DOMAIN parts |-> CutPart(parts[i], slice)]

LEMMA RestrictKeeps ==
    ASSUME NEW want, NEW slice \in ValidRanges, NEW parts \in Seq(Parts(want))
    PROVE  RestrictToSlice(parts, slice) = KeptIn(CutParts(parts, slice), NonemptyParts(want))
<1> DEFINE n == Len(parts)
           cut == CutParts(parts, slice)
           first == [i \in 1 .. n |-> IF cut[i] \in NonemptyParts(want) THEN <<cut[i]>> ELSE <<>>]
           second == [i \in 1 .. n |-> IF cut[i].ranges # <<>> THEN <<cut[i]>> ELSE <<>>]
<1>1. n \in Nat /\ DOMAIN parts = 1 .. n /\ \A i \in 1 .. n : parts[i] \in Parts(want)
  OBVIOUS
<1>2. DOMAIN cut = 1 .. n /\ \A i \in 1 .. n : cut[i] = CutPart(parts[i], slice)
  BY <1>1 DEF CutParts
<1>3. \A i \in 1 .. n : cut[i] \in Parts(want)
  BY <1>1, <1>2, CutPartIsPart
<1>4. RestrictToSlice(parts, slice) = Keep(cut, LAMBDA part : part.ranges # <<>>)
  BY DEF RestrictToSlice, CutParts, CutPart
<1> HIDE DEF n, cut
<1>5. first = second
  BY <1>3 DEF NonemptyParts
<1>6. Keep(cut, LAMBDA part : part.ranges # <<>>) = FlattenSeq(second)
  BY <1>2 DEF Keep
<1>7. KeptIn(cut, NonemptyParts(want)) = FlattenSeq(first)
  BY <1>2 DEF KeptIn
<1>8. RestrictToSlice(parts, slice) = FlattenSeq(second)
  BY <1>2, <1>4 DEF Keep
<1> QED
  BY <1>5, <1>7, <1>8 DEF cut

LEMMA SeqOfElements ==
    ASSUME NEW S, NEW T, NEW s \in Seq(S), \A x \in ToSet(s) : x \in T
    PROVE  s \in Seq(T)
<1>1. \A i \in 1 .. Len(s) : s[i] \in ToSet(s)
  BY DEF ToSet
<1>2. \A i \in 1 .. Len(s) : s[i] \in T
  BY <1>1
<1> QED
  BY <1>2

LEMMA RestrictToSliceCuts ==
    ASSUME NEW want, NEW slice \in ValidRanges, NEW parts \in Seq(Parts(want))
    PROVE  RestrictToSlice(parts, slice) \in Seq(SliceParts(want, slice))
<1> DEFINE S == {part \in Parts(want) : Points(part.ranges) \subseteq slice.from .. slice.to}
           K == NonemptyParts(want)
           cut == CutParts(parts, slice)
           n == Len(parts)
           kept == KeptIn(cut, K)
<1>1. n \in Nat /\ DOMAIN parts = 1 .. n /\ \A i \in 1 .. n : parts[i] \in Parts(want)
  OBVIOUS
<1>2. cut = [i \in 1 .. n |-> CutPart(parts[i], slice)]
  BY <1>1 DEF CutParts
<1>3. \A i \in 1 .. n : CutPart(parts[i], slice) \in S
  BY <1>1, CutPartIsPart
<1> HIDE DEF n, S, cut, K
<1>4. cut \in Seq(S)
  BY <1>1, <1>2, <1>3
<1>5. kept \in Seq(S) /\ \A x : x \in ToSet(kept) <=> x \in ToSet(cut) /\ x \in K
  BY <1>4, KeptElements
<1>6. RestrictToSlice(parts, slice) = kept
  BY RestrictKeeps DEF cut, K
<1> HIDE DEF kept
<1>7. \A x \in ToSet(kept) : x \in SliceParts(want, slice)
  <2> SUFFICES ASSUME NEW x \in ToSet(kept) PROVE x \in SliceParts(want, slice)
    OBVIOUS
  <2>1. x \in S
    BY <1>5 DEF ToSet
  <2>2. x \in K
    BY <1>5
  <2> QED
    BY <2>1, <2>2 DEF S, K, NonemptyParts, SliceParts
<1>8. kept \in Seq(SliceParts(want, slice))
  BY <1>5, <1>7, SeqOfElements
<1> QED
  BY <1>6, <1>8

(* The slices of an index. *)
ShortRanges(span) == {r \in ValidRanges : r.to - r.from < span}

SliceLists(want, span) == UNION {Seq(SliceParts(want, slice)) : slice \in ShortRanges(span)}

Nonempty(lists) == Keep(lists, LAMBDA list : list # <<>>)

SlicesOf(parts, index) ==
    LET restricted == [i \in DOMAIN index |-> RestrictToSlice(parts, index[i])]
        slices == Nonempty(Reverse(restricted))
    IN  SubSeq(slices, 1, Min({Len(slices), Options.maxQueries}))

QueriesOf(parts, index, luck) ==
    LET slices == SlicesOf(parts, index)
    IN  FlattenSeq([i \in DOMAIN slices |-> BestMethodForRanges(slices[i], luck, Options)])

LEMMA OptimizerQueries ==
    ASSUME NEW states, NEW luck, NEW indices
    PROVE  OptimizeQueries(states, luck, Options, indices) =
              FlattenSeq([s \in DOMAIN Steps(states, Options) |->
                             QueriesOf(Steps(states, Options)[s], indices[s], luck)])
  BY DEF OptimizeQueries, QueriesOf, SlicesOf, Nonempty

LEMMA RestrictedLists ==
    ASSUME NEW want, NEW span \in Int, NEW parts \in Seq(Parts(want)),
           NEW index \in Seq(ShortRanges(span))
    PROVE  [i \in DOMAIN index |-> RestrictToSlice(parts, index[i])]
              \in Seq(SliceLists(want, span))
<1> DEFINE n == Len(index)
           L == SliceLists(want, span)
           restricted == [i \in 1 .. n |-> RestrictToSlice(parts, index[i])]
<1>1. n \in Nat /\ DOMAIN index = 1 .. n /\ \A i \in 1 .. n : index[i] \in ShortRanges(span)
  OBVIOUS
<1> HIDE DEF n
<1>2. \A i \in 1 .. n : RestrictToSlice(parts, index[i]) \in L
  <2> SUFFICES ASSUME NEW i \in 1 .. n PROVE RestrictToSlice(parts, index[i]) \in L
    OBVIOUS
  <2>1. index[i] \in ShortRanges(span)
    BY <1>1
  <2>2. index[i] \in ValidRanges
    BY <2>1 DEF ShortRanges
  <2>3. RestrictToSlice(parts, index[i]) \in Seq(SliceParts(want, index[i]))
    BY <2>2, RestrictToSliceCuts
  <2> QED
    BY <2>1, <2>3 DEF SliceLists
<1> HIDE DEF L
<1>3. restricted \in Seq(L)
  BY <1>1, <1>2
<1> QED
  BY <1>1, <1>3 DEF L

LEMMA ReverseIsSeq ==
    ASSUME NEW S, NEW s \in Seq(S)
    PROVE  Reverse(s) \in Seq(S)
<1>1. Len(s) \in Nat /\ Reverse(s) = [i \in 1 .. Len(s) |-> s[(Len(s) - i) + 1]]
  BY DEF Reverse
<1>2. \A i \in 1 .. Len(s) : s[(Len(s) - i) + 1] \in S
  OBVIOUS
<1> QED
  BY <1>1, <1>2

LEMMA SubSeqIsSeq ==
    ASSUME NEW S, NEW s \in Seq(S), NEW m \in Nat, m <= Len(s)
    PROVE  SubSeq(s, 1, m) \in Seq(S)
  OBVIOUS

(* A list without its empty elements. *)
LEMMA NonemptyIsSeq ==
    ASSUME NEW S, NEW s \in Seq(S)
    PROVE  Nonempty(s) \in Seq(S)
<1> DEFINE K == S \ {<<>>}
           n == Len(s)
           first == [i \in 1 .. n |-> IF s[i] \in K THEN <<s[i]>> ELSE <<>>]
           second == [i \in 1 .. n |-> IF s[i] # <<>> THEN <<s[i]>> ELSE <<>>]
<1>1. n \in Nat /\ DOMAIN s = 1 .. n /\ \A i \in 1 .. n : s[i] \in S
  OBVIOUS
<1> HIDE DEF n
<1>2. first = second
  BY <1>1
<1>3. KeptIn(s, K) = FlattenSeq(first)
  BY <1>1 DEF KeptIn
<1>4. Nonempty(s) = FlattenSeq(second)
  BY <1>1 DEF Nonempty, Keep
<1> HIDE DEF first, second, K
<1>5. KeptIn(s, K) \in Seq(S)
  BY KeptElements
<1> QED
  BY <1>2, <1>3, <1>4, <1>5

LEMMA SlicesAreLists ==
    ASSUME Limits, NEW want, NEW span \in Int, NEW parts \in Seq(Parts(want)),
           NEW index \in Seq(ShortRanges(span))
    PROVE  SlicesOf(parts, index) \in Seq(SliceLists(want, span))
<1> DEFINE L == SliceLists(want, span)
           restricted == [i \in DOMAIN index |-> RestrictToSlice(parts, index[i])]
           slices == Nonempty(Reverse(restricted))
           m == Min({Len(slices), MaxQueries})
<1>1. restricted \in Seq(L)
  BY RestrictedLists
<1>2. SlicesOf(parts, index) = SubSeq(slices, 1, m)
  BY DEF SlicesOf, Options
<1> HIDE DEF L, restricted
<1>3. slices \in Seq(L)
  BY <1>1, ReverseIsSeq, NonemptyIsSeq
<1> HIDE DEF slices
<1>4. MaxQueries \in Nat /\ Len(slices) \in Nat
  BY <1>3 DEF Limits
<1>5. m = IF Len(slices) <= MaxQueries THEN Len(slices) ELSE MaxQueries
  BY <1>4, MinOfTwo
<1>6. m \in Nat /\ m <= Len(slices)
  BY <1>4, <1>5
<1> HIDE DEF m
<1> QED
  BY <1>2, <1>3, <1>6, SubSeqIsSeq DEF L

LEMMA QueriesOfStep ==
    ASSUME Limits, NEW want, NEW span \in Int, MaxSpan <= span,
           NEW luck \in [Products -> Int], NEW parts \in Seq(Parts(want)),
           NEW index \in Seq(ShortRanges(span))
    PROVE  QueriesOf(parts, index, luck) \in Seq(Queries(want, span))
<1> DEFINE slices == SlicesOf(parts, index)
           n == Len(slices)
           Q == Queries(want, span)
           seqs == [i \in 1 .. n |-> BestMethodForRanges(slices[i], luck, Options)]
<1>1. slices \in Seq(SliceLists(want, span))
  BY SlicesAreLists
<1> HIDE DEF slices, Q
<1>2. n \in Nat /\ DOMAIN slices = 1 .. n /\ \A i \in 1 .. n : slices[i] \in SliceLists(want, span)
  BY <1>1
<1>3. QueriesOf(parts, index, luck) = FlattenSeq(seqs)
  BY <1>2 DEF QueriesOf, slices
<1> HIDE DEF n
<1>4. ASSUME NEW i \in 1 .. n
      PROVE  BestMethodForRanges(slices[i], luck, Options) \in Seq(Q)
  <2>1. PICK slice \in ShortRanges(span) : slices[i] \in Seq(SliceParts(want, slice))
    BY <1>2 DEF SliceLists
  <2>2. slice \in ValidRanges /\ slice.to - slice.from < span
    BY DEF ShortRanges
  <2> QED
    BY <2>1, <2>2, BestMethodQueries DEF Q
<1>5. seqs \in [1 .. n -> Seq(Q)]
  BY <1>4
<1> HIDE DEF seqs
<1> QED
  BY <1>2, <1>3, <1>5, FlattenElements DEF Q

(* The queries of a run are all wanted, and within the limits. *)
LEMMA OptimizedQueries ==
    ASSUME Limits, NEW want, NEW span \in Int, MaxSpan <= span,
           NEW luck \in [Products -> Int], NEW states \in Seq(StatesOf(want, want)),
           NEW indices, indices[1] \in Seq(ShortRanges(span)),
           indices[2] \in Seq(ShortRanges(span))
    PROVE  OptimizeQueries(states, luck, Options, indices) \in Seq(Queries(want, span))
<1> DEFINE n == Len(states)
           fresh == [i \in 1 .. n |-> FreshPart(states[i])]
           retry == [i \in 1 .. n |-> RetryPart(states[i])]
           Q == Queries(want, span)
           one == QueriesOf(fresh, indices[1], luck)
           two == QueriesOf(retry, indices[2], luck)
           steps == Steps(states, Options)
           seqs == [s \in DOMAIN steps |-> QueriesOf(steps[s], indices[s], luck)]
<1>1. n \in Nat /\ DOMAIN states = 1 .. n /\ \A i \in 1 .. n : states[i] \in StatesOf(want, want)
  OBVIOUS
<1>2. steps = <<fresh, retry>>
  BY <1>1, StepsOf
<1> HIDE DEF n
<1>3. \A i \in 1 .. n : FreshPart(states[i]) \in Parts(want) /\ RetryPart(states[i]) \in Parts(want)
  BY <1>1, StatePartsAreWanted
<1>4. fresh \in Seq(Parts(want)) /\ retry \in Seq(Parts(want))
  BY <1>1, <1>3
<1> HIDE DEF fresh, retry, Q, steps
<1>5. one \in Seq(Q) /\ two \in Seq(Q)
  BY <1>4, QueriesOfStep DEF Q
<1>6. DOMAIN steps = 1 .. 2 /\ steps[1] = fresh /\ steps[2] = retry
  BY <1>2
<1>7. OptimizeQueries(states, luck, Options, indices) = FlattenSeq(seqs)
  BY OptimizerQueries DEF steps
<1>8. \A s \in 1 .. 2 : s = 1 \/ s = 2
  OBVIOUS
<1>9. \A s \in 1 .. 2 : QueriesOf(steps[s], indices[s], luck) \in Seq(Q)
  BY <1>5, <1>6, <1>8
<1>10. seqs \in [1 .. 2 -> Seq(Q)]
  BY <1>6, <1>9
<1> HIDE DEF seqs
<1> QED
  BY <1>7, <1>10, FlattenElements DEF Q

-----------------------------------------------------------------------------
(* The indices: slices of blocks, none of them too long. *)
LEMMA SlitParts ==
    ASSUME NEW r \in ValidRanges, NEW n \in Nat \ {0}
    PROVE  /\ RangeSlitToMaxLength(r, n) \in Seq(ShortRanges(n))
           /\ \A x : x \in Points(RangeSlitToMaxLength(r, n)) => x \in r.from .. r.to
           /\ Apart(RangeSlitToMaxLength(r, n))
<1> DEFINE a == r.from
           b == r.to
           size == RangeSize(r)
           m == (size + n - 1) \div n
           part(i) == Span(a + (i - 1) * n, Min({b, a + i * n - 1}))
           parts == RangeSlitToMaxLength(r, n)
<1>1. a \in Int /\ b \in Int /\ a <= b
  BY ValidRange
<1>2. size = b - a + 1
  <2>1. b - a + 1 \in Int /\ 0 \in Int
    BY <1>1
  <2>2. size = IF 0 >= b - a + 1 THEN 0 ELSE b - a + 1
    BY <2>1, MaxOfTwo DEF RangeSize
  <2> QED
    BY <1>1, <2>2
<1>3. parts = [i \in 1 .. m |-> part(i)]
  BY DEF RangeSlitToMaxLength
<1> HIDE DEF a, b, size
<1>4. size \in Nat \ {0}
  BY <1>1, <1>2
<1>5. m \in Nat
  BY <1>4
<1>6. ASSUME NEW i \in 1 .. m
      PROVE  /\ part(i).from = a + (i - 1) * n
             /\ part(i).to <= a + (i - 1) * n + n - 1
             /\ (i - 1) * n \in Nat
             /\ part(i) \in ShortRanges(n)
             /\ a <= part(i).from /\ part(i).to <= b
  <2> DEFINE lo == (i - 1) * n
             hi == a + i * n - 1
             to == Min({b, hi})
  <2>1. lo \in Nat /\ lo < size /\ i * n = lo + n /\ i * n \in Nat
    BY <1>4, Division
  <2>2. part(i) = Span(a + lo, to)
    OBVIOUS
  <2> HIDE DEF lo, part
  <2>3. hi = a + lo + n - 1 /\ hi \in Int
    BY <1>1, <2>1
  <2> HIDE DEF hi
  <2>4. to = IF b <= hi THEN b ELSE hi
    BY <1>1, <2>3, MinOfTwo
  <2> HIDE DEF to
  <2>5. to \in Int /\ a + lo <= to /\ to <= b /\ to <= a + lo + n - 1 /\ a + lo \in Int
    BY <1>1, <1>2, <2>1, <2>3, <2>4
  <2>6. part(i).from = a + lo /\ part(i).to = to /\ part(i) \in ValidRanges
    BY <2>2, <2>5, SpanIsValid
  <2>7. to - (a + lo) < n /\ a <= a + lo
    BY <1>1, <2>1, <2>5
  <2>8. part(i) \in ShortRanges(n)
    BY <2>6, <2>7 DEF ShortRanges
  <2> QED
    BY <2>1, <2>5, <2>6, <2>7, <2>8 DEF lo
<1> HIDE DEF part, m, parts
<1>7. parts \in Seq(ShortRanges(n)) /\ DOMAIN parts = 1 .. m
      /\ \A i \in 1 .. m : parts[i] = part(i)
  BY <1>3, <1>5, <1>6
<1>8. \A x : x \in Points(parts) => x \in a .. b
  <2> SUFFICES ASSUME NEW i \in 1 .. m, NEW x, x \in part(i).from .. part(i).to
               PROVE  x \in a .. b
    BY <1>7, PointsOf
  <2>1. part(i) \in ValidRanges /\ a <= part(i).from /\ part(i).to <= b
    BY <1>6 DEF ShortRanges
  <2>2. part(i).from \in Int /\ part(i).to \in Int
    BY <2>1, ValidRange
  <2> QED
    BY <1>1, <2>1, <2>2
<1>9. ASSUME NEW i \in 1 .. m, NEW j \in 1 .. m, i < j
      PROVE  part(i).to < part(j).from
  <2>1. part(i).to <= a + (i - 1) * n + n - 1 /\ (i - 1) * n \in Nat
        /\ part(j).from = a + (j - 1) * n /\ (j - 1) * n \in Nat
    BY <1>6
  <2>2. part(i).to \in Int
    <3>1. part(i) \in ValidRanges
      BY <1>6 DEF ShortRanges
    <3> QED
      BY <3>1, ValidRange
  <2>3. (i - 1) * n + n <= (j - 1) * n
    <3>1. i - 1 \in Int /\ j - 1 \in Int /\ (i - 1) + 1 <= j - 1
      BY <1>5, <1>9
    <3>2. \A k, l \in Int : k + 1 <= l => k * n + n <= l * n
      OBVIOUS
    <3> QED
      BY <3>1, <3>2
  <2> QED
    BY <1>1, <2>1, <2>2, <2>3
<1>10. Apart(parts)
  <2> SUFFICES ASSUME NEW i \in 1 .. m, NEW j \in 1 .. m, i # j, NEW x,
                      x \in part(i).from .. part(i).to, x \in part(j).from .. part(j).to
               PROVE  FALSE
    BY <1>7 DEF Apart
  <2>1. /\ part(i).from \in Int /\ part(i).to \in Int
        /\ part(j).from \in Int /\ part(j).to \in Int
    <3>1. part(i) \in ValidRanges /\ part(j) \in ValidRanges
      BY <1>6 DEF ShortRanges
    <3> QED
      BY <3>1, ValidRange
  <2>2. part(i).to < part(j).from \/ part(j).to < part(i).from
    BY <1>5, <1>9
  <2> QED
    BY <2>1, <2>2
<1> QED
  BY <1>7, <1>8, <1>10 DEF a, b, parts

Ordered(ranges) == \A i, j \in DOMAIN ranges : i < j => ranges[i].to < ranges[j].from

LEMMA OrderedIsApart ==
    ASSUME NEW ranges \in Seq(ValidRanges), Ordered(ranges)
    PROVE  Apart(ranges)
<1> SUFFICES ASSUME NEW i \in DOMAIN ranges, NEW j \in DOMAIN ranges, i # j, NEW x,
                    x \in ranges[i].from .. ranges[i].to, x \in ranges[j].from .. ranges[j].to
             PROVE  FALSE
  BY DEF Apart
<1>1. DOMAIN ranges = 1 .. Len(ranges)
  OBVIOUS
<1>2. ranges[i] \in ValidRanges /\ ranges[j] \in ValidRanges
  OBVIOUS
<1>3. /\ ranges[i].from \in Int /\ ranges[i].to \in Int
      /\ ranges[j].from \in Int /\ ranges[j].to \in Int
  BY <1>2, ValidRange
<1>4. i < j \/ j < i
  BY <1>1
<1>5. ranges[i].to < ranges[j].from \/ ranges[j].to < ranges[i].from
  BY <1>4 DEF Ordered
<1> QED
  BY <1>3, <1>5

IsIndex(index, span) == index \in Seq(ShortRanges(span)) /\ Apart(index)

LEMMA SplitIsIndex ==
    ASSUME NEW ranges \in Seq(ValidRanges), Apart(ranges), NEW span \in Nat \ {0}
    PROVE  IsIndex(RangeSplitManyToMaxLength(ranges, span), span)
<1> DEFINE n == Len(ranges)
           seqs == [i \in 1 .. n |-> RangeSlitToMaxLength(ranges[i], span)]
           S == ShortRanges(span)
<1>1. n \in Nat /\ DOMAIN ranges = 1 .. n /\ \A i \in 1 .. n : ranges[i] \in ValidRanges
  OBVIOUS
<1>2. RangeSplitManyToMaxLength(ranges, span) = FlattenSeq(seqs)
  BY <1>1 DEF RangeSplitManyToMaxLength
<1> HIDE DEF n, S
<1>3. \A i \in 1 .. n : /\ RangeSlitToMaxLength(ranges[i], span) \in Seq(S)
                        /\ Apart(RangeSlitToMaxLength(ranges[i], span))
                        /\ \A x : x \in Points(RangeSlitToMaxLength(ranges[i], span))
                                    => x \in ranges[i].from .. ranges[i].to
  BY <1>1, SlitParts DEF S
<1>4. seqs \in [1 .. n -> Seq(S)]
      /\ \A i \in 1 .. n : seqs[i] = RangeSlitToMaxLength(ranges[i], span)
  BY <1>3
<1> HIDE DEF seqs
<1>5. FlattenSeq(seqs) \in Seq(S)
  BY <1>1, <1>4, FlattenElements
<1>6. seqs \in [1 .. n -> Seq(ValidRanges)]
  <2>1. S \subseteq ValidRanges
    BY DEF S, ShortRanges
  <2>2. \A i \in 1 .. n : seqs[i] \in Seq(S)
    BY <1>4
  <2>3. \A i \in 1 .. n : seqs[i] \in Seq(ValidRanges)
    BY <2>1, <2>2, SeqOfSmaller
  <2> QED
    BY <1>4, <2>3
<1>7. \A i \in 1 .. n : Apart(seqs[i])
  BY <1>3, <1>4
<1>8. \A i, j \in 1 .. n :
         i # j => \A x : ~ (x \in Points(seqs[i]) /\ x \in Points(seqs[j]))
  <2> SUFFICES ASSUME NEW i \in 1 .. n, NEW j \in 1 .. n, i # j, NEW x,
                      x \in Points(seqs[i]), x \in Points(seqs[j])
               PROVE  FALSE
    OBVIOUS
  <2>1. x \in ranges[i].from .. ranges[i].to /\ x \in ranges[j].from .. ranges[j].to
    BY <1>3, <1>4
  <2> QED
    BY <1>1, <2>1 DEF Apart
<1>9. Apart(FlattenSeq(seqs))
  BY <1>1, <1>6, <1>7, <1>8, FlattenPoints
<1> QED
  BY <1>2, <1>5, <1>9 DEF IsIndex, S

(* createOptimizerIndexFromState joins the blobs of blocks that are close. *)
JoinStep(blobs, r, close) ==
    IF blobs # <<>> /\ Last(blobs).to + close >= r.from
    THEN [blobs EXCEPT ![Len(blobs)].to = Max({@, r.to})]
    ELSE Append(blobs, r)

Blobs == {blobs \in Seq(ValidRanges) : Ordered(blobs)}

LEMMA JoinStepOrders ==
    ASSUME NEW close \in Nat, NEW blobs \in Blobs, NEW r \in ValidRanges
    PROVE  JoinStep(blobs, r, close) \in Blobs
<1> DEFINE n == Len(blobs)
           new == JoinStep(blobs, r, close)
<1>1. n \in Nat /\ DOMAIN blobs = 1 .. n /\ blobs \in Seq(ValidRanges) /\ Ordered(blobs)
      /\ \A i \in 1 .. n : blobs[i] \in ValidRanges
  BY DEF Blobs
<1>2. \A i \in 1 .. n : blobs[i].from \in Int /\ blobs[i].to \in Int /\ blobs[i].from <= blobs[i].to
  BY <1>1, ValidRange
<1>3. r.from \in Int /\ r.to \in Int
  BY ValidRange
<1>6. blobs # <<>> => n \in Nat \ {0} /\ Last(blobs) = blobs[n]
  BY <1>1, LastAndFront
<1>7. blobs # <<>> <=> n # 0
  BY <1>1
<1> HIDE DEF n
<1>4. CASE blobs # <<>> /\ Last(blobs).to + close >= r.from
  <2>1. n \in 1 .. n /\ Last(blobs) = blobs[n]
    BY <1>4, <1>6
  <2> DEFINE w == Wider(blobs[n], r)
  <2>2. w \in ValidRanges /\ w.from = blobs[n].from
        /\ [blobs[n] EXCEPT !.to = Max({@, r.to})] = w
    BY <1>1, <2>1, WiderRange
  <2>3. new = [blobs EXCEPT ![n] = [blobs[n] EXCEPT !.to = Max({@, r.to})]]
    BY <1>4, <2>1 DEF JoinStep, n
  <2> HIDE DEF w
  <2>4. new = [blobs EXCEPT ![n] = w]
    BY <2>2, <2>3
  <2> HIDE DEF new
  <2>5. new \in Seq(ValidRanges) /\ DOMAIN new = 1 .. n
        /\ \A i \in 1 .. n : new[i] = IF i = n THEN w ELSE blobs[i]
    BY <1>1, <2>1, <2>2, <2>4 DEF n
  <2>6. Ordered(new)
    <3> SUFFICES ASSUME NEW i \in 1 .. n, NEW j \in 1 .. n, i < j
                 PROVE  new[i].to < new[j].from
      BY <2>5 DEF Ordered
    <3>1. i # n
      BY <1>1
    <3>2. new[i] = blobs[i] /\ new[j].from = blobs[j].from
      BY <2>2, <2>5, <3>1
    <3> QED
      BY <1>1, <3>2 DEF Ordered
  <2> QED
    BY <2>5, <2>6 DEF Blobs, new
<1>5. CASE ~ (blobs # <<>> /\ Last(blobs).to + close >= r.from)
  <2>1. new = Append(blobs, r)
    BY <1>5 DEF JoinStep
  <2> HIDE DEF new
  <2>2. new \in Seq(ValidRanges) /\ DOMAIN new = 1 .. n + 1 /\ new[n + 1] = r
        /\ \A i \in 1 .. n : new[i] = blobs[i]
    BY <1>1, <2>1 DEF n
  <2>3. \A i \in 1 .. n : blobs[i].to < r.from
    <3> SUFFICES ASSUME NEW i \in 1 .. n PROVE blobs[i].to < r.from
      OBVIOUS
    <3>1. blobs # <<>> /\ n \in 1 .. n
      BY <1>1, <1>7
    <3>2. Last(blobs) = blobs[n]
      BY <1>6, <3>1
    <3>3. ~ (blobs[n].to + close >= r.from)
      BY <1>5, <3>1, <3>2
    <3>4. blobs[n].to < r.from
      BY <1>2, <1>3, <3>1, <3>3
    <3>5. i < n => blobs[i].to < blobs[n].from
      BY <1>1, <3>1 DEF Ordered
    <3>6. i < n \/ i = n
      BY <1>1
    <3> QED
      BY <1>2, <1>3, <3>1, <3>4, <3>5, <3>6
  <2>4. Ordered(new)
    <3> SUFFICES ASSUME NEW i \in 1 .. n + 1, NEW j \in 1 .. n + 1, i < j
                 PROVE  new[i].to < new[j].from
      BY <2>2 DEF Ordered
    <3>1. i \in 1 .. n
      BY <1>1
    <3>2. CASE j = n + 1
      BY <2>2, <2>3, <3>1, <3>2
    <3>3. CASE j # n + 1
      <4>1. j \in 1 .. n
        BY <1>1, <3>3
      <4> QED
        BY <1>1, <2>2, <3>1, <4>1 DEF Ordered
    <3> QED
      BY <3>2, <3>3
  <2> QED
    BY <2>2, <2>4 DEF Blobs, new
<1> QED
  BY <1>4, <1>5

Joins(it, seq, close) ==
    it = [s \in SUBSET (DOMAIN seq) |->
            IF s = {} THEN <<>> ELSE JoinStep(it[s \ {Max(s)}], seq[Max(s)], close)]

JoinAll(seq, close) ==
    FoldLeft(LAMBDA blobs, r : JoinStep(blobs, r, close), <<>>, seq)

LEMMA JoiningOrders ==
    ASSUME NEW close \in Nat, NEW n \in Nat, NEW seq \in [1 .. n -> ValidRanges]
    PROVE  JoinAll(seq, close) \in Blobs
<1> DEFINE V == Blobs
           step == [p \in V \X (1 .. n) |-> JoinStep(p[1], seq[p[2]], close)]
           base == <<>>
<1>1. DOMAIN seq = 1 .. n
  OBVIOUS
<1>2. base \in V
  BY DEF Blobs, Ordered
<1>3. \A v \in V, i \in 1 .. n : JoinStep(v, seq[i], close) \in V
  BY JoinStepOrders
<1>4. step \in [V \X (1 .. n) -> V]
  BY <1>3
<1>5. \A v \in V, i \in 1 .. n : step[<<v, i>>] = JoinStep(v, seq[i], close)
  OBVIOUS
<1>6. \E it : Joins(it, seq, close)
  <2> HIDE DEF V, step, base
  <2>1. PICK it \in [SUBSET (1 .. n) -> V] : FoldSolution(step, base, it, n)
    BY <1>2, <1>4, FoldSolutionExists
  <2>2. ASSUME NEW s \in (SUBSET (1 .. n)) \ {{}}
        PROVE  it[s] = JoinStep(it[s \ {Max(s)}], seq[Max(s)], close)
    <3>1. it[s] = step[<<it[s \ {Max(s)}], Max(s)>>]
      BY <2>1 DEF FoldSolution
    <3>2. Max(s) \in 1 .. n /\ it[s \ {Max(s)}] \in V
      BY <2>1, MaxInInterval
    <3> QED
      BY <1>5, <3>1, <3>2
  <2>3. it[{}] = base
    BY <2>1 DEF FoldSolution
  <2>4. it = [s \in SUBSET (1 .. n) |-> it[s]]
    OBVIOUS
  <2> QED
    BY <1>1, <2>2, <2>3, <2>4 DEF Joins, base
<1> DEFINE it == CHOOSE f : Joins(f, seq, close)
<1>7. Joins(it, seq, close)
  BY <1>6
<1>8. JoinAll(seq, close) = it[1 .. n]
  BY <1>1 DEF JoinAll, FoldLeft, MapThenFoldSet, Joins
<1> HIDE DEF it, V, step
<1>9. FoldsWithin(it, base, step, V, n)
  <2>1. it[{}] = base
    BY <1>7 DEF Joins
  <2>2. ASSUME NEW s \in (SUBSET (1 .. n)) \ {{}}, it[s \ {Max(s)}] \in V
        PROVE  it[s] = step[<<it[s \ {Max(s)}], Max(s)>>]
    <3>1. it[s] = JoinStep(it[s \ {Max(s)}], seq[Max(s)], close)
      BY <1>1, <1>7 DEF Joins
    <3>2. Max(s) \in 1 .. n
      BY MaxInInterval
    <3> QED
      BY <1>5, <2>2, <3>1, <3>2
  <2> HIDE DEF base
  <2> QED
    BY <2>1, <2>2 DEF FoldsWithin
<1> HIDE DEF base
<1>10. PICK at : Stages(at, base, step, V, n) /\ at[n] = it[1 .. n]
  <2>1. HasStages(it, base, step, V, n)
    BY <1>2, <1>4, <1>9, FoldHasStages
  <2> QED
    BY <2>1 DEF HasStages
<1>11. at[n] \in V
  <2>1. n \in 0 .. n
    OBVIOUS
  <2> QED
    BY <1>10, <2>1 DEF Stages
<1> QED
  BY <1>8, <1>10, <1>11 DEF V

LEMMA IndexFromStateIsIndex ==
    ASSUME NEW want, NEW parts \in Seq(Parts(want)), NEW close \in Nat, NEW span \in Nat \ {0}
    PROVE  IsIndex(IndexFromState(parts, close, span), span)
<1> DEFINE n == Len(parts)
           seqs == [i \in 1 .. n |-> parts[i].ranges]
           merged == RangeMerge(FlattenSeq(seqs))
           m == Len(merged)
           blobs == JoinAll(merged, close)
<1>1. n \in Nat /\ DOMAIN parts = 1 .. n /\ \A i \in 1 .. n : parts[i] \in Parts(want)
  OBVIOUS
<1>2. IndexFromState(parts, close, span) = RangeSplitManyToMaxLength(blobs, span)
  BY <1>1 DEF IndexFromState, JoinAll, JoinStep, AllRanges
<1> HIDE DEF n
<1>3. \A i \in 1 .. n : parts[i].ranges \in Seq(ValidRanges)
  BY <1>1 DEF Parts
<1>4. seqs \in [1 .. n -> Seq(ValidRanges)]
  BY <1>3
<1> HIDE DEF seqs
<1>5. FlattenSeq(seqs) \in Seq(ValidRanges)
  BY <1>1, <1>4, FlattenElements
<1>6. merged \in Seq(ValidRanges)
  BY <1>5, MergeOfSeq
<1> HIDE DEF merged
<1>7. m \in Nat /\ merged \in [1 .. m -> ValidRanges]
  BY <1>6
<1> HIDE DEF m
<1>8. blobs \in Blobs
  BY <1>7, JoiningOrders
<1> HIDE DEF blobs
<1>9. blobs \in Seq(ValidRanges) /\ Apart(blobs)
  BY <1>8, OrderedIsApart DEF Blobs
<1> QED
  BY <1>2, <1>9, SplitIsIndex

LEMMA ConcatApart ==
    ASSUME NEW s \in Seq(ValidRanges), NEW t \in Seq(ValidRanges), Apart(s), Apart(t),
           \A x : ~ (x \in Points(s) /\ x \in Points(t))
    PROVE  Apart(s \o t)
<1> DEFINE m == Len(s)
           n == Len(t)
           u == s \o t
<1>1. /\ m \in Nat /\ n \in Nat /\ DOMAIN s = 1 .. m /\ DOMAIN t = 1 .. n
      /\ DOMAIN u = 1 .. m + n
      /\ \A k \in 1 .. m : u[k] = s[k]
      /\ \A k \in 1 .. n : u[m + k] = t[k]
  OBVIOUS
<1> HIDE DEF m, n, u
<1>2. \A k \in 1 .. m + n : k \in 1 .. m \/ (k - m \in 1 .. n /\ m + (k - m) = k)
  BY <1>1
<1>3. \A k \in 1 .. n : u[m + k] = t[k]
  BY <1>1
<1>4. ASSUME NEW i \in 1 .. m + n, NEW j \in 1 .. m + n, i # j, NEW x,
             x \in u[i].from .. u[i].to, x \in u[j].from .. u[j].to
      PROVE  FALSE
  <2>1. CASE i \in 1 .. m /\ j \in 1 .. m
    BY <1>1, <1>4, <2>1 DEF Apart
  <2>2. CASE i \in 1 .. m /\ j \notin 1 .. m
    <3>1. j - m \in 1 .. n /\ u[j] = t[j - m]
      BY <1>2, <1>3, <2>2
    <3>2. x \in Points(s) /\ x \in Points(t)
      BY <1>1, <1>4, <2>2, <3>1, PointsOf
    <3> QED
      BY <3>2
  <2>3. CASE i \notin 1 .. m /\ j \in 1 .. m
    <3>1. i - m \in 1 .. n /\ u[i] = t[i - m]
      BY <1>2, <1>3, <2>3
    <3>2. x \in Points(s) /\ x \in Points(t)
      BY <1>1, <1>4, <2>3, <3>1, PointsOf
    <3> QED
      BY <3>2
  <2>4. CASE i \notin 1 .. m /\ j \notin 1 .. m
    <3>1. i - m \in 1 .. n /\ u[i] = t[i - m] /\ j - m \in 1 .. n /\ u[j] = t[j - m]
      BY <1>2, <1>3, <2>4
    <3>2. i - m # j - m
      BY <1>1, <1>4
    <3> QED
      BY <1>1, <1>4, <3>1, <3>2 DEF Apart
  <2> QED
    BY <2>1, <2>2, <2>3, <2>4
<1>5. Apart(u)
  BY <1>1, <1>4 DEF Apart
<1> QED
  BY <1>5 DEF u

LEMMA KeptApart ==
    ASSUME NEW ranges \in Seq(ValidRanges), NEW K
    PROVE  /\ KeptIn(ranges, K) \in Seq(ValidRanges)
           /\ Apart(ranges) => Apart(KeptIn(ranges, K))
<1> DEFINE n == Len(ranges)
           one(i) == IF ranges[i] \in K THEN <<ranges[i]>> ELSE <<>>
           seqs == [i \in 1 .. n |-> one(i)]
<1>1. n \in Nat /\ DOMAIN ranges = 1 .. n /\ \A i \in 1 .. n : ranges[i] \in ValidRanges
  OBVIOUS
<1>2. KeptIn(ranges, K) = FlattenSeq(seqs)
  BY <1>1 DEF KeptIn
<1> HIDE DEF n
<1>3. ASSUME NEW i \in 1 .. n
      PROVE  /\ one(i) \in Seq(ValidRanges) /\ Apart(one(i))
             /\ \A x : x \in Points(one(i)) => x \in ranges[i].from .. ranges[i].to
  <2>1. CASE ranges[i] \in K
    <3>1. one(i) = <<ranges[i]>>
      BY <2>1
    <3>2. <<ranges[i]>> \in Seq(ValidRanges)
      BY <1>1
    <3>3. Apart(<<ranges[i]>>)
      BY DEF Apart
    <3> HIDE DEF one
    <3> QED
      BY <3>1, <3>2, <3>3, PointsOfOne
  <2>2. CASE ranges[i] \notin K
    <3>1. one(i) = <<>>
      BY <2>2
    <3>2. <<>> \in Seq(ValidRanges) /\ Apart(<<>>)
      BY DEF Apart
    <3> HIDE DEF one
    <3> QED
      BY <3>1, <3>2, PointsOfNone
  <2> QED
    BY <2>1, <2>2
<1> HIDE DEF one
<1>4. seqs \in [1 .. n -> Seq(ValidRanges)] /\ \A i \in 1 .. n : seqs[i] = one(i)
  BY <1>3
<1> HIDE DEF seqs
<1>5. ASSUME Apart(ranges)
      PROVE  \A i, j \in 1 .. n :
                i # j => \A x : ~ (x \in Points(seqs[i]) /\ x \in Points(seqs[j]))
  <2> SUFFICES ASSUME NEW i \in 1 .. n, NEW j \in 1 .. n, i # j, NEW x,
                      x \in Points(seqs[i]), x \in Points(seqs[j])
               PROVE  FALSE
    OBVIOUS
  <2>1. x \in ranges[i].from .. ranges[i].to /\ x \in ranges[j].from .. ranges[j].to
    BY <1>3, <1>4
  <2> QED
    BY <1>1, <1>5, <2>1 DEF Apart
<1>6. \A i \in 1 .. n : Apart(seqs[i])
  BY <1>3, <1>4
<1> QED
  BY <1>1, <1>2, <1>4, <1>5, <1>6, FlattenPoints

Increasing(list) == \A i, j \in DOMAIN list : i < j => list[i] < list[j]

ValidOnes(ranges) == Keep(ranges, IsValidRange)

LEMMA ValidOnesAreKept ==
    ASSUME NEW ranges \in Seq(ValidRanges)
    PROVE  ValidOnes(ranges) = KeptIn(ranges, ValidRanges)
<1> DEFINE n == Len(ranges)
           first == [i \in 1 .. n |-> IF IsValidRange(ranges[i]) THEN <<ranges[i]>> ELSE <<>>]
           second == [i \in 1 .. n |-> IF ranges[i] \in ValidRanges THEN <<ranges[i]>> ELSE <<>>]
<1>1. n \in Nat /\ DOMAIN ranges = 1 .. n /\ \A i \in 1 .. n : ranges[i] \in ValidRanges
  OBVIOUS
<1> HIDE DEF n
<1>2. \A i \in 1 .. n : IsValidRange(ranges[i])
  BY <1>1, ValidRange DEF IsValidRange
<1>3. first = second
  BY <1>1, <1>2
<1>4. ValidOnes(ranges) = FlattenSeq(first)
  BY <1>1 DEF ValidOnes, Keep
<1>5. KeptIn(ranges, ValidRanges) = FlattenSeq(second)
  BY <1>1 DEF KeptIn
<1> QED
  BY <1>3, <1>4, <1>5

(* The ranges between the blocks of an increasing list. *)
LEMMA GapsAreApart ==
    ASSUME NEW n \in Nat, NEW list \in [1 .. n -> Int], Increasing(list), n >= 2,
           NEW gaps, gaps = [i \in 1 .. n - 1 |-> Span(list[i], list[i + 1] - 1)]
    PROVE  /\ gaps \in Seq(ValidRanges) /\ Apart(gaps)
           /\ \A x : x \in Points(gaps) => x \in list[1] .. list[n] - 1
<1>1. \A i \in 1 .. n - 1 : i \in 1 .. n /\ i + 1 \in 1 .. n /\ i < i + 1
  OBVIOUS
<1>2. \A i \in 1 .. n : list[i] \in Int
  OBVIOUS
<1>3. \A i, j \in 1 .. n : i < j => list[i] < list[j]
  BY DEF Increasing
<1>4. ASSUME NEW i \in 1 .. n - 1
      PROVE  /\ gaps[i].from = list[i] /\ gaps[i].to = list[i + 1] - 1
             /\ gaps[i] \in ValidRanges
  <2>1. list[i] \in Int /\ list[i + 1] \in Int /\ list[i] < list[i + 1]
    BY <1>1, <1>2, <1>3
  <2>2. gaps[i] = Span(list[i], list[i + 1] - 1)
    OBVIOUS
  <2>3. list[i + 1] - 1 \in Int /\ list[i] <= list[i + 1] - 1
    BY <2>1
  <2> QED
    BY <2>1, <2>2, <2>3, SpanIsValid
<1>5. gaps \in Seq(ValidRanges) /\ DOMAIN gaps = 1 .. n - 1
  <2>1. n - 1 \in Nat
    OBVIOUS
  <2>2. gaps = [i \in 1 .. n - 1 |-> gaps[i]]
    OBVIOUS
  <2> QED
    BY <1>4, <2>1, <2>2
<1>6. Ordered(gaps)
  <2> SUFFICES ASSUME NEW i \in 1 .. n - 1, NEW j \in 1 .. n - 1, i < j
               PROVE  gaps[i].to < gaps[j].from
    BY <1>5 DEF Ordered
  <2>1. i + 1 = j \/ i + 1 < j
    OBVIOUS
  <2>2. list[i + 1] <= list[j] /\ list[i + 1] \in Int /\ list[j] \in Int
    BY <1>1, <1>2, <1>3, <2>1
  <2>3. gaps[i].to = list[i + 1] - 1 /\ gaps[j].from = list[j]
    BY <1>4
  <2> QED
    BY <2>2, <2>3
<1>7. \A x : x \in Points(gaps) => x \in list[1] .. list[n] - 1
  <2> SUFFICES ASSUME NEW i \in 1 .. n - 1, NEW x, x \in gaps[i].from .. gaps[i].to
               PROVE  x \in list[1] .. list[n] - 1
    BY <1>5, PointsOf
  <2>1. 1 \in 1 .. n /\ n \in 1 .. n /\ (1 = i \/ 1 < i) /\ (i + 1 = n \/ i + 1 < n)
    OBVIOUS
  <2>2. list[1] <= list[i] /\ list[i + 1] <= list[n]
        /\ list[1] \in Int /\ list[i] \in Int /\ list[i + 1] \in Int /\ list[n] \in Int
    <3>1. /\ list[1] \in Int /\ list[i] \in Int /\ list[i + 1] \in Int /\ list[n] \in Int
          /\ i \in 1 .. n /\ i + 1 \in 1 .. n
      BY <1>1, <1>2, <2>1
    <3>2. (1 = i \/ list[1] < list[i]) /\ (i + 1 = n \/ list[i + 1] < list[n])
      BY <1>3, <2>1, <3>1
    <3>3. list[1] <= list[i]
      <4>1. CASE 1 = i
        BY <3>1, <4>1
      <4>2. CASE list[1] < list[i]
        BY <3>1, <4>2
      <4> QED
        BY <3>2, <4>1, <4>2
    <3>4. list[i + 1] <= list[n]
      <4>1. CASE i + 1 = n
        BY <3>1, <4>1
      <4>2. CASE list[i + 1] < list[n]
        BY <3>1, <4>2
      <4> QED
        BY <3>2, <4>1, <4>2
    <3> QED
      BY <3>1, <3>3, <3>4
  <2>3. gaps[i].to = list[i + 1] - 1 /\ gaps[i].from = list[i]
    BY <1>4
  <2> QED
    BY <2>2, <2>3
<1> QED
  BY <1>5, <1>6, <1>7, OrderedIsApart

LEMMA AtMostOne ==
    ASSUME NEW r \in ValidRanges, NEW s, s = <<r>> \/ s = <<>>
    PROVE  s \in Seq(ValidRanges) /\ Apart(s) /\ \A x : x \in Points(s) => x \in r.from .. r.to
<1>1. CASE s = <<r>>
  <2>1. <<r>> \in Seq(ValidRanges)
    OBVIOUS
  <2>2. Apart(<<r>>)
    BY DEF Apart
  <2> QED
    BY <1>1, <2>1, <2>2, PointsOfOne
<1>2. CASE s = <<>>
  <2>1. <<>> \in Seq(ValidRanges)
    OBVIOUS
  <2>2. Apart(<<>>)
    BY DEF Apart
  <2> QED
    BY <1>2, <2>1, <2>2, PointsOfNone
<1> QED
  BY <1>1, <1>2

LEMMA IndexFromBlockListIsIndex ==
    ASSUME NEW list \in Seq(Int), Increasing(list), NEW top \in Int, NEW first \in Int,
           NEW span \in Nat \ {0}
    PROVE  IsIndex(IndexFromBlockList(list, top, first, span), span)
<1> DEFINE n == Len(list)
           a == list[1]
           b == list[n]
           gaps == [i \in 1 .. n - 1 |-> Span(list[i], list[i + 1] - 1)]
           tail == IF top > b THEN <<Span(b, top)>> ELSE <<>>
           head == IF a > first THEN <<Span(first, a - 1)>> ELSE <<>>
           index == IndexFromBlockList(list, top, first, span)
<1>1. n \in Nat /\ list \in [1 .. n -> Int] /\ Last(list) = b
  BY DEF Last
<1>2. CASE n < 2
  <2>1. index = <<>>
    BY <1>2 DEF IndexFromBlockList
  <2>2. <<>> \in Seq(ShortRanges(span)) /\ Apart(<<>>)
    BY DEF Apart
  <2> HIDE DEF index
  <2>3. IsIndex(index, span)
    BY <2>1, <2>2 DEF IsIndex
  <2> QED
    BY <2>3 DEF index
<1>3. CASE ~ (n < 2)
  <2>1. index = RangeSplitManyToMaxLength(ValidOnes(head \o gaps \o tail), span)
    BY <1>1, <1>3 DEF IndexFromBlockList, ValidOnes
  <2>2. /\ gaps \in Seq(ValidRanges) /\ Apart(gaps)
        /\ \A x : x \in Points(gaps) => x \in a .. b - 1
    <3>1. gaps = [i \in 1 .. n - 1 |-> Span(list[i], list[i + 1] - 1)]
      OBVIOUS
    <3>2. n >= 2
      BY <1>1, <1>3
    <3> HIDE DEF gaps, n
    <3> QED
      BY <1>1, <3>1, <3>2, GapsAreApart
  <2>3. a \in Int /\ b \in Int /\ a < b
    <3>1. 1 \in 1 .. n /\ n \in 1 .. n /\ 1 < n
      BY <1>1, <1>3
    <3> QED
      BY <1>1, <3>1 DEF Increasing
  <2> HIDE DEF n, a, b, gaps, index
  <2>4. /\ tail \in Seq(ValidRanges) /\ Apart(tail)
        /\ \A x : x \in Points(tail) => x \in b .. top
    <3>1. CASE top > b
      <4>1. Span(b, top) \in ValidRanges /\ Span(b, top).from = b /\ Span(b, top).to = top
        BY <2>3, <3>1, SpanIsValid
      <4>2. tail = <<Span(b, top)>>
        BY <3>1
      <4> HIDE DEF tail
      <4> QED
        BY <4>1, <4>2, AtMostOne
    <3>2. CASE ~ (top > b)
      <4>1. tail = <<>>
        BY <3>2
      <4> HIDE DEF tail
      <4>2. Span(b, b) \in ValidRanges
        BY <2>3, SpanIsValid
      <4> QED
        BY <4>1, <4>2, AtMostOne, PointsOfNone
    <3> QED
      BY <3>1, <3>2
  <2>5. /\ head \in Seq(ValidRanges) /\ Apart(head)
        /\ \A x : x \in Points(head) => x \in first .. a - 1
    <3>1. CASE a > first
      <4>1. /\ Span(first, a - 1) \in ValidRanges
            /\ Span(first, a - 1).from = first /\ Span(first, a - 1).to = a - 1
        BY <2>3, <3>1, SpanIsValid
      <4>2. head = <<Span(first, a - 1)>>
        BY <3>1
      <4> HIDE DEF head
      <4> QED
        BY <4>1, <4>2, AtMostOne
    <3>2. CASE ~ (a > first)
      <4>1. head = <<>>
        BY <3>2
      <4> HIDE DEF head
      <4>2. Span(b, b) \in ValidRanges
        BY <2>3, SpanIsValid
      <4> QED
        BY <4>1, <4>2, AtMostOne, PointsOfNone
    <3> QED
      BY <3>1, <3>2
  <2> HIDE DEF head, tail
  <2>6. \A x : ~ (x \in Points(head) /\ x \in Points(gaps))
    <3>1. \A x : ~ (x \in first .. a - 1 /\ x \in a .. b - 1)
      BY <2>3
    <3> QED
      BY <2>2, <2>5, <3>1
  <2>7. /\ head \o gaps \in Seq(ValidRanges) /\ Apart(head \o gaps)
        /\ Points(head \o gaps) = Points(head) \cup Points(gaps)
    BY <2>2, <2>5, <2>6, ConcatApart, ConcatPoints
  <2>8. \A x : ~ (x \in Points(head \o gaps) /\ x \in Points(tail))
    <3>1. \A x : ~ (x \in first .. a - 1 /\ x \in b .. top)
      BY <2>3
    <3>2. \A x : ~ (x \in a .. b - 1 /\ x \in b .. top)
      BY <2>3
    <3> QED
      BY <2>2, <2>4, <2>5, <2>7, <3>1, <3>2
  <2> DEFINE all == (head \o gaps) \o tail
  <2>9. all \in Seq(ValidRanges) /\ Apart(all)
    BY <2>4, <2>7, <2>8, ConcatApart, ConcatPoints
  <2>10. index = RangeSplitManyToMaxLength(ValidOnes(all), span)
    BY <2>1
  <2> HIDE DEF all
  <2>11. ValidOnes(all) \in Seq(ValidRanges) /\ Apart(ValidOnes(all))
    BY <2>9, ValidOnesAreKept, KeptApart
  <2> QED
    BY <2>10, <2>11, SplitIsIndex DEF index
<1> QED
  BY <1>2, <1>3

-----------------------------------------------------------------------------
(***************************************************************************)
(* No block is queried twice.  What a query is made for meets itself only, *)
(* and nothing that another query of the list is made for.                 *)
(***************************************************************************)
Meets(a, b) ==
    /\ a.obj = b.obj
    /\ \E x : x \in a.range.from .. a.range.to /\ x \in b.range.from .. b.range.to

Alone(q) == \A a, b \in ObjsAndRanges(q) : Meets(a, b) => a = b

ApartQueries(q, r) == \A a \in ObjsAndRanges(q), b \in ObjsAndRanges(r) : ~ Meets(a, b)

Once(queries) ==
    /\ \A i \in DOMAIN queries : Alone(queries[i])
    /\ \A i, j \in DOMAIN queries : i # j => ApartQueries(queries[i], queries[j])

(* A query for nothing but what is wanted. *)
Serves(q, want) ==
    \A a \in ObjsAndRanges(q) :
        a.obj \in Products /\ a.range.from .. a.range.to \subseteq want[a.obj]

ServesAll(queries, want) == \A q \in ToSet(queries) : Serves(q, want)

DisjointWants(want, other) ==
    \A p \in Products : \A x : ~ (x \in want[p] /\ x \in other[p])

LEMMA ApartByWants ==
    ASSUME NEW want, NEW other, DisjointWants(want, other),
           NEW q, NEW r, Serves(q, want), Serves(r, other)
    PROVE  ApartQueries(q, r)
<1> SUFFICES ASSUME NEW a \in ObjsAndRanges(q), NEW b \in ObjsAndRanges(r), Meets(a, b)
             PROVE  FALSE
  BY DEF ApartQueries
<1>1. a.obj \in Products /\ a.range.from .. a.range.to \subseteq want[a.obj]
  BY DEF Serves
<1>2. b.obj = a.obj /\ b.range.from .. b.range.to \subseteq other[a.obj]
  BY DEF Serves, Meets
<1>3. PICK x : x \in a.range.from .. a.range.to /\ x \in b.range.from .. b.range.to
  BY DEF Meets
<1>4. x \in want[a.obj] /\ x \in other[a.obj]
  BY <1>1, <1>2, <1>3
<1> QED
  BY <1>1, <1>4 DEF DisjointWants

LEMMA QueriesServe ==
    ASSUME NEW want, NEW span, NEW queries \in Seq(Queries(want, span))
    PROVE  ServesAll(queries, want)
<1>1. \A q \in ToSet(queries) : q \in Queries(want, span)
  BY DEF ToSet
<1>2. ASSUME NEW q \in Queries(want, span) PROVE Serves(q, want)
  BY DEF Queries, Within, Serves
<1> QED
  BY <1>1, <1>2 DEF ServesAll

(* Lists for disjoint wants, put end to end. *)
LEMMA OnceFlattens ==
    ASSUME NEW Q, NEW n \in Nat, NEW seqs \in [1 .. n -> Seq(Q)], NEW wants,
           \A i \in 1 .. n : Once(seqs[i]),
           \A i \in 1 .. n : ServesAll(seqs[i], wants[i]),
           \A i, j \in 1 .. n : i # j => DisjointWants(wants[i], wants[j])
    PROVE  Once(FlattenSeq(seqs))
<1> DEFINE flat == FlattenSeq(seqs)
<1>1. flat \in Seq(Q) /\ IsFlat(flat, seqs, n)
  BY FlattenPlaces
<1> HIDE DEF flat
<1>2. PICK of, at : Placed(flat, seqs, n, of, at)
  BY <1>1 DEF IsFlat
<1>3. DOMAIN flat = 1 .. Len(flat) /\ \A i \in 1 .. n : DOMAIN seqs[i] = 1 .. Len(seqs[i])
  BY <1>1
<1>4. \A k \in 1 .. Len(flat) :
         /\ of[k] \in 1 .. n /\ at[k] \in 1 .. Len(seqs[of[k]])
         /\ flat[k] = seqs[of[k]][at[k]]
  BY <1>2 DEF Placed
<1>5. \A k \in 1 .. Len(flat) : Alone(flat[k])
  BY <1>3, <1>4 DEF Once
<1>6. ASSUME NEW k \in 1 .. Len(flat), NEW l \in 1 .. Len(flat), k # l
      PROVE  ApartQueries(flat[k], flat[l])
  <2>1. /\ of[k] \in 1 .. n /\ at[k] \in DOMAIN seqs[of[k]] /\ flat[k] = seqs[of[k]][at[k]]
        /\ of[l] \in 1 .. n /\ at[l] \in DOMAIN seqs[of[l]] /\ flat[l] = seqs[of[l]][at[l]]
    BY <1>3, <1>4
  <2>2. CASE of[k] = of[l]
    <3>1. at[k] # at[l]
      <4>1. k < l \/ l < k
        BY <1>6
      <4>2. /\ k < l => of[k] < of[l] \/ (of[k] = of[l] /\ at[k] < at[l])
            /\ l < k => of[l] < of[k] \/ (of[l] = of[k] /\ at[l] < at[k])
        BY <1>2 DEF Placed
      <4>3. of[k] \in Nat /\ at[k] \in Nat /\ at[l] \in Nat
        BY <1>2 DEF Placed
      <4> QED
        BY <2>2, <4>1, <4>2, <4>3
    <3> QED
      BY <2>1, <2>2, <3>1 DEF Once
  <2>3. CASE of[k] # of[l]
    <3>1. Serves(flat[k], wants[of[k]]) /\ Serves(flat[l], wants[of[l]])
      BY <2>1 DEF ServesAll, ToSet
    <3>2. DisjointWants(wants[of[k]], wants[of[l]])
      BY <2>1, <2>3
    <3> QED
      BY <3>1, <3>2, ApartByWants
  <2> QED
    BY <2>2, <2>3
<1>7. Once(flat)
  BY <1>3, <1>5, <1>6 DEF Once
<1> QED
  BY <1>7 DEF flat

(* A list of single queries for disjoint wants. *)
LEMMA OnceOfAlone ==
    ASSUME NEW n, NEW queries, DOMAIN queries = 1 .. n, NEW wants,
           \A i \in 1 .. n : Alone(queries[i]),
           \A i \in 1 .. n : Serves(queries[i], wants[i]),
           \A i, j \in 1 .. n : i # j => DisjointWants(wants[i], wants[j])
    PROVE  Once(queries)
<1>1. ASSUME NEW i \in 1 .. n, NEW j \in 1 .. n, i # j
      PROVE  ApartQueries(queries[i], queries[j])
  <2>1. DisjointWants(wants[i], wants[j])
    BY <1>1
  <2> QED
    BY <2>1, ApartByWants
<1> QED
  BY <1>1 DEF Once

LEMMA SingleClaims ==
    ASSUME NEW kind, NEW o, NEW r
    PROVE  ObjsAndRanges(SingleQuery(kind, o, r)) = {[obj |-> o, range |-> r]}
<1> DEFINE q == SingleQuery(kind, o, r)
           f == [x \in {o} |-> <<>>]
<1>1. q.objs = {o} /\ q.range = r /\ q.filter = f /\ f[o] = <<>>
  BY DEF SingleQuery
<1> HIDE DEF q, f
<1> QED
  BY <1>1 DEF ObjsAndRanges, q

(* One query per range of a list that has no point twice. *)
LEMMA SinglesOnce ==
    ASSUME NEW kind, NEW o, NEW ranges, Apart(ranges),
           NEW queries, queries = [j \in DOMAIN ranges |-> SingleQuery(kind, o, ranges[j])]
    PROVE  Once(queries)
<1>1. \A j \in DOMAIN ranges :
         ObjsAndRanges(queries[j]) = {[obj |-> o, range |-> ranges[j]]}
  BY SingleClaims
<1>2. \A j \in DOMAIN ranges : Alone(queries[j])
  BY <1>1 DEF Alone
<1>3. ASSUME NEW i \in DOMAIN ranges, NEW j \in DOMAIN ranges, i # j
      PROVE  ApartQueries(queries[i], queries[j])
  <2> SUFFICES ASSUME NEW a \in ObjsAndRanges(queries[i]),
                      NEW b \in ObjsAndRanges(queries[j]), Meets(a, b)
               PROVE  FALSE
    BY DEF ApartQueries
  <2>1. a = [obj |-> o, range |-> ranges[i]] /\ b = [obj |-> o, range |-> ranges[j]]
    BY <1>1
  <2>2. a.range = ranges[i] /\ b.range = ranges[j]
    BY <2>1
  <2> QED
    BY <1>3, <2>2 DEF Meets, Apart
<1>4. DOMAIN queries = DOMAIN ranges
  OBVIOUS
<1> QED
  BY <1>2, <1>3, <1>4 DEF Once

-----------------------------------------------------------------------------
(***************************************************************************)
(* Lists made of elements of another one, none of them twice.              *)
(***************************************************************************)
SelectsAt(place, sub, seq) ==
    /\ place \in [DOMAIN sub -> DOMAIN seq]
    /\ \A k, l \in DOMAIN sub : place[k] = place[l] => k = l
    /\ \A k \in DOMAIN sub : sub[k] = seq[place[k]]

Selects(sub, seq) == \E place : SelectsAt(place, sub, seq)

LEMMA SelectsFrom ==
    ASSUME NEW a, NEW b, NEW c, Selects(a, b), Selects(b, c)
    PROVE  Selects(a, c)
<1>1. PICK p : SelectsAt(p, a, b)
  BY DEF Selects
<1>2. PICK q : SelectsAt(q, b, c)
  BY DEF Selects
<1> DEFINE r == [k \in DOMAIN a |-> q[p[k]]]
<1>3. \A k \in DOMAIN a : p[k] \in DOMAIN b /\ r[k] = q[p[k]] /\ r[k] \in DOMAIN c
  BY <1>1, <1>2 DEF SelectsAt
<1>4. r \in [DOMAIN a -> DOMAIN c]
  BY <1>3
<1> HIDE DEF r
<1>5. \A k, l \in DOMAIN a : r[k] = r[l] => k = l
  BY <1>1, <1>2, <1>3 DEF SelectsAt
<1>6. \A k \in DOMAIN a : a[k] = c[r[k]]
  BY <1>1, <1>2, <1>3 DEF SelectsAt
<1>7. SelectsAt(r, a, c)
  BY <1>4, <1>5, <1>6 DEF SelectsAt
<1> QED
  BY <1>7 DEF Selects

LEMMA KeptSelects ==
    ASSUME NEW S, NEW seq \in Seq(S), NEW K
    PROVE  Selects(KeptIn(seq, K), seq)
<1> DEFINE n == Len(seq)
           seqs == [i \in 1 .. n |-> IF seq[i] \in K THEN <<seq[i]>> ELSE <<>>]
           kept == KeptIn(seq, K)
<1>1. n \in Nat /\ DOMAIN seq = 1 .. n /\ \A i \in 1 .. n : seq[i] \in S
  OBVIOUS
<1>2. kept = FlattenSeq(seqs)
  BY <1>1 DEF KeptIn
<1> HIDE DEF n, kept
<1>3. \A i \in 1 .. n :
         /\ seq[i] \in K => Len(seqs[i]) = 1 /\ seqs[i][1] = seq[i]
         /\ seq[i] \notin K => Len(seqs[i]) = 0
  OBVIOUS
<1>4. seqs \in [1 .. n -> Seq(S)]
  BY <1>1
<1> HIDE DEF seqs
<1>5. kept \in Seq(S) /\ IsFlat(kept, seqs, n)
  BY <1>1, <1>2, <1>4, FlattenPlaces
<1>6. PICK of, at : Placed(kept, seqs, n, of, at)
  BY <1>5 DEF IsFlat
<1>7. DOMAIN kept = 1 .. Len(kept)
  BY <1>5
<1>8. \A k \in 1 .. Len(kept) :
         /\ of[k] \in 1 .. n /\ at[k] \in 1 .. Len(seqs[of[k]])
         /\ kept[k] = seqs[of[k]][at[k]]
  BY <1>6 DEF Placed
<1>9. \A k \in 1 .. Len(kept) : at[k] = 1 /\ kept[k] = seq[of[k]]
  <2> SUFFICES ASSUME NEW k \in 1 .. Len(kept) PROVE at[k] = 1 /\ kept[k] = seq[of[k]]
    OBVIOUS
  <2>1. of[k] \in 1 .. n /\ at[k] \in 1 .. Len(seqs[of[k]]) /\ kept[k] = seqs[of[k]][at[k]]
    BY <1>8
  <2>2. Len(seqs[of[k]]) = 1 /\ seqs[of[k]][1] = seq[of[k]]
    <3>1. seq[of[k]] \notin K => at[k] \in 1 .. 0
      BY <1>3, <2>1
    <3>2. 1 .. 0 = {}
      OBVIOUS
    <3> QED
      BY <1>3, <2>1, <3>1, <3>2
  <2>3. at[k] = 1
    BY <2>1, <2>2
  <2> QED
    BY <2>1, <2>2, <2>3
<1>10. ASSUME NEW k \in 1 .. Len(kept), NEW l \in 1 .. Len(kept), of[k] = of[l]
       PROVE  k = l
  <2>1. at[k] = at[l] /\ at[k] \in Nat /\ of[k] \in Nat
    BY <1>8, <1>9
  <2>2. /\ k < l => of[k] < of[l] \/ (of[k] = of[l] /\ at[k] < at[l])
        /\ l < k => of[l] < of[k] \/ (of[l] = of[k] /\ at[l] < at[k])
    BY <1>6 DEF Placed
  <2>3. ~ (k < l) /\ ~ (l < k)
    BY <1>10, <2>1, <2>2
  <2> QED
    BY <2>3
<1>11. of \in [DOMAIN kept -> DOMAIN seq]
  BY <1>1, <1>6, <1>7 DEF Placed
<1>12. SelectsAt(of, kept, seq)
  BY <1>7, <1>9, <1>10, <1>11 DEF SelectsAt
<1> QED
  BY <1>12 DEF Selects, kept

LEMMA ReverseSelects ==
    ASSUME NEW S, NEW s \in Seq(S)
    PROVE  Selects(Reverse(s), s)
<1> DEFINE n == Len(s)
           t == Reverse(s)
           place == [i \in 1 .. n |-> (n - i) + 1]
<1>1. n \in Nat /\ DOMAIN s = 1 .. n
  OBVIOUS
<1>2. t = [i \in 1 .. n |-> s[(n - i) + 1]]
  BY DEF Reverse
<1> HIDE DEF n, t
<1>3. place \in [1 .. n -> 1 .. n] /\ \A k, l \in 1 .. n : place[k] = place[l] => k = l
  BY <1>1
<1>4. DOMAIN t = 1 .. n /\ \A k \in 1 .. n : t[k] = s[place[k]]
  BY <1>2
<1> HIDE DEF place
<1>5. SelectsAt(place, t, s)
  BY <1>1, <1>3, <1>4 DEF SelectsAt
<1> QED
  BY <1>5 DEF Selects, t

LEMMA FrontSelects ==
    ASSUME NEW S, NEW s \in Seq(S), NEW m \in Nat, m <= Len(s)
    PROVE  Selects(SubSeq(s, 1, m), s)
<1> DEFINE t == SubSeq(s, 1, m)
           place == [i \in 1 .. m |-> i]
<1>1. DOMAIN t = 1 .. m /\ \A k \in 1 .. m : t[k] = s[k] /\ k \in DOMAIN s
  OBVIOUS
<1> HIDE DEF t
<1>2. SelectsAt(place, t, s)
  BY <1>1 DEF SelectsAt
<1> QED
  BY <1>2 DEF Selects, t

LEMMA NonemptySelects ==
    ASSUME NEW S, NEW s \in Seq(S)
    PROVE  Selects(Nonempty(s), s)
<1> DEFINE K == S \ {<<>>}
           n == Len(s)
           first == [i \in 1 .. n |-> IF s[i] \in K THEN <<s[i]>> ELSE <<>>]
           second == [i \in 1 .. n |-> IF s[i] # <<>> THEN <<s[i]>> ELSE <<>>]
<1>1. n \in Nat /\ DOMAIN s = 1 .. n /\ \A i \in 1 .. n : s[i] \in S
  OBVIOUS
<1> HIDE DEF n
<1>2. first = second
  BY <1>1
<1>3. KeptIn(s, K) = FlattenSeq(first)
  BY <1>1 DEF KeptIn
<1>4. Nonempty(s) = FlattenSeq(second)
  BY <1>1 DEF Nonempty, Keep
<1> HIDE DEF first, second, K
<1>5. Selects(KeptIn(s, K), s)
  BY KeptSelects
<1> QED
  BY <1>2, <1>3, <1>4, <1>5

(* Lists of parts, or of states, of different products. *)
DistinctObjs(parts) ==
    \A i, j \in DOMAIN parts : parts[i].obj = parts[j].obj => i = j

LEMMA SelectedDistinct ==
    ASSUME NEW sub, NEW seq, Selects(sub, seq), DistinctObjs(seq)
    PROVE  DistinctObjs(sub)
<1>1. PICK place : SelectsAt(place, sub, seq)
  BY DEF Selects
<1>2. \A k \in DOMAIN sub : place[k] \in DOMAIN seq /\ sub[k] = seq[place[k]]
  BY <1>1 DEF SelectsAt
<1> SUFFICES ASSUME NEW k \in DOMAIN sub, NEW l \in DOMAIN sub, sub[k].obj = sub[l].obj
             PROVE  k = l
  BY DEF DistinctObjs
<1>3. place[k] = place[l]
  BY <1>2 DEF DistinctObjs
<1> QED
  BY <1>1, <1>3 DEF SelectsAt

-----------------------------------------------------------------------------
(***************************************************************************)
(* The queries for a slice: products apart, then the blocks of each.       *)
(***************************************************************************)
Only(want, objs) == [p \in Products |-> IF p \in objs THEN want[p] ELSE {}]

LEMMA OnlyDisjoint ==
    ASSUME NEW want, NEW objs, NEW other, \A o : ~ (o \in objs /\ o \in other)
    PROVE  DisjointWants(Only(want, objs), Only(want, other))
  BY DEF DisjointWants, Only

LEMMA OnlyPart ==
    ASSUME NEW want, NEW objs, NEW part, part.obj \in objs
    PROVE  /\ part \in Parts(want) => part \in Parts(Only(want, objs))
           /\ \A slice : part \in SliceParts(want, slice)
                            => part \in SliceParts(Only(want, objs), slice)
<1>1. ASSUME part \in Parts(want) PROVE part \in Parts(Only(want, objs))
  <2>1. part \in [obj : Products, ranges : Seq(ValidRanges)]
        /\ Points(part.ranges) \subseteq want[part.obj] /\ Apart(part.ranges)
    BY <1>1 DEF Parts
  <2>2. part.obj \in Products
    BY <2>1
  <2>3. Only(want, objs)[part.obj] = want[part.obj]
    BY <2>2 DEF Only
  <2> QED
    BY <2>1, <2>3 DEF Parts
<1> QED
  BY <1>1 DEF SliceParts

LEMMA JsonQueriesOnce ==
    ASSUME Limits, NEW want, NEW part \in Parts(want)
    PROVE  Once(JsonQueriesOf(part))
<1> DEFINE ranges == TakeNewestRanges(part.ranges, MaxSpan, MaxQueries)
<1>1. part.ranges \in Seq(ValidRanges) /\ Apart(part.ranges)
  BY DEF Parts
<1>2. MaxSpan \in Nat \ {0} /\ MaxQueries \in Nat
  BY DEF Limits
<1>3. Apart(ranges)
  BY <1>1, <1>2, TakeNewestTakes
<1>4. JsonQueriesOf(part) = [j \in DOMAIN ranges |-> SingleQuery(JsonMethod, part.obj, ranges[j])]
  BY DEF JsonQueriesOf
<1> HIDE DEF ranges
<1> QED
  BY <1>3, <1>4, SinglesOnce

LEMMA JsonPlannedOnce ==
    ASSUME Limits, NEW want, NEW parts \in Seq(Parts(want)), DistinctObjs(parts)
    PROVE  Once(JsonRpcBatchQueries(parts, Options))
<1> DEFINE n == Len(parts)
           S == Queries(want, MaxSpan)
           seqs == [i \in 1 .. n |-> JsonQueriesOf(parts[i])]
           wants == [i \in 1 .. n |-> Only(want, {parts[i].obj})]
<1>1. n \in Nat /\ DOMAIN parts = 1 .. n /\ \A i \in 1 .. n : parts[i] \in Parts(want)
  OBVIOUS
<1>2. JsonRpcBatchQueries(parts, Options) = FlattenSeq(seqs)
  BY <1>1 DEF JsonRpcBatchQueries, JsonQueriesOf, Options, SingleQuery, JsonMethod
<1> HIDE DEF n, S
<1>3. \A i \in 1 .. n : JsonQueriesOf(parts[i]) \in Seq(S)
  BY <1>1, JsonQueriesOfPart DEF S
<1>4. seqs \in [1 .. n -> Seq(S)] /\ \A i \in 1 .. n : seqs[i] = JsonQueriesOf(parts[i])
  BY <1>3
<1> HIDE DEF seqs
<1>5. \A i \in 1 .. n : Once(seqs[i])
  BY <1>1, <1>4, JsonQueriesOnce
<1>6. ASSUME NEW i \in 1 .. n PROVE ServesAll(seqs[i], wants[i])
  <2>1. parts[i] \in Parts(Only(want, {parts[i].obj}))
    BY <1>1, OnlyPart
  <2>2. seqs[i] \in Seq(Queries(Only(want, {parts[i].obj}), MaxSpan))
    BY <1>4, <2>1, JsonQueriesOfPart
  <2>3. wants[i] = Only(want, {parts[i].obj})
    OBVIOUS
  <2> QED
    BY <2>2, <2>3, QueriesServe
<1>7. ASSUME NEW i \in 1 .. n, NEW j \in 1 .. n, i # j
      PROVE  DisjointWants(wants[i], wants[j])
  <2>1. parts[i].obj # parts[j].obj
    BY <1>1, <1>7 DEF DistinctObjs
  <2>2. \A o : ~ (o \in {parts[i].obj} /\ o \in {parts[j].obj})
    BY <2>1
  <2>3. wants[i] = Only(want, {parts[i].obj}) /\ wants[j] = Only(want, {parts[j].obj})
    OBVIOUS
  <2> QED
    BY <2>2, <2>3, OnlyDisjoint
<1> HIDE DEF wants
<1>8. Once(FlattenSeq(seqs))
  BY <1>1, <1>4, <1>5, <1>6, <1>7, OnceFlattens
<1> QED
  BY <1>2, <1>8

(* A query for several products filters what it keeps for each. *)
LEMMA BatchQueryAlone ==
    ASSUME NEW want, NEW slice \in ValidRanges, NEW n \in Nat,
           NEW chunk \in [1 .. n -> SliceParts(want, slice)]
    PROVE  Alone(BatchQuery(chunk))
<1> DEFINE covering == RangeCovering(AllRanges(chunk))
           objs == BatchObjs(chunk)
           filter == [o \in objs |-> BatchFilter(chunk, o)]
           q == BatchQuery(chunk)
<1>1. ASSUME NEW o \in objs PROVE filter[o] \in Seq(ValidRanges) /\ Apart(filter[o])
  <2> DEFINE i == CHOOSE k \in DOMAIN chunk : chunk[k].obj = o
             merged == RangeMerge(chunk[i].ranges)
  <2>1. i \in 1 .. n
    BY <1>1 DEF BatchObjs
  <2>2. chunk[i].ranges \in Seq(ValidRanges)
    BY <2>1, PartOfSlice
  <2>3. filter[o] = Others(merged, covering)
    BY <1>1 DEF BatchFilter
  <2> HIDE DEF i
  <2>4. merged \in Seq(ValidRanges) /\ IsMerged(merged)
    BY <2>2, MergeOfSeq
  <2> HIDE DEF merged, filter, covering
  <2>5. Apart(merged)
    BY <2>4, MergedIsApart
  <2>6. filter[o] = KeptIn(merged, ValidRanges \ {covering})
    BY <2>3, <2>4, KeptOthers
  <2> QED
    BY <2>4, <2>5, <2>6, KeptApart
<1>2. q.objs = objs /\ q.filter = filter /\ q.range = covering
  BY DEF BatchQuery
<1> HIDE DEF objs, filter, q, covering
<1> SUFFICES ASSUME NEW a \in ObjsAndRanges(q), NEW b \in ObjsAndRanges(q), Meets(a, b)
             PROVE  a = b
  BY DEF Alone, q
<1>3. PICK o \in objs :
        a \in (IF filter[o] = <<>> THEN {[obj |-> o, range |-> covering]}
               ELSE {[obj |-> o, range |-> r] : r \in ToSet(filter[o])})
  BY <1>2 DEF ObjsAndRanges
<1>4. PICK u \in objs :
        b \in (IF filter[u] = <<>> THEN {[obj |-> u, range |-> covering]}
               ELSE {[obj |-> u, range |-> r] : r \in ToSet(filter[u])})
  BY <1>2 DEF ObjsAndRanges
<1>5. a.obj = o /\ b.obj = u
  BY <1>3, <1>4
<1>6. u = o
  BY <1>5 DEF Meets
<1>7. CASE filter[o] = <<>>
  BY <1>3, <1>4, <1>6, <1>7
<1>8. CASE filter[o] # <<>>
  <2>1. PICK r \in ToSet(filter[o]) : a = [obj |-> o, range |-> r]
    BY <1>3, <1>8
  <2>2. PICK s \in ToSet(filter[o]) : b = [obj |-> o, range |-> s]
    BY <1>4, <1>6, <1>8
  <2>3. PICK k \in DOMAIN filter[o] : r = filter[o][k]
    BY DEF ToSet
  <2>4. PICK l \in DOMAIN filter[o] : s = filter[o][l]
    BY DEF ToSet
  <2>5. a.range = r /\ b.range = s
    BY <2>1, <2>2
  <2>6. k = l
    BY <1>1, <2>3, <2>4, <2>5 DEF Meets, Apart
  <2> QED
    BY <2>1, <2>2, <2>3, <2>4, <2>6
<1> QED
  BY <1>7, <1>8

LEMMA BatchQueryServes ==
    ASSUME Limits, NEW want, NEW slice \in ValidRanges, NEW n \in 1 .. MaxAddresses,
           NEW chunk \in [1 .. n -> SliceParts(want, slice)]
    PROVE  Serves(BatchQuery(chunk), Only(want, BatchObjs(chunk)))
<1> DEFINE other == Only(want, BatchObjs(chunk))
           span == slice.to - slice.from + 1
<1>1. slice.from \in Int /\ slice.to \in Int
  BY ValidRange
<1>2. span \in Int /\ slice.to - slice.from < span
  BY <1>1
<1>3. \A i \in 1 .. n : chunk[i] \in SliceParts(want, slice) /\ chunk[i].obj \in BatchObjs(chunk)
  BY DEF BatchObjs
<1> HIDE DEF span, other
<1>4. \A i \in 1 .. n : chunk[i] \in SliceParts(other, slice)
  BY <1>3, OnlyPart DEF other
<1>5. chunk \in [1 .. n -> SliceParts(other, slice)]
  BY <1>4
<1>6. BatchQuery(chunk) \in Queries(other, span)
  BY <1>2, <1>5, BatchQueryIsQuery
<1> DEFINE q == BatchQuery(chunk)
<1> HIDE DEF q
<1>7. q \in Queries(other, span)
  BY <1>6 DEF q
<1>8. Serves(q, other)
  BY <1>7 DEF Queries, Within, Serves
<1> QED
  BY <1>8 DEF q, other

LEMMA ChunkPlaces ==
    ASSUME NEW n \in Nat \ {0}, NEW c \in Nat, NEW d \in Nat, c < d,
           NEW i \in 1 .. n, NEW j \in 1 .. n
    PROVE  ChunkPlace(n, c, i) # ChunkPlace(n, d, j)
<1>1. c * n <= (d - 1) * n
  <2>1. c <= d - 1
    OBVIOUS
  <2> QED
    BY <2>1
<1>2. (c - 1) * n = c * n - n
  OBVIOUS
<1>3. c * n \in Int /\ (d - 1) * n \in Int
  OBVIOUS
<1> QED
  BY <1>1, <1>2, <1>3 DEF ChunkPlace

LEMMA AddressPlannedOnce ==
    ASSUME Limits, NEW want, NEW slice \in ValidRanges,
           NEW luck \in [Products -> Int], NEW parts \in Seq(SliceParts(want, slice)),
           DistinctObjs(parts)
    PROVE  Once(AddressBatchQueries(parts, luck, Options))
<1> DEFINE n == Len(parts)
           sorted == PartsSorted(parts, luck)
           chunks == Chunk(sorted, MaxAddresses)
           S == SliceParts(want, slice)
<1>1. n \in Nat /\ parts \in [1 .. n -> S] /\ DOMAIN parts = 1 .. n
  OBVIOUS
<1>2. \A part \in S : part \in [obj : Products, ranges : Seq(ValidRanges)]
  BY DEF SliceParts, Parts
<1> HIDE DEF n, S
<1>3. parts \in [1 .. n -> [obj : Products, ranges : Seq(ValidRanges)]]
  BY <1>1, <1>2
<1>4. Reorders(sorted, parts, n)
  BY <1>1, <1>3, PartsSortedReorders
<1> HIDE DEF sorted
<1>5. PICK perm \in [1 .. n -> 1 .. n] :
        /\ \A k, l \in 1 .. n : perm[k] = perm[l] => k = l
        /\ sorted = [k \in 1 .. n |-> parts[perm[k]]]
  BY <1>4 DEF Reorders
<1>6. sorted \in Seq(S) /\ Len(sorted) = n /\ DOMAIN sorted = 1 .. n
  BY <1>1, <1>5
<1>7. DistinctObjs(sorted)
  <2>1. SelectsAt(perm, sorted, parts)
    BY <1>1, <1>5, <1>6 DEF SelectsAt
  <2> QED
    BY <2>1, SelectedDistinct DEF Selects
<1>8. MaxAddresses \in Nat \ {0} /\ Options.maxAddresses = MaxAddresses
  BY DEF Limits, Options
<1>9. PICK m \in Nat : Chunked(chunks, sorted, S, MaxAddresses, m)
  BY <1>6, <1>8, ChunkParts
<1>a. /\ DOMAIN chunks = 1 .. m
      /\ \A c \in 1 .. m : chunks[c] \in Seq(S) /\ Len(chunks[c]) \in 1 .. MaxAddresses
  BY <1>9 DEF Chunked
<1>10. AddressBatchQueries(parts, luck, Options) = [c \in 1 .. m |-> BatchQuery(chunks[c])]
  <2>1. AddressBatchQueries(parts, luck, Options)
           = [c \in DOMAIN Chunk(sorted, Options.maxAddresses) |->
                 BatchQuery(Chunk(sorted, Options.maxAddresses)[c])]
    BY AddressQueriesOfChunks DEF sorted
  <2> QED
    BY <1>8, <1>a, <2>1
<1> HIDE DEF chunks
<1>11. ASSUME NEW c \in 1 .. m
       PROVE  /\ Alone(BatchQuery(chunks[c]))
              /\ Serves(BatchQuery(chunks[c]), Only(want, BatchObjs(chunks[c])))
  <2> DEFINE k == Len(chunks[c])
  <2>1. k \in 1 .. MaxAddresses /\ k \in Nat /\ chunks[c] \in [1 .. k -> S]
    BY <1>8, <1>a
  <2> HIDE DEF k
  <2> QED
    BY <2>1, BatchQueryAlone, BatchQueryServes DEF S
<1>12. ASSUME NEW c \in 1 .. m, NEW d \in 1 .. m, c < d, NEW o,
              o \in BatchObjs(chunks[c]), o \in BatchObjs(chunks[d])
       PROVE  FALSE
  <2>1. /\ DOMAIN chunks[c] = 1 .. Len(chunks[c]) /\ Len(chunks[c]) \in 1 .. MaxAddresses
        /\ DOMAIN chunks[d] = 1 .. Len(chunks[d]) /\ Len(chunks[d]) \in 1 .. MaxAddresses
    BY <1>a
  <2>2. PICK i \in 1 .. Len(chunks[c]) : chunks[c][i].obj = o
    BY <1>12, <2>1 DEF BatchObjs
  <2>3. PICK j \in 1 .. Len(chunks[d]) : chunks[d][j].obj = o
    BY <1>12, <2>1 DEF BatchObjs
  <2> DEFINE a == ChunkPlace(MaxAddresses, c, i)
             b == ChunkPlace(MaxAddresses, d, j)
  <2>4. a \in 1 .. n /\ b \in 1 .. n /\ chunks[c][i] = sorted[a] /\ chunks[d][j] = sorted[b]
    BY <1>6, <1>9 DEF Chunked
  <2>5. a # b
    <3>1. i \in 1 .. MaxAddresses /\ j \in 1 .. MaxAddresses
      BY <1>8, <2>1
    <3>2. c \in Nat /\ d \in Nat
      OBVIOUS
    <3> QED
      BY <1>8, <1>12, <3>1, <3>2, ChunkPlaces
  <2> HIDE DEF a, b
  <2> QED
    BY <1>6, <1>7, <2>2, <2>3, <2>4, <2>5 DEF DistinctObjs
<1> DEFINE wants == [c \in 1 .. m |-> Only(want, BatchObjs(chunks[c]))]
           queries == [c \in 1 .. m |-> BatchQuery(chunks[c])]
<1>13. \A c \in 1 .. m : wants[c] = Only(want, BatchObjs(chunks[c]))
                         /\ queries[c] = BatchQuery(chunks[c])
  OBVIOUS
<1>14. DOMAIN queries = 1 .. m
  OBVIOUS
<1> HIDE DEF wants, queries
<1>15. ASSUME NEW c \in 1 .. m, NEW d \in 1 .. m, c # d
       PROVE  DisjointWants(wants[c], wants[d])
  <2>1. c < d \/ d < c
    BY <1>15
  <2>2. \A o : ~ (o \in BatchObjs(chunks[c]) /\ o \in BatchObjs(chunks[d]))
    BY <1>12, <2>1
  <2> QED
    BY <1>13, <2>2, OnlyDisjoint
<1>16. \A c \in 1 .. m : Alone(queries[c]) /\ Serves(queries[c], wants[c])
  BY <1>11, <1>13
<1>17. Once(queries)
  BY <1>14, <1>15, <1>16, OnceOfAlone
<1> QED
  BY <1>10, <1>17 DEF queries

InSlice(want, slice) ==
    [p \in Products |-> {x \in want[p] : x \in slice.from .. slice.to}]

LEMMA PartsInSlice ==
    ASSUME NEW want, NEW slice \in ValidRanges
    PROVE  SliceParts(want, slice) \subseteq SliceParts(InSlice(want, slice), slice)
<1> SUFFICES ASSUME NEW part \in SliceParts(want, slice)
             PROVE  part \in SliceParts(InSlice(want, slice), slice)
  OBVIOUS
<1>1. /\ part \in [obj : Products, ranges : Seq(ValidRanges)]
      /\ Points(part.ranges) \subseteq want[part.obj] /\ Apart(part.ranges)
      /\ part.ranges # <<>> /\ Points(part.ranges) \subseteq slice.from .. slice.to
  BY DEF SliceParts, Parts
<1>2. part.obj \in Products
  BY <1>1
<1>3. InSlice(want, slice)[part.obj] = {x \in want[part.obj] : x \in slice.from .. slice.to}
  BY <1>2 DEF InSlice
<1>4. Points(part.ranges) \subseteq InSlice(want, slice)[part.obj]
  BY <1>1, <1>3
<1> QED
  BY <1>1, <1>4 DEF SliceParts, Parts

LEMMA SlicePlannedOnce ==
    ASSUME Limits, NEW want, NEW span \in Int, MaxSpan <= span,
           NEW slice \in ValidRanges, slice.to - slice.from < span,
           NEW luck \in [Products -> Int], NEW parts \in Seq(SliceParts(want, slice)),
           DistinctObjs(parts)
    PROVE  /\ BestMethodForRanges(parts, luck, Options) \in Seq(Queries(want, span))
           /\ Once(BestMethodForRanges(parts, luck, Options))
           /\ ServesAll(BestMethodForRanges(parts, luck, Options), InSlice(want, slice))
<1> DEFINE json == JsonRpcBatchQueries(parts, Options)
           address == AddressBatchQueries(parts, luck, Options)
           other == InSlice(want, slice)
<1>1. BestMethodForRanges(parts, luck, Options) = json
      \/ BestMethodForRanges(parts, luck, Options) = address
  BY ZenonT(20) DEF BestMethodForRanges
<1> HIDE DEF json, address, other
<1>2. Once(address)
  BY AddressPlannedOnce DEF address
<1>3. SliceParts(want, slice) \subseteq Parts(want)
  BY DEF SliceParts
<1>4. parts \in Seq(Parts(want))
  BY <1>3, SeqOfSmaller
<1>5. Once(json)
  BY <1>4, JsonPlannedOnce DEF json
<1>6. parts \in Seq(SliceParts(other, slice))
  BY PartsInSlice, SeqOfSmaller DEF other
<1>7. BestMethodForRanges(parts, luck, Options) \in Seq(Queries(other, span))
  BY <1>6, BestMethodQueries
<1>8. BestMethodForRanges(parts, luck, Options) \in Seq(Queries(want, span))
  BY BestMethodQueries
<1>9. ServesAll(BestMethodForRanges(parts, luck, Options), other)
  BY <1>7, QueriesServe
<1> QED
  BY <1>1, <1>2, <1>5, <1>8, <1>9 DEF other

LEMMA RestrictedDistinct ==
    ASSUME NEW want, NEW slice \in ValidRanges, NEW parts \in Seq(Parts(want)),
           DistinctObjs(parts)
    PROVE  DistinctObjs(RestrictToSlice(parts, slice))
<1> DEFINE n == Len(parts)
           cut == CutParts(parts, slice)
           K == NonemptyParts(want)
<1>1. n \in Nat /\ DOMAIN parts = 1 .. n /\ \A i \in 1 .. n : parts[i] \in Parts(want)
  OBVIOUS
<1>2. DOMAIN cut = 1 .. n /\ \A i \in 1 .. n : cut[i] = CutPart(parts[i], slice)
  BY <1>1 DEF CutParts
<1>3. \A i \in 1 .. n : cut[i] \in Parts(want) /\ cut[i].obj = parts[i].obj
  <2> SUFFICES ASSUME NEW i \in 1 .. n
               PROVE  cut[i] \in Parts(want) /\ cut[i].obj = parts[i].obj
    OBVIOUS
  <2> DEFINE part == parts[i]
  <2>1. part \in Parts(want) /\ cut[i] = CutPart(part, slice)
    BY <1>1, <1>2
  <2> HIDE DEF part, cut
  <2>2. CutPart(part, slice) \in Parts(want) /\ CutPart(part, slice).obj = part.obj
    BY <2>1, CutPartIsPart
  <2> QED
    BY <2>1, <2>2 DEF part
<1>4. cut = [i \in 1 .. n |-> CutPart(parts[i], slice)]
  BY <1>1 DEF CutParts
<1> HIDE DEF n, cut, K
<1>5. DistinctObjs(cut)
  BY <1>1, <1>2, <1>3 DEF DistinctObjs
<1>6. cut \in Seq(Parts(want))
  <2> DEFINE P == Parts(want)
  <2>1. \A i \in 1 .. n : CutPart(parts[i], slice) \in P
    BY <1>2, <1>3
  <2> HIDE DEF P
  <2>2. cut \in Seq(P)
    BY <1>1, <1>4, <2>1
  <2> QED
    BY <2>2 DEF P
<1>7. Selects(KeptIn(cut, K), cut)
  BY <1>6, KeptSelects
<1>8. RestrictToSlice(parts, slice) = KeptIn(cut, K)
  BY RestrictKeeps DEF cut, K
<1> QED
  BY <1>5, <1>7, <1>8, SelectedDistinct

LEMMA SlicesSelect ==
    ASSUME Limits, NEW want, NEW span \in Int, NEW parts \in Seq(Parts(want)),
           NEW index \in Seq(ShortRanges(span))
    PROVE  Selects(SlicesOf(parts, index),
                   [i \in DOMAIN index |-> RestrictToSlice(parts, index[i])])
<1> DEFINE L == SliceLists(want, span)
           restricted == [i \in DOMAIN index |-> RestrictToSlice(parts, index[i])]
           reversed == Reverse(restricted)
           slices == Nonempty(reversed)
           m == Min({Len(slices), MaxQueries})
<1>1. restricted \in Seq(L)
  BY RestrictedLists
<1>2. SlicesOf(parts, index) = SubSeq(slices, 1, m)
  BY DEF SlicesOf, Options
<1> HIDE DEF L, restricted
<1>3. reversed \in Seq(L) /\ Selects(reversed, restricted)
  BY <1>1, ReverseIsSeq, ReverseSelects
<1> HIDE DEF reversed
<1>4. slices \in Seq(L) /\ Selects(slices, reversed)
  BY <1>3, NonemptyIsSeq, NonemptySelects
<1> HIDE DEF slices
<1>5. MaxQueries \in Nat /\ Len(slices) \in Nat
  BY <1>4 DEF Limits
<1>6. m = IF Len(slices) <= MaxQueries THEN Len(slices) ELSE MaxQueries
  BY <1>5, MinOfTwo
<1>7. m \in Nat /\ m <= Len(slices)
  BY <1>5, <1>6
<1> HIDE DEF m
<1>8. Selects(SubSeq(slices, 1, m), slices)
  BY <1>4, <1>7, FrontSelects
<1>9. Selects(SubSeq(slices, 1, m), reversed)
  BY <1>4, <1>8, SelectsFrom
<1>10. Selects(SubSeq(slices, 1, m), restricted)
  BY <1>3, <1>9, SelectsFrom
<1> QED
  BY <1>2, <1>10 DEF restricted

LEMMA SlicesDisjoint ==
    ASSUME NEW want, NEW r, NEW s, \A x : ~ (x \in r.from .. r.to /\ x \in s.from .. s.to)
    PROVE  DisjointWants(InSlice(want, r), InSlice(want, s))
  BY DEF DisjointWants, InSlice

LEMMA StepPlannedOnce ==
    ASSUME Limits, NEW want, NEW span \in Int, MaxSpan <= span,
           NEW luck \in [Products -> Int], NEW parts \in Seq(Parts(want)),
           DistinctObjs(parts), NEW index, IsIndex(index, span)
    PROVE  Once(QueriesOf(parts, index, luck))
<1> DEFINE slices == SlicesOf(parts, index)
           n == Len(slices)
           Q == Queries(want, span)
           restricted == [i \in DOMAIN index |-> RestrictToSlice(parts, index[i])]
           seqs == [i \in 1 .. n |-> BestMethodForRanges(slices[i], luck, Options)]
<1>1. index \in Seq(ShortRanges(span)) /\ Apart(index)
  BY DEF IsIndex
<1>2. slices \in Seq(SliceLists(want, span))
  BY <1>1, SlicesAreLists
<1>3. Selects(slices, restricted)
  BY <1>1, SlicesSelect
<1>4. DOMAIN restricted = DOMAIN index
      /\ \A i \in DOMAIN index : restricted[i] = RestrictToSlice(parts, index[i])
  OBVIOUS
<1> HIDE DEF slices, Q, restricted
<1>5. n \in Nat /\ DOMAIN slices = 1 .. n
  BY <1>2
<1>6. QueriesOf(parts, index, luck) = FlattenSeq(seqs)
  BY <1>5 DEF QueriesOf, slices
<1> HIDE DEF n
<1>7. PICK place : SelectsAt(place, slices, restricted)
  BY <1>3 DEF Selects
<1>8. \A k \in 1 .. n : place[k] \in DOMAIN index
                        /\ slices[k] = RestrictToSlice(parts, index[place[k]])
  BY <1>4, <1>5, <1>7 DEF SelectsAt
<1>9. \A k, l \in 1 .. n : place[k] = place[l] => k = l
  BY <1>5, <1>7 DEF SelectsAt
<1> DEFINE wants == [k \in 1 .. n |-> InSlice(want, index[place[k]])]
<1>10. \A k \in 1 .. n : wants[k] = InSlice(want, index[place[k]])
                         /\ seqs[k] = BestMethodForRanges(slices[k], luck, Options)
  OBVIOUS
<1> HIDE DEF wants
<1>11. ASSUME NEW k \in 1 .. n
       PROVE  /\ BestMethodForRanges(slices[k], luck, Options) \in Seq(Q)
              /\ Once(seqs[k])
              /\ ServesAll(seqs[k], wants[k])
  <2> DEFINE slice == index[place[k]]
             list == slices[k]
  <2>1. slice \in ShortRanges(span) /\ list = RestrictToSlice(parts, slice)
    BY <1>1, <1>8
  <2> HIDE DEF slice, list
  <2>2. slice \in ValidRanges /\ slice.to - slice.from < span
    BY <2>1 DEF ShortRanges
  <2>3. list \in Seq(SliceParts(want, slice)) /\ DistinctObjs(list)
    BY <2>1, <2>2, RestrictToSliceCuts, RestrictedDistinct
  <2>4. /\ BestMethodForRanges(list, luck, Options) \in Seq(Queries(want, span))
        /\ Once(BestMethodForRanges(list, luck, Options))
        /\ ServesAll(BestMethodForRanges(list, luck, Options), InSlice(want, slice))
    BY <2>2, <2>3, SlicePlannedOnce
  <2>5. seqs[k] = BestMethodForRanges(list, luck, Options) /\ wants[k] = InSlice(want, slice)
    BY <1>10 DEF list, slice
  <2> QED
    BY <2>4, <2>5 DEF Q, list
<1>12. ASSUME NEW k \in 1 .. n, NEW l \in 1 .. n, k # l
       PROVE  DisjointWants(wants[k], wants[l])
  <2>1. place[k] \in DOMAIN index /\ place[l] \in DOMAIN index /\ place[k] # place[l]
    BY <1>8, <1>9, <1>12
  <2>2. \A x : ~ (/\ x \in index[place[k]].from .. index[place[k]].to
                  /\ x \in index[place[l]].from .. index[place[l]].to)
    BY <1>1, <2>1 DEF Apart
  <2> QED
    BY <1>10, <2>2, SlicesDisjoint
<1>13. seqs \in [1 .. n -> Seq(Q)]
  BY <1>11
<1> HIDE DEF seqs
<1>14. Once(FlattenSeq(seqs))
  BY <1>5, <1>11, <1>12, <1>13, OnceFlattens
<1> QED
  BY <1>6, <1>14

LEMMA StatePartsDistinct ==
    ASSUME NEW states, DistinctObjs(states)
    PROVE  /\ DistinctObjs([i \in DOMAIN states |-> FreshPart(states[i])])
           /\ DistinctObjs([i \in DOMAIN states |-> RetryPart(states[i])])
<1>1. \A s : FreshPart(s).obj = s.obj /\ RetryPart(s).obj = s.obj
  BY DEF FreshPart, RetryPart
<1> QED
  BY <1>1 DEF DistinctObjs

(***************************************************************************)
(* Neither step of a run queries a block twice, nor do both of them, as    *)
(* what is to be retried is not fresh.                                     *)
(***************************************************************************)
LEMMA OptimizedOnce ==
    ASSUME Limits, NEW span \in Int, MaxSpan <= span, NEW luck \in [Products -> Int],
           NEW fresh, NEW retry, DisjointWants(fresh, retry),
           NEW states \in Seq(StatesOf(fresh, retry)), DistinctObjs(states),
           NEW indices, IsIndex(indices[1], span), IsIndex(indices[2], span)
    PROVE  Once(OptimizeQueries(states, luck, Options, indices))
<1> DEFINE n == Len(states)
           first == [i \in 1 .. n |-> FreshPart(states[i])]
           second == [i \in 1 .. n |-> RetryPart(states[i])]
           one == QueriesOf(first, indices[1], luck)
           two == QueriesOf(second, indices[2], luck)
           steps == Steps(states, Options)
           seqs == [s \in DOMAIN steps |-> QueriesOf(steps[s], indices[s], luck)]
           Q == Queries(fresh, span) \cup Queries(retry, span)
           wants == <<fresh, retry>>
<1>1. /\ n \in Nat /\ DOMAIN states = 1 .. n
      /\ \A i \in 1 .. n : states[i] \in StatesOf(fresh, retry)
  OBVIOUS
<1>2. steps = <<first, second>>
  BY <1>1, StepsOf
<1>3. DistinctObjs(first) /\ DistinctObjs(second)
  BY <1>1, StatePartsDistinct
<1> HIDE DEF n
<1>4. \A i \in 1 .. n : FreshPart(states[i]) \in Parts(fresh) /\ RetryPart(states[i]) \in Parts(retry)
  BY <1>1, StatePartsAreWanted
<1>5. first \in Seq(Parts(fresh)) /\ second \in Seq(Parts(retry))
  BY <1>1, <1>4
<1> HIDE DEF first, second, steps
<1>6. Once(one) /\ Once(two)
  BY <1>3, <1>5, StepPlannedOnce
<1>7. one \in Seq(Queries(fresh, span)) /\ two \in Seq(Queries(retry, span))
  BY <1>5, QueriesOfStep DEF IsIndex
<1>8. ServesAll(one, fresh) /\ ServesAll(two, retry)
  BY <1>7, QueriesServe
<1>9. one \in Seq(Q) /\ two \in Seq(Q)
  <2>1. Queries(fresh, span) \subseteq Q /\ Queries(retry, span) \subseteq Q
    OBVIOUS
  <2> HIDE DEF Q, one, two
  <2> QED
    BY <1>7, <2>1, SeqOfSmaller
<1>10. DOMAIN steps = 1 .. 2 /\ steps[1] = first /\ steps[2] = second
  BY <1>2
<1>11. OptimizeQueries(states, luck, Options, indices) = FlattenSeq(seqs)
  BY OptimizerQueries DEF steps
<1>12. seqs = [s \in 1 .. 2 |-> QueriesOf(steps[s], indices[s], luck)]
       /\ seqs[1] = one /\ seqs[2] = two
  BY <1>10
<1>13. wants[1] = fresh /\ wants[2] = retry
  OBVIOUS
<1>14. DisjointWants(retry, fresh)
  BY DEF DisjointWants
<1>15. \A s \in 1 .. 2 : s = 1 \/ s = 2
  OBVIOUS
<1> HIDE DEF one, two, seqs, wants, Q
<1>16. seqs \in [1 .. 2 -> Seq(Q)]
  BY <1>9, <1>12, <1>15
<1>17. \A s \in 1 .. 2 : Once(seqs[s]) /\ ServesAll(seqs[s], wants[s])
  BY <1>6, <1>8, <1>12, <1>13, <1>15
<1>18. \A s, t \in 1 .. 2 : s # t => DisjointWants(wants[s], wants[t])
  BY <1>13, <1>14, <1>15
<1>19. Once(FlattenSeq(seqs))
  BY <1>16, <1>17, <1>18, OnceFlattens
<1> QED
  BY <1>11, <1>19

-----------------------------------------------------------------------------
(***************************************************************************)
(* The plans of the importers: what they query is wanted of the rows.      *)
(***************************************************************************)
LEMMA Parameters ==
    /\ MaxBlock \in Nat
    /\ IsFiniteSet(Products) /\ Products # {}
    /\ Created \in [Products -> 0 .. MaxBlock]
    /\ Limits
    /\ RecentSpan \in 1 .. MaxSpan
  BY PlanningAssumption, ZenonT(20) DEF Limits

LEMMA LimitsAreNumbers ==
    /\ MaxSpan \in Nat \ {0} /\ MaxAddresses \in Nat \ {0}
    /\ MaxQueries \in Nat \ {0} /\ SnapshotBlocks \in Nat \ {0}
  BY Parameters DEF Limits

LEMMA TakeNewestWithin ==
    ASSUME NEW ranges \in Seq(ValidRanges), Apart(ranges),
           NEW span \in Nat \ {0}, NEW take \in Int
    PROVE  /\ TakeNewestRanges(ranges, span, take) \in Seq(Within(Points(ranges), span))
           /\ Apart(TakeNewestRanges(ranges, span, take))
<1>1. CASE take \in Nat
  BY <1>1, TakeNewestTakes
<1>2. CASE take \notin Nat
  <2>1. take <= 0
    BY <1>2
  <2>2. TakeNewestRanges(ranges, span, take) = <<>>
    BY <2>1 DEF TakeNewestRanges
  <2>3. <<>> \in Seq(Within(Points(ranges), span)) /\ Apart(<<>>)
    BY DEF Apart
  <2> QED
    BY <2>2, <2>3
<1> QED
  BY <1>1, <1>2

LEMMA LucksAreNumbers ==
    ASSUME NEW luck \in Lucks
    PROVE  luck \in [Products -> Int]
<1>1. Cardinality(Products) \in Nat
  BY Parameters, FS_CardinalityType
<1>2. luck \in [Products -> 1 .. Cardinality(Products)]
  BY DEF Lucks
<1> QED
  BY <1>1, <1>2

LEMMA FirstCreatedIsBlock == FirstCreated \in Nat
<1>1. IsFiniteSet(Products) /\ Products # {} /\ Created \in [Products -> 0 .. MaxBlock]
  BY Parameters
<1>2. \A p \in Products : Created[p] \in Nat
  BY <1>1
<1>3. Created \in [Products -> Int]
  BY <1>1
<1>4. PICK p \in Products : \A q \in Products : Created[p] <= Created[q]
  BY <1>1, <1>3, LeastValue
<1> DEFINE S == {Created[q] : q \in Products}
<1>5. Created[p] \in S /\ \A x \in S : Created[p] <= x
  BY <1>4
<1>6. FirstCreated = Min(S)
  BY DEF FirstCreated
<1>7. S \subseteq Nat
  BY <1>2
<1> HIDE DEF S
<1>8. Min(S) \in S
  BY <1>5 DEF Min
<1> QED
  BY <1>6, <1>7, <1>8

(* The list of snapshot blocks is in increasing order. *)
LEMMA BlockListIncreases ==
    ASSUME NEW known \in Int
    PROVE  BlockList(known) \in Seq(Int) /\ Increasing(BlockList(known))
<1> DEFINE S == {b \in FirstCreated .. known : b % SnapshotBlocks = 0}
           seq == SetToSeq(S)
           n == Cardinality(S)
           less == {ab \in Int \X Int : ab[1] < ab[2]}
           list == BlockList(known)
<1>1. S \in SUBSET Int /\ IsFiniteSet(S)
  <2>1. FirstCreated \in Int
    BY FirstCreatedIsBlock
  <2>2. IsFiniteSet(FirstCreated .. known)
    BY <2>1, FS_Interval
  <2>3. S \subseteq FirstCreated .. known
    OBVIOUS
  <2>4. IsFiniteSet(S)
    BY <2>2, <2>3, FS_Subset
  <2> QED
    BY <2>1, <2>3, <2>4
<1>2. list = StableSort(seq, <)
  BY DEF BlockList
<1> HIDE DEF S
<1>3. /\ seq \in [1 .. n -> S] /\ n \in Nat
      /\ \A i, j \in 1 .. n : seq[i] = seq[j] => i = j
  BY <1>1, SetToSeqElements
<1> HIDE DEF seq, n
<1>4. \A a, b \in Int : <<a, b>> \in less <=> a < b
  OBVIOUS
<1> HIDE DEF less
<1>5. WeakOrder(less, Int)
  BY <1>4 DEF WeakOrder
<1>6. seq \in [1 .. n -> Int] /\ DOMAIN seq = 1 .. n /\ \A i \in 1 .. n : seq[i] \in Int
  BY <1>1, <1>3
<1>7. PICK perm : Sorts(perm, seq, n, less)
  BY <1>3, <1>5, <1>6, SortingSorts
<1>8. list = SortedBy(seq, less)
  <2> DEFINE first(i) == {j \in 1 .. n : seq[j] < seq[i] \/ (j <= i /\ ~ (seq[i] < seq[j]))}
             second(i) == {j \in 1 .. n : \/ <<seq[j], seq[i]>> \in less
                                          \/ (j <= i /\ <<seq[i], seq[j]>> \notin less)}
             place == [i \in 1 .. n |-> Cardinality(first(i))]
             rank == [i \in 1 .. n |-> Cardinality(second(i))]
  <2>1. \A i, j \in 1 .. n : <<seq[i], seq[j]>> \in less <=> seq[i] < seq[j]
    BY <1>4, <1>6
  <2>2. list = [k \in 1 .. n |-> seq[CHOOSE i \in 1 .. n : place[i] = k]]
    BY <1>2, <1>6 DEF StableSort
  <2>3. SortedBy(seq, less) = [k \in 1 .. n |-> seq[CHOOSE i \in 1 .. n : rank[i] = k]]
    BY <1>6 DEF SortedBy
  <2>4. \A i \in 1 .. n : first(i) = second(i)
    BY <2>1
  <2>5. place = rank
    <3> HIDE DEF first, second
    <3> QED
      BY <2>4
  <2> HIDE DEF place, rank
  <2> QED
    BY <2>2, <2>3, <2>5
<1> HIDE DEF list
<1>9. /\ perm \in [1 .. n -> 1 .. n]
      /\ \A k, l \in 1 .. n : perm[k] = perm[l] => k = l
      /\ \A k, l \in 1 .. n : k < l => <<seq[perm[l]], seq[perm[k]]>> \notin less
      /\ list = [k \in 1 .. n |-> seq[perm[k]]]
  BY <1>7, <1>8 DEF Sorts
<1>10. list \in Seq(Int) /\ DOMAIN list = 1 .. n /\ \A k \in 1 .. n : list[k] = seq[perm[k]]
  BY <1>3, <1>6, <1>9
<1>11. Increasing(list)
  <2> SUFFICES ASSUME NEW k \in 1 .. n, NEW l \in 1 .. n, k < l
               PROVE  list[k] < list[l]
    BY <1>10 DEF Increasing
  <2>1. perm[k] \in 1 .. n /\ perm[l] \in 1 .. n /\ perm[k] # perm[l]
    BY <1>3, <1>9
  <2>2. seq[perm[k]] \in Int /\ seq[perm[l]] \in Int /\ seq[perm[k]] # seq[perm[l]]
    BY <1>3, <1>6, <2>1
  <2>3. ~ (seq[perm[l]] < seq[perm[k]])
    BY <1>4, <1>9, <2>2
  <2>4. seq[perm[k]] < seq[perm[l]]
    BY <2>2, <2>3
  <2> QED
    BY <1>10, <2>4
<1> QED
  BY <1>10, <1>11 DEF list

Life == [p \in Products |-> Created[p] .. latest]

Fresh == [p \in Products |->
            Life[p] \ (Points(rows[p].covered) \cup Points(rows[p].toRetry))]

Retries == [p \in Products |-> Points(rows[p].toRetry)]

Want == [p \in Products |->
            (Life[p] \ Points(rows[p].covered)) \cup Points(rows[p].toRetry)]

(* Merged lists of blocks that the product has lived. *)
RowsKnown ==
    /\ DOMAIN rows = Products
    /\ \A p \in Products :
          /\ IsRow(rows[p])
          /\ Points(rows[p].covered) \subseteq Life[p]
          /\ Points(rows[p].toRetry) \subseteq Life[p]

StateOf(p) == [obj |-> p, full |-> Span(Created[p], latest),
               covered |-> rows[p].covered, toRetry |-> rows[p].toRetry]

StateRecords == [obj : Products, full : [from : Int, to : Int],
                 covered : Seq(ValidRanges), toRetry : Seq(ValidRanges)]

LEMMA ObjSeqElements ==
    /\ ObjSeq \in [1 .. Cardinality(Products) -> Products] /\ Cardinality(Products) \in Nat
    /\ \A i, j \in 1 .. Cardinality(Products) : ObjSeq[i] = ObjSeq[j] => i = j
  BY Parameters, SetToSeqElements DEF ObjSeq

LEMMA CreatedIsBlock ==
    ASSUME NEW p \in Products
    PROVE  Created[p] \in Nat
  BY Parameters

LEMMA StateOfIsRecord ==
    ASSUME RowsKnown, latest \in Nat, NEW p \in Products
    PROVE  StateOf(p) \in StateRecords
<1>1. rows[p].covered \in Seq(ValidRanges) /\ rows[p].toRetry \in Seq(ValidRanges)
  BY DEF RowsKnown, IsRow
<1>2. Span(Created[p], latest) \in [from : Int, to : Int]
  BY CreatedIsBlock DEF Span
<1> QED
  BY <1>1, <1>2 DEF StateOf, StateRecords

ValidRecords == {s \in StateRecords : IsValidRange(s.full)}

LEMMA StatesAreKept ==
    ASSUME RowsKnown, latest \in Nat
    PROVE  States = KeptIn([i \in 1 .. Cardinality(Products) |-> StateOf(ObjSeq[i])], ValidRecords)
<1> DEFINE n == Cardinality(Products)
           all == [i \in 1 .. n |-> StateOf(ObjSeq[i])]
           first == [i \in 1 .. n |-> IF IsValidRange(all[i].full) THEN <<all[i]>> ELSE <<>>]
           second == [i \in 1 .. n |-> IF all[i] \in ValidRecords THEN <<all[i]>> ELSE <<>>]
<1>1. n \in Nat /\ DOMAIN ObjSeq = 1 .. n /\ \A i \in 1 .. n : ObjSeq[i] \in Products
  BY ObjSeqElements
<1> HIDE DEF n
<1>2. \A i \in 1 .. n : all[i] = StateOf(ObjSeq[i]) /\ all[i] \in StateRecords
  BY <1>1, StateOfIsRecord
<1>3. all = [i \in DOMAIN ObjSeq |-> StateOf(ObjSeq[i])]
  BY <1>1
<1>4. States = Keep(all, LAMBDA s : IsValidRange(s.full))
  BY <1>3 DEF States, StateOf
<1>5. DOMAIN all = 1 .. n
  OBVIOUS
<1> HIDE DEF all
<1>6. States = FlattenSeq(first)
  BY <1>4, <1>5 DEF Keep
<1>7. KeptIn(all, ValidRecords) = FlattenSeq(second)
  BY <1>5 DEF KeptIn
<1>8. first = second
  BY <1>2 DEF ValidRecords
<1> QED
  BY <1>6, <1>7, <1>8 DEF all, n

(* What was never covered is fresh, what failed is to be retried. *)
LEMMA StatesAreWanted ==
    ASSUME RowsKnown, latest \in Nat,
           NEW fresh, \A p \in Products : Fresh[p] \subseteq fresh[p],
           NEW retry, \A p \in Products : Retries[p] \subseteq retry[p]
    PROVE  States \in Seq(StatesOf(fresh, retry))
<1> DEFINE n == Cardinality(Products)
           all == [i \in 1 .. n |-> StateOf(ObjSeq[i])]
<1>1. n \in Nat /\ \A i \in 1 .. n : ObjSeq[i] \in Products
  BY ObjSeqElements
<1>2. States = KeptIn(all, ValidRecords)
  BY StatesAreKept
<1> HIDE DEF n
<1>3. DOMAIN all = 1 .. n /\ \A i \in 1 .. n : all[i] = StateOf(ObjSeq[i]) /\ all[i] \in StateRecords
  BY <1>1, StateOfIsRecord
<1>4. all \in Seq(StateRecords)
  BY <1>1, <1>3
<1> HIDE DEF all
<1>5. /\ States \in Seq(StateRecords)
      /\ \A x : x \in ToSet(States) <=> x \in ToSet(all) /\ x \in ValidRecords
  BY <1>2, <1>4, KeptElements
<1>6. \A s \in ToSet(States) : s \in StatesOf(fresh, retry)
  <2> SUFFICES ASSUME NEW s \in ToSet(States) PROVE s \in StatesOf(fresh, retry)
    OBVIOUS
  <2>1. s \in ValidRecords /\ s \in ToSet(all)
    BY <1>5
  <2>2. PICK p \in Products : s = StateOf(p)
    BY <1>1, <1>3, <2>1 DEF ToSet
  <2>3. /\ s.obj = p /\ s.full = Span(Created[p], latest)
        /\ s.covered = rows[p].covered /\ s.toRetry = rows[p].toRetry
    BY <2>2 DEF StateOf
  <2>4. s \in StateRecords /\ IsValidRange(s.full)
    BY <2>1 DEF ValidRecords
  <2>5. /\ s = [obj |-> s.obj, full |-> s.full, covered |-> s.covered, toRetry |-> s.toRetry]
        /\ s.full \in [from : Int, to : Int]
        /\ s.covered \in Seq(ValidRanges) /\ s.toRetry \in Seq(ValidRanges)
    BY <2>4 DEF StateRecords
  <2>6. s.full \in ValidRanges /\ s.full.from .. s.full.to = Life[p]
    BY <2>3, <2>4, <2>5 DEF ValidRanges, IsValidRange, Span, Life
  <2>7. s \in [obj : Products, full : ValidRanges,
               covered : Seq(ValidRanges), toRetry : Seq(ValidRanges)]
    BY <2>3, <2>5, <2>6
  <2>8. Apart(s.toRetry)
    BY <2>3, MergedIsApart DEF RowsKnown, IsRow
  <2>9. (s.full.from .. s.full.to) \ (Points(s.covered) \cup Points(s.toRetry)) \subseteq fresh[p]
    BY <2>3, <2>6 DEF Fresh
  <2>10. Points(s.toRetry) \subseteq retry[p]
    BY <2>3 DEF Retries
  <2> QED
    BY <2>3, <2>7, <2>8, <2>9, <2>10 DEF StatesOf
<1> QED
  BY <1>5, <1>6, SeqOfElements

LEMMA WantedOfRows ==
    \A p \in Products : Fresh[p] \subseteq Want[p] /\ Retries[p] \subseteq Want[p]
  BY DEF Fresh, Retries, Want

LEMMA StatesWanted ==
    ASSUME RowsKnown, latest \in Nat
    PROVE  States \in Seq(StatesOf(Want, Want))
<1>1. /\ \A p \in Products : Fresh[p] \subseteq Want[p]
      /\ \A p \in Products : Retries[p] \subseteq Want[p]
  BY WantedOfRows
<1> QED
  BY <1>1, StatesAreWanted

(* One state per product; what failed is not fresh. *)
LEMMA StatesApart ==
    ASSUME RowsKnown, latest \in Nat
    PROVE  /\ States \in Seq(StatesOf(Fresh, Retries))
           /\ DistinctObjs(States) /\ DisjointWants(Fresh, Retries)
<1> DEFINE n == Cardinality(Products)
           all == [i \in 1 .. n |-> StateOf(ObjSeq[i])]
<1>1. /\ n \in Nat /\ \A i \in 1 .. n : ObjSeq[i] \in Products
      /\ \A i, j \in 1 .. n : ObjSeq[i] = ObjSeq[j] => i = j
  BY ObjSeqElements
<1>2. States = KeptIn(all, ValidRecords)
  BY StatesAreKept
<1> HIDE DEF n
<1>3. \A i \in 1 .. n : StateOf(ObjSeq[i]) \in StateRecords /\ StateOf(ObjSeq[i]).obj = ObjSeq[i]
  BY <1>1, StateOfIsRecord DEF StateOf
<1>4. all \in Seq(StateRecords) /\ DOMAIN all = 1 .. n
      /\ \A i \in 1 .. n : all[i].obj = ObjSeq[i]
  BY <1>1, <1>3
<1> HIDE DEF all
<1>5. DistinctObjs(all)
  BY <1>1, <1>4 DEF DistinctObjs
<1>6. DistinctObjs(States)
  BY <1>2, <1>4, <1>5, KeptSelects, SelectedDistinct
<1>7. DisjointWants(Fresh, Retries)
  BY DEF DisjointWants, Fresh, Retries
<1>8. States \in Seq(StatesOf(Fresh, Retries))
  BY StatesAreWanted
<1> QED
  BY <1>6, <1>7, <1>8

LEMMA InvestmentsPlanned ==
    ASSUME RowsKnown, latest \in Nat, NEW luck \in Lucks
    PROVE  /\ PlanInvestments(luck) \in Seq(Queries(Want, MaxSpan))
           /\ Once(PlanInvestments(luck))
<1> DEFINE steps == Steps(States, Options)
           n == Len(States)
           fresh == [i \in 1 .. n |-> FreshPart(States[i])]
           retry == [i \in 1 .. n |-> RetryPart(States[i])]
           close == (MaxSpan + 1) \div 2
           indices == [s \in DOMAIN steps |-> IndexFromState(steps[s], close, MaxSpan)]
<1>1. PlanInvestments(luck) = OptimizeQueries(States, luck, Options, indices)
  BY DEF PlanInvestments
<1>2. States \in Seq(StatesOf(Want, Want))
  BY StatesWanted
<1>3. n \in Nat /\ DOMAIN States = 1 .. n /\ \A i \in 1 .. n : States[i] \in StatesOf(Want, Want)
  BY <1>2
<1>4. steps = <<fresh, retry>>
  BY <1>3, StepsOf
<1> HIDE DEF n, steps
<1>5. \A i \in 1 .. n : FreshPart(States[i]) \in Parts(Want) /\ RetryPart(States[i]) \in Parts(Want)
  BY <1>3, StatePartsAreWanted
<1>6. fresh \in Seq(Parts(Want)) /\ retry \in Seq(Parts(Want))
  BY <1>3, <1>5
<1> HIDE DEF fresh, retry
<1>7. MaxSpan \in Nat \ {0} /\ Limits
  BY LimitsAreNumbers, Parameters
<1>8. close \in Nat
  BY <1>7
<1> HIDE DEF close
<1>9. /\ indices[1] = IndexFromState(fresh, close, MaxSpan)
      /\ indices[2] = IndexFromState(retry, close, MaxSpan)
  BY <1>4
<1> HIDE DEF indices
<1>13. IsIndex(indices[1], MaxSpan) /\ IsIndex(indices[2], MaxSpan)
  BY <1>6, <1>7, <1>8, <1>9, IndexFromStateIsIndex
<1>10. indices[1] \in Seq(ShortRanges(MaxSpan)) /\ indices[2] \in Seq(ShortRanges(MaxSpan))
  BY <1>13 DEF IsIndex
<1>11. luck \in [Products -> Int]
  BY LucksAreNumbers
<1>12. OptimizeQueries(States, luck, Options, indices) \in Seq(Queries(Want, MaxSpan))
  BY <1>2, <1>7, <1>10, <1>11, OptimizedQueries
<1>14. Once(OptimizeQueries(States, luck, Options, indices))
  BY <1>7, <1>11, <1>13, StatesApart, OptimizedOnce
<1> QED
  BY <1>1, <1>12, <1>14

LEMMA SnapshotsPlanned ==
    ASSUME RowsKnown, latest \in Nat, NEW luck \in Lucks, NEW known \in Int,
           NEW sliceSize \in Nat \ {0}, NEW span \in Int, sliceSize <= span, MaxSpan <= span
    PROVE  /\ PlanSnapshots(luck, known, sliceSize) \in Seq(Queries(Want, span))
           /\ Once(PlanSnapshots(luck, known, sliceSize))
<1> DEFINE list == BlockList(known)
           first == IF list = <<>> THEN FirstCreated ELSE Min({FirstCreated, list[1]})
           index == IndexFromBlockList(list, latest, first, sliceSize)
           indices == [s \in {1, 2} |-> index]
<1>1. PlanSnapshots(luck, known, sliceSize) = OptimizeQueries(States, luck, Options, indices)
  BY DEF PlanSnapshots
<1>2. list \in Seq(Int) /\ Increasing(list)
  BY BlockListIncreases
<1> HIDE DEF list
<1>3. first \in Int
  <2>1. FirstCreated \in Int
    BY FirstCreatedIsBlock
  <2>2. CASE list = <<>>
    BY <2>1, <2>2
  <2>3. CASE list # <<>>
    <3>1. list[1] \in Int
      BY <1>2, <2>3
    <3> QED
      BY <2>1, <2>3, <3>1, MinOfTwo
  <2> QED
    BY <2>2, <2>3
<1> HIDE DEF first
<1>4. index \in Seq(ShortRanges(sliceSize)) /\ Apart(index)
  BY <1>2, <1>3, IndexFromBlockListIsIndex DEF IsIndex
<1> HIDE DEF index
<1>5. ShortRanges(sliceSize) \subseteq ShortRanges(span)
  <2> SUFFICES ASSUME NEW r \in ShortRanges(sliceSize) PROVE r \in ShortRanges(span)
    OBVIOUS
  <2>1. r \in ValidRanges /\ r.to - r.from < sliceSize
    BY DEF ShortRanges
  <2>2. r.to - r.from \in Int
    BY <2>1, ValidRange
  <2> QED
    BY <2>1, <2>2 DEF ShortRanges
<1>6. /\ indices[1] \in Seq(ShortRanges(span)) /\ indices[2] \in Seq(ShortRanges(span))
      /\ IsIndex(indices[1], span) /\ IsIndex(indices[2], span)
  <2>1. index \in Seq(ShortRanges(span))
    BY <1>4, <1>5, SeqOfSmaller
  <2>2. indices[1] = index /\ indices[2] = index
    OBVIOUS
  <2> QED
    BY <1>4, <2>1, <2>2 DEF IsIndex
<1> HIDE DEF indices
<1>7. OptimizeQueries(States, luck, Options, indices) \in Seq(Queries(Want, span))
  BY <1>6, StatesWanted, LucksAreNumbers, Parameters, OptimizedQueries
<1>8. Once(OptimizeQueries(States, luck, Options, indices))
  BY <1>6, StatesApart, LucksAreNumbers, Parameters, OptimizedOnce
<1> QED
  BY <1>1, <1>7, <1>8

PricesOf(s) ==
    LET ranges == RestrictRangesWithImportState(s.full, s.covered, s.toRetry,
                                                FALSE, MaxSpan, MaxQueries)
    IN  [j \in DOMAIN ranges |-> SingleQuery(PriceMethod, s.obj, ranges[j])]

LEMMA PricesOfState ==
    ASSUME NEW want, NEW s \in StatesOf(want, want)
    PROVE  PricesOf(s) \in Seq(Queries(want, MaxSpan))
<1> DEFINE left == RangeSortedArrayExclude(<<s.full>>, s.covered \o s.toRetry)
           fresh == TakeNewestRanges(left, MaxSpan, MaxQueries)
           retry == TakeNewestRanges(s.toRetry, MaxSpan, MaxQueries - Len(fresh))
           ranges == fresh \o retry
           W == Within(want[s.obj], MaxSpan)
           n == Len(ranges)
           queries == [j \in 1 .. n |-> SingleQuery(PriceMethod, s.obj, ranges[j])]
<1>1. /\ s.obj \in Products /\ s.full \in ValidRanges
      /\ s.covered \in Seq(ValidRanges) /\ s.toRetry \in Seq(ValidRanges)
      /\ Apart(s.toRetry)
      /\ (s.full.from .. s.full.to) \ (Points(s.covered) \cup Points(s.toRetry))
            \subseteq want[s.obj]
      /\ Points(s.toRetry) \subseteq want[s.obj]
  BY DEF StatesOf
<1>2. left \in Seq(ValidRanges) /\ Apart(left) /\ Points(left) \subseteq want[s.obj]
  <2>1. /\ s.covered \o s.toRetry \in Seq(ValidRanges)
        /\ Points(s.covered \o s.toRetry) = Points(s.covered) \cup Points(s.toRetry)
    BY <1>1, ConcatPoints
  <2>2. <<s.full>> \in Seq(ValidRanges)
    BY <1>1
  <2>3. \A x : x \in Points(<<s.full>>) <=> x \in s.full.from .. s.full.to
    BY PointsOfOne
  <2>4. /\ left \in Seq(ValidRanges) /\ Apart(left)
        /\ Points(left) = Points(<<s.full>>) \ Points(s.covered \o s.toRetry)
    BY <2>1, <2>2, SortedExclude
  <2> HIDE DEF left
  <2> QED
    BY <1>1, <2>1, <2>3, <2>4
<1> HIDE DEF left
<1>3. MaxSpan \in Nat \ {0} /\ MaxQueries \in Int
  BY LimitsAreNumbers
<1>4. fresh \in Seq(W)
  <2>1. fresh \in Seq(Within(Points(left), MaxSpan))
    BY <1>2, <1>3, TakeNewestWithin
  <2> HIDE DEF fresh
  <2> QED
    BY <1>2, <2>1, WithinSmaller, SeqOfSmaller
<1> HIDE DEF fresh
<1>5. MaxQueries - Len(fresh) \in Int
  BY <1>3, <1>4
<1>6. retry \in Seq(W)
  <2>1. retry \in Seq(Within(Points(s.toRetry), MaxSpan))
    BY <1>1, <1>3, <1>5, TakeNewestWithin
  <2> HIDE DEF retry
  <2> QED
    BY <1>1, <2>1, WithinSmaller, SeqOfSmaller
<1> HIDE DEF retry, W
<1>7. ranges \in Seq(W)
  BY <1>4, <1>6
<1>8. PricesOf(s) = [j \in DOMAIN ranges |-> SingleQuery(PriceMethod, s.obj, ranges[j])]
  BY DEF PricesOf, RestrictRangesWithImportState, left, fresh, retry
<1> HIDE DEF ranges
<1>9. n \in Nat /\ DOMAIN ranges = 1 .. n /\ \A j \in 1 .. n : ranges[j] \in W
  BY <1>7
<1> HIDE DEF n
<1>10. \A j \in 1 .. n : SingleQuery(PriceMethod, s.obj, ranges[j]) \in Queries(want, MaxSpan)
  <2> SUFFICES ASSUME NEW j \in 1 .. n
               PROVE  SingleQuery(PriceMethod, s.obj, ranges[j]) \in Queries(want, MaxSpan)
    OBVIOUS
  <2>1. ranges[j] \in Within(want[s.obj], MaxSpan)
    BY <1>9 DEF W
  <2>2. PriceMethod \in Methods /\ MaxAddresses \in Nat \ {0}
    BY MethodsOfQueries, LimitsAreNumbers
  <2> QED
    BY <1>1, <1>3, <2>1, <2>2, SingleQueryIsQuery
<1>11. queries \in Seq(Queries(want, MaxSpan))
  <2> DEFINE Q == Queries(want, MaxSpan)
  <2>1. queries \in [1 .. n -> Q]
    BY <1>10
  <2> HIDE DEF queries, Q
  <2>2. queries \in Seq(Q)
    BY <1>9, <2>1
  <2> QED
    BY <2>2 DEF Q
<1> QED
  BY <1>8, <1>9, <1>11

LEMMA PointsOfWithin ==
    ASSUME NEW S, NEW span, NEW ranges \in Seq(Within(S, span))
    PROVE  ranges \in Seq(ValidRanges) /\ \A x : x \in Points(ranges) => x \in S
<1>1. DOMAIN ranges = 1 .. Len(ranges) /\ \A i \in DOMAIN ranges : ranges[i] \in Within(S, span)
  OBVIOUS
<1>2. \A r \in Within(S, span) : r \in ValidRanges /\ r.from .. r.to \subseteq S
  BY DEF Within
<1>3. Within(S, span) \subseteq ValidRanges
  BY <1>2
<1>4. ranges \in Seq(ValidRanges)
  BY <1>3, SeqOfSmaller
<1> QED
  BY <1>1, <1>2, <1>4, PointsOf

(* The new ranges of a feed, then what room is left for those to retry. *)
LEMMA PricesOnce ==
    ASSUME NEW fresh, NEW retry, NEW s \in StatesOf(fresh, retry)
    PROVE  Once(PricesOf(s))
<1> DEFINE excluded == s.covered \o s.toRetry
           left == RangeSortedArrayExclude(<<s.full>>, excluded)
           new == TakeNewestRanges(left, MaxSpan, MaxQueries)
           old == TakeNewestRanges(s.toRetry, MaxSpan, MaxQueries - Len(new))
           ranges == new \o old
<1>1. /\ s.full \in ValidRanges /\ s.covered \in Seq(ValidRanges)
      /\ s.toRetry \in Seq(ValidRanges) /\ Apart(s.toRetry)
  BY DEF StatesOf
<1>2. excluded \in Seq(ValidRanges) /\ Points(excluded) = Points(s.covered) \cup Points(s.toRetry)
  BY <1>1, ConcatPoints
<1>3. <<s.full>> \in Seq(ValidRanges)
  BY <1>1
<1> HIDE DEF excluded
<1>4. /\ left \in Seq(ValidRanges) /\ Apart(left)
      /\ Points(left) = Points(<<s.full>>) \ Points(excluded)
  BY <1>2, <1>3, SortedExclude
<1>5. MaxSpan \in Nat \ {0} /\ MaxQueries \in Int
  BY LimitsAreNumbers
<1>6. PricesOf(s) = [j \in DOMAIN ranges |-> SingleQuery(PriceMethod, s.obj, ranges[j])]
  BY DEF PricesOf, RestrictRangesWithImportState, excluded
<1> HIDE DEF left
<1>7. new \in Seq(Within(Points(left), MaxSpan)) /\ Apart(new)
  BY <1>4, <1>5, TakeNewestWithin
<1> HIDE DEF new
<1>8. new \in Seq(ValidRanges) /\ \A x : x \in Points(new) => x \in Points(left)
  BY <1>7, PointsOfWithin
<1>9. MaxQueries - Len(new) \in Int
  BY <1>5, <1>8
<1>10. old \in Seq(Within(Points(s.toRetry), MaxSpan)) /\ Apart(old)
  BY <1>1, <1>5, <1>9, TakeNewestWithin
<1> HIDE DEF old
<1>11. old \in Seq(ValidRanges) /\ \A x : x \in Points(old) => x \in Points(s.toRetry)
  BY <1>10, PointsOfWithin
<1>12. \A x : ~ (x \in Points(new) /\ x \in Points(old))
  BY <1>2, <1>4, <1>8, <1>11
<1>13. Apart(ranges)
  BY <1>7, <1>8, <1>10, <1>11, <1>12, ConcatApart
<1> HIDE DEF ranges
<1> QED
  BY <1>6, <1>13, SinglesOnce

LEMMA PricesPlannedOnce ==
    ASSUME RowsKnown, latest \in Nat
    PROVE  Once(PlanPrices)
<1> DEFINE n == Len(States)
           Q == Queries(Want, MaxSpan)
           seqs == [i \in 1 .. n |-> PricesOf(States[i])]
           wants == [i \in 1 .. n |-> Only(Want, {States[i].obj})]
<1>1. States \in Seq(StatesOf(Want, Want)) /\ DistinctObjs(States)
  BY StatesWanted, StatesApart
<1>2. n \in Nat /\ DOMAIN States = 1 .. n /\ \A i \in 1 .. n : States[i] \in StatesOf(Want, Want)
  BY <1>1
<1>3. PlanPrices = FlattenSeq(seqs)
  BY <1>2 DEF PlanPrices, PricesOf, SingleQuery, PriceMethod
<1> HIDE DEF n, Q
<1>4. \A i \in 1 .. n : PricesOf(States[i]) \in Seq(Q)
  BY <1>2, PricesOfState DEF Q
<1>5. seqs \in [1 .. n -> Seq(Q)] /\ \A i \in 1 .. n : seqs[i] = PricesOf(States[i])
  BY <1>4
<1> HIDE DEF seqs
<1>6. \A i \in 1 .. n : Once(seqs[i])
  BY <1>2, <1>5, PricesOnce
<1>7. ASSUME NEW i \in 1 .. n PROVE ServesAll(seqs[i], wants[i])
  <2> DEFINE s == States[i]
             want == Only(Want, {s.obj})
  <2>1. s \in StatesOf(Want, Want) /\ wants[i] = want /\ seqs[i] = PricesOf(s)
    BY <1>2, <1>5
  <2> HIDE DEF s
  <2>2. s.obj \in Products
    BY <2>1 DEF StatesOf
  <2>3. want[s.obj] = Want[s.obj]
    BY <2>2 DEF Only
  <2> HIDE DEF want
  <2>4. s \in StatesOf(want, want)
    BY <2>1, <2>3 DEF StatesOf
  <2>5. PricesOf(s) \in Seq(Queries(want, MaxSpan))
    BY <2>4, PricesOfState
  <2> QED
    BY <2>1, <2>5, QueriesServe
<1>8. ASSUME NEW i \in 1 .. n, NEW j \in 1 .. n, i # j
      PROVE  DisjointWants(wants[i], wants[j])
  <2>1. States[i].obj # States[j].obj
    BY <1>1, <1>2, <1>8 DEF DistinctObjs
  <2>2. \A o : ~ (o \in {States[i].obj} /\ o \in {States[j].obj})
    BY <2>1
  <2>3. wants[i] = Only(Want, {States[i].obj}) /\ wants[j] = Only(Want, {States[j].obj})
    OBVIOUS
  <2> QED
    BY <2>2, <2>3, OnlyDisjoint
<1> HIDE DEF wants
<1>9. Once(FlattenSeq(seqs))
  BY <1>2, <1>5, <1>6, <1>7, <1>8, OnceFlattens
<1> QED
  BY <1>3, <1>9

LEMMA PricesPlanned ==
    ASSUME RowsKnown, latest \in Nat
    PROVE  PlanPrices \in Seq(Queries(Want, MaxSpan))
<1> DEFINE n == Len(States)
           Q == Queries(Want, MaxSpan)
           seqs == [i \in 1 .. n |-> PricesOf(States[i])]
<1>1. States \in Seq(StatesOf(Want, Want))
  BY StatesWanted
<1>2. n \in Nat /\ DOMAIN States = 1 .. n /\ \A i \in 1 .. n : States[i] \in StatesOf(Want, Want)
  BY <1>1
<1>3. PlanPrices = FlattenSeq(seqs)
  BY <1>2 DEF PlanPrices, PricesOf, SingleQuery, PriceMethod
<1> HIDE DEF n, Q
<1>4. \A i \in 1 .. n : PricesOf(States[i]) \in Seq(Q)
  BY <1>2, PricesOfState DEF Q
<1>5. seqs \in [1 .. n -> Seq(Q)]
  BY <1>4
<1> HIDE DEF seqs
<1> QED
  BY <1>2, <1>3, <1>5, FlattenElements DEF Q

KnownBlocks == {Max({0, latest - 1}), latest}

LongestRange == IF importer = "statistics" THEN Max({MaxSpan, SnapshotBlocks}) ELSE MaxSpan

LEMMA LongestIsLong ==
    /\ LongestRange \in Nat \ {0} /\ MaxSpan <= LongestRange
    /\ importer = "statistics" => SnapshotBlocks <= LongestRange
<1>1. MaxSpan \in Nat \ {0} /\ SnapshotBlocks \in Nat \ {0}
  BY LimitsAreNumbers
<1>2. Max({MaxSpan, SnapshotBlocks}) = IF MaxSpan >= SnapshotBlocks THEN MaxSpan ELSE SnapshotBlocks
  BY <1>1, MaxOfTwo
<1> QED
  BY <1>1, <1>2 DEF LongestRange

PlansOne(next) ==
    \/ \E luck \in Lucks : next = PlanInvestments(luck)
    \/ \E luck \in Lucks, known \in KnownBlocks : next = PlanShareRates(luck, known)
    \/ /\ importer = "statistics"
       /\ \E luck \in Lucks, known \in KnownBlocks : next = PlanStatistics(luck, known)
    \/ next = PlanPrices

LEMMA PlanCases ==
    ASSUME Plan
    PROVE  /\ pc = "idle" /\ pc' = "running"
           /\ UNCHANGED <<importer, latest, rows, recent, faults>>
           /\ PlansOne(plan')
  BY ZenonT(20) DEF Plan, PlansOne, KnownBlocks

LEMMA KnownIsBlock == latest \in Nat => KnownBlocks \subseteq Int
<1> SUFFICES ASSUME latest \in Nat PROVE KnownBlocks \subseteq Int
  OBVIOUS
<1>1. Max({0, latest - 1}) = IF 0 >= latest - 1 THEN 0 ELSE latest - 1
  BY MaxOfTwo
<1> QED
  BY <1>1 DEF KnownBlocks

(* Whatever the importer, its plan is made of wanted ranges, once each. *)
LEMMA PlansAreWanted ==
    ASSUME RowsKnown, latest \in Nat, NEW next, PlansOne(next)
    PROVE  next \in Seq(Queries(Want, LongestRange)) /\ Once(next)
<1>1. LongestRange \in Int /\ MaxSpan \in Nat \ {0} /\ MaxSpan <= LongestRange
      /\ SnapshotBlocks \in Nat \ {0}
  BY LongestIsLong, LimitsAreNumbers
<1>2. Queries(Want, MaxSpan) \subseteq Queries(Want, LongestRange)
  BY <1>1, MoreQueries
<1>3. ASSUME NEW luck \in Lucks, next = PlanInvestments(luck)
      PROVE  next \in Seq(Queries(Want, LongestRange)) /\ Once(next)
  <2>1. PlanInvestments(luck) \in Seq(Queries(Want, MaxSpan)) /\ Once(PlanInvestments(luck))
    BY InvestmentsPlanned
  <2> QED
    BY <1>2, <1>3, <2>1, SeqOfSmaller
<1>4. ASSUME NEW luck \in Lucks, NEW known \in KnownBlocks, next = PlanShareRates(luck, known)
      PROVE  next \in Seq(Queries(Want, LongestRange)) /\ Once(next)
  <2> DEFINE size == Min({SnapshotBlocks, MaxSpan})
  <2>1. size = IF SnapshotBlocks <= MaxSpan THEN SnapshotBlocks ELSE MaxSpan
    BY <1>1, MinOfTwo
  <2>2. next = PlanSnapshots(luck, known, size)
    BY <1>4 DEF PlanShareRates
  <2> HIDE DEF size
  <2>3. size \in Nat \ {0} /\ size <= LongestRange
    BY <1>1, <2>1
  <2>4. known \in Int
    BY KnownIsBlock
  <2> QED
    BY <1>1, <2>2, <2>3, <2>4, SnapshotsPlanned
<1>5. ASSUME importer = "statistics", NEW luck \in Lucks, NEW known \in KnownBlocks,
             next = PlanStatistics(luck, known)
      PROVE  next \in Seq(Queries(Want, LongestRange)) /\ Once(next)
  <2>1. next = PlanSnapshots(luck, known, SnapshotBlocks)
    BY <1>5 DEF PlanStatistics
  <2>2. SnapshotBlocks <= LongestRange
    BY <1>5, LongestIsLong
  <2>3. known \in Int
    BY KnownIsBlock
  <2> QED
    BY <1>1, <2>1, <2>2, <2>3, SnapshotsPlanned
<1>6. ASSUME next = PlanPrices
      PROVE  next \in Seq(Queries(Want, LongestRange)) /\ Once(next)
  <2>1. PlanPrices \in Seq(Queries(Want, MaxSpan)) /\ Once(PlanPrices)
    BY PricesPlanned, PricesPlannedOnce
  <2> QED
    BY <1>2, <1>6, <2>1, SeqOfSmaller
<1> QED
  BY <1>3, <1>4, <1>5, <1>6 DEF PlansOne

LEMMA QueriesGrow ==
    ASSUME NEW want, NEW other, \A p \in Products : want[p] \subseteq other[p], NEW span
    PROVE  Queries(want, span) \subseteq Queries(other, span)
<1> SUFFICES ASSUME NEW q \in Queries(want, span) PROVE q \in Queries(other, span)
  OBVIOUS
<1>1. /\ q \in QueryRecords
      /\ Cardinality(q.objs) <= MaxAddresses
      /\ q.range.to - q.range.from < span
      /\ \E o \in q.objs : q.range.to \in want[o]
      /\ \A a \in ObjsAndRanges(q) :
            a.obj \in Products /\ a.range \in Within(want[a.obj], span)
  BY DEF Queries
<1>2. q.objs \subseteq Products
  BY <1>1 DEF QueryRecords
<1>3. \A a \in ObjsAndRanges(q) : a.obj \in Products /\ a.range \in Within(other[a.obj], span)
  BY <1>1, WithinSmaller
<1>4. \E o \in q.objs : q.range.to \in other[o]
  BY <1>1, <1>2
<1> QED
  BY <1>1, <1>3, <1>4 DEF Queries

LEMMA FiniteRanges ==
    ASSUME NEW n \in Int
    PROVE  IsFiniteSet([from : 0 .. n, to : 0 .. n])
<1> DEFINE S == 0 .. n
           T == [from : S, to : S]
           f == [ab \in S \X S |-> [from |-> ab[1], to |-> ab[2]]]
<1>1. IsFiniteSet(S)
  BY FS_Interval
<1> HIDE DEF S
<1>2. IsFiniteSet(S \X S)
  BY <1>1, FS_Product
<1>3. \A r \in T : r.from \in S /\ r.to \in S /\ r = [from |-> r.from, to |-> r.to]
  OBVIOUS
<1>4. \A ab \in S \X S : f[ab] \in T
  OBVIOUS
<1>5. \A r \in T : \E ab \in S \X S : f[ab] = r
  <2> SUFFICES ASSUME NEW r \in T PROVE \E ab \in S \X S : f[ab] = r
    OBVIOUS
  <2>1. <<r.from, r.to>> \in S \X S
    BY <1>3
  <2>2. f[<<r.from, r.to>>] = r
    BY <1>3, <2>1
  <2> QED
    BY <2>1, <2>2
<1>6. f \in [S \X S -> T]
  BY <1>4
<1> HIDE DEF f, T
<1>7. f \in Surjection(S \X S, T)
  BY <1>5, <1>6 DEF Surjection
<1>8. IsFiniteSet(T)
  BY <1>2, <1>7, FS_Surjection
<1> QED
  BY <1>8 DEF T, S

(* What some queries of a plan are made for, of one product. *)
LEMMA ClaimsOfQueries ==
    ASSUME latest \in 0 .. MaxBlock, NEW span, NEW p \in Products,
           NEW queries \in SUBSET Queries(Life, span)
    PROVE  /\ RangesOf(p, queries) \in SUBSET ValidRanges
           /\ IsFiniteSet(RangesOf(p, queries))
           /\ SetPoints(RangesOf(p, queries)) \subseteq Life[p]
<1> DEFINE R == RangesOf(p, queries)
           B == [from : 0 .. MaxBlock, to : 0 .. MaxBlock]
<1>1. \A r \in R : r \in Within(Life[p], span)
  <2> SUFFICES ASSUME NEW r \in R PROVE r \in Within(Life[p], span)
    OBVIOUS
  <2>1. PICK q \in queries : \E a \in ObjsAndRanges(q) : a.obj = p /\ a.range = r
    BY DEF RangesOf
  <2>2. q \in Queries(Life, span)
    OBVIOUS
  <2>3. \A a \in ObjsAndRanges(q) : a.range \in Within(Life[a.obj], span)
    BY <2>2 DEF Queries
  <2> QED
    BY <2>1, <2>3
<1> HIDE DEF R
<1>2. \A r \in R : r \in ValidRanges /\ r.from .. r.to \subseteq Life[p]
  BY <1>1 DEF Within
<1>3. MaxBlock \in Nat /\ Created[p] \in Nat /\ latest \in Nat /\ latest <= MaxBlock
  BY Parameters, CreatedIsBlock
<1>4. \A r \in R : r \in B
  <2> SUFFICES ASSUME NEW r \in R PROVE r \in B
    OBVIOUS
  <2>1. r \in ValidRanges /\ r.from .. r.to \subseteq Created[p] .. latest
    BY <1>2 DEF Life
  <2>2. r.from \in Int /\ r.to \in Int /\ r.from <= r.to /\ r = Span(r.from, r.to)
    BY <2>1, ValidRange
  <2>3. r.from \in Created[p] .. latest /\ r.to \in Created[p] .. latest
    BY <2>1, <2>2
  <2>4. r.from \in 0 .. MaxBlock /\ r.to \in 0 .. MaxBlock
    BY <1>3, <2>3
  <2> QED
    BY <2>2, <2>4 DEF Span
<1>5. IsFiniteSet(R)
  <2>1. IsFiniteSet(B)
    BY <1>3, FiniteRanges
  <2> HIDE DEF B
  <2>2. R \subseteq B
    BY <1>4
  <2> QED
    BY <2>1, <2>2, FS_Subset
<1>6. SetPoints(R) \subseteq Life[p]
  BY <1>2 DEF SetPoints
<1> QED
  BY <1>2, <1>5, <1>6 DEF R

-----------------------------------------------------------------------------
(***************************************************************************)
(* The inductive invariant: the rows are merged lists of blocks that the   *)
(* products have lived, and what a run in progress queries are such        *)
(* blocks, none of them twice.                                             *)
(***************************************************************************)
PlanningInv ==
    /\ latest \in 0 .. MaxBlock
    /\ RowsKnown
    /\ plan \in Seq(Queries(Life, LongestRange))
    /\ Once(plan)
    /\ pc = "idle" => plan = <<>>

LEMMA OnceOfNone == Once(<<>>)
  BY DEF Once

LEMMA PlanningInit == Init => PlanningInv
<1> SUFFICES ASSUME Init PROVE PlanningInv
  OBVIOUS
<1>1. /\ latest = 0 /\ plan = <<>>
      /\ rows = [p \in Products |-> [covered |-> <<>>, toRetry |-> <<>>]]
  BY DEF Init
<1>2. latest \in 0 .. MaxBlock
  BY <1>1, Parameters
<1>3. \A p \in Products : rows[p].covered = <<>> /\ rows[p].toRetry = <<>>
  BY <1>1
<1>4. <<>> \in Seq(ValidRanges) /\ IsMerged(<<>>)
  <2>1. <<>> \in Seq(ValidRanges) /\ DOMAIN <<>> = {} /\ 1 .. Len(<<>>) - 1 = {}
    OBVIOUS
  <2> QED
    BY <2>1 DEF IsMerged
<1>5. RowsKnown
  BY <1>1, <1>3, <1>4, PointsOfNone DEF RowsKnown, IsRow
<1>6. plan \in Seq(Queries(Life, LongestRange))
  BY <1>1
<1> QED
  BY <1>1, <1>2, <1>5, <1>6, OnceOfNone DEF PlanningInv

(* The results of some queries of the run are recorded in all rows. *)
LEMMA RecordUpdates ==
    ASSUME PlanningInv, NEW done \in SUBSET ToSet(plan), NEW failed \in SUBSET done,
           RecordResults(done, failed), NEW p \in Products
    PROVE  /\ DOMAIN rows' = Products
           /\ Updates(rows'[p], rows[p], RangesOf(p, done), RangesOf(p, failed))
           /\ SetPoints(RangesOf(p, done)) \subseteq Life[p]
           /\ RangesOf(p, failed) \subseteq RangesOf(p, done)
<1>1. ToSet(plan) \subseteq Queries(Life, LongestRange)
  BY DEF PlanningInv, ToSet
<1>2. done \in SUBSET Queries(Life, LongestRange) /\ failed \in SUBSET Queries(Life, LongestRange)
  BY <1>1
<1>3. latest \in 0 .. MaxBlock
  BY DEF PlanningInv
<1>4. /\ RangesOf(p, done) \in SUBSET ValidRanges /\ IsFiniteSet(RangesOf(p, done))
      /\ SetPoints(RangesOf(p, done)) \subseteq Life[p]
  BY <1>2, <1>3, ClaimsOfQueries
<1>5. RangesOf(p, failed) \in SUBSET ValidRanges /\ IsFiniteSet(RangesOf(p, failed))
  BY <1>2, <1>3, ClaimsOfQueries
<1>6. rows' = [q \in Products |->
                 MergeImportState(rows[q], RangesOf(q, done), RangesOf(q, failed))]
  BY DEF RecordResults
<1>7. rows'[p] = MergeImportState(rows[p], RangesOf(p, done), RangesOf(p, failed))
      /\ DOMAIN rows' = Products
  BY <1>6
<1>8. IsRow(rows[p])
  BY DEF PlanningInv, RowsKnown
<1>9. RangesOf(p, failed) \subseteq RangesOf(p, done)
  BY DEF RangesOf
<1> QED
  BY <1>4, <1>5, <1>7, <1>8, <1>9, MergeImportStateUpdates

LEMMA SmallerPoints ==
    ASSUME NEW S, NEW T \in SUBSET S
    PROVE  SetPoints(T) \subseteq SetPoints(S)
  BY DEF SetPoints

LEMMA RecordKnown ==
    ASSUME PlanningInv, NEW done \in SUBSET ToSet(plan), NEW failed \in SUBSET done,
           RecordResults(done, failed)
    PROVE  PlanningInv'
<1>1. latest' = latest /\ importer' = importer /\ plan' = <<>>
  BY DEF RecordResults
<1>2. Life' = Life
  BY <1>1 DEF Life
<1>3. ASSUME NEW p \in Products
      PROVE  /\ IsRow(rows'[p])
             /\ Points(rows'[p].covered) \subseteq Life[p]
             /\ Points(rows'[p].toRetry) \subseteq Life[p]
  <2>1. /\ Updates(rows'[p], rows[p], RangesOf(p, done), RangesOf(p, failed))
        /\ SetPoints(RangesOf(p, done)) \subseteq Life[p]
        /\ RangesOf(p, failed) \subseteq RangesOf(p, done)
    BY RecordUpdates
  <2>2. Points(rows[p].covered) \subseteq Life[p] /\ Points(rows[p].toRetry) \subseteq Life[p]
    BY DEF PlanningInv, RowsKnown
  <2>3. SetPoints(RangesOf(p, failed)) \subseteq Life[p]
    BY <2>1, SmallerPoints
  <2> QED
    BY <2>1, <2>2, <2>3 DEF Updates
<1>4. DOMAIN rows' = Products
  BY RecordUpdates, Parameters
<1>5. RowsKnown'
  BY <1>2, <1>3, <1>4 DEF RowsKnown
<1>6. plan' \in Seq(Queries(Life', LongestRange'))
  BY <1>1
<1> QED
  BY <1>1, <1>5, <1>6, OnceOfNone DEF PlanningInv

LEMMA RecentWindow ==
    ASSUME PlanningInv, NEW p \in Products, Created[p] <= latest
    PROVE  LET window == Span(Max({Created[p], latest - RecentSpan + 1}), latest)
           IN  window \in ValidRanges /\ window.from .. window.to \subseteq Life[p]
<1> DEFINE from == Max({Created[p], latest - RecentSpan + 1})
           window == Span(from, latest)
<1>1. MaxSpan \in Nat /\ RecentSpan \in 1 .. MaxSpan /\ Created[p] \in Nat /\ latest \in Nat
  BY Parameters, LimitsAreNumbers, CreatedIsBlock DEF PlanningInv
<1>2. from = IF Created[p] >= latest - RecentSpan + 1 THEN Created[p] ELSE latest - RecentSpan + 1
  BY <1>1, MaxOfTwo
<1> HIDE DEF from
<1>3. from \in Int /\ from <= latest /\ Created[p] <= from
  BY <1>1, <1>2
<1>4. window.from = from /\ window.to = latest /\ window \in ValidRanges
  BY <1>1, <1>3, SpanIsValid
<1>5. from .. latest \subseteq Created[p] .. latest
  BY <1>1, <1>3
<1> QED
  BY <1>4, <1>5 DEF Life, from

(* The recent importer writes a window of the life of one product. *)
RecentUpdate(p, window, failed) ==
    /\ window.from .. window.to \subseteq Life[p]
    /\ window.from \in Life[p] /\ window.to \in Life[p]
    /\ failed \in {{}, {window}}
    /\ DOMAIN rows' = Products
    /\ Updates(rows'[p], rows[p], {window}, failed)
    /\ \A q \in Products : q # p => rows'[q] = rows[q]

LEMMA RecentUpdates ==
    ASSUME PlanningInv, NEW p \in Products, RecordRecent(p)
    PROVE  \E window \in ValidRanges : \E failed \in SUBSET {window} :
              RecentUpdate(p, window, failed)
<1> DEFINE window == Span(Max({Created[p], latest - RecentSpan + 1}), latest)
<1>1. Created[p] <= latest
  BY DEF RecordRecent
<1>2. window \in ValidRanges /\ window.from .. window.to \subseteq Life[p]
  BY <1>1, RecentWindow
<1>3. \/ rows' = [rows EXCEPT ![p] = MergeImportState(@, {window}, {})]
      \/ rows' = [rows EXCEPT ![p] = MergeImportState(@, {window}, {window})]
  BY DEF RecordRecent
<1> HIDE DEF window
<1>4. PICK failed \in SUBSET {window} :
        /\ failed \in {{}, {window}}
        /\ rows' = [rows EXCEPT ![p] = MergeImportState(@, {window}, failed)]
  BY <1>3
<1>5. DOMAIN rows = Products /\ IsRow(rows[p])
  BY DEF PlanningInv, RowsKnown
<1>6. /\ DOMAIN rows' = Products
      /\ rows'[p] = MergeImportState(rows[p], {window}, failed)
      /\ \A q \in Products : q # p => rows'[q] = rows[q]
  BY <1>4, <1>5
<1>7. /\ {window} \in SUBSET ValidRanges /\ IsFiniteSet({window})
      /\ failed \in SUBSET ValidRanges /\ IsFiniteSet(failed)
  <2>1. IsFiniteSet({window})
    BY FS_Singleton
  <2>2. IsFiniteSet(failed)
    BY <2>1, FS_Subset
  <2> QED
    BY <1>2, <2>1, <2>2
<1>8. Updates(rows'[p], rows[p], {window}, failed)
  BY <1>5, <1>6, <1>7, MergeImportStateUpdates
<1>9. window.from \in Life[p] /\ window.to \in Life[p]
  <2>1. window.from \in Int /\ window.to \in Int /\ window.from <= window.to
    BY <1>2, ValidRange
  <2>2. window.from \in window.from .. window.to /\ window.to \in window.from .. window.to
    BY <2>1
  <2> QED
    BY <1>2, <2>2
<1>10. RecentUpdate(p, window, failed)
  BY <1>2, <1>4, <1>6, <1>8, <1>9 DEF RecentUpdate
<1> QED
  BY <1>2, <1>10

LEMMA PointsOfSingle ==
    ASSUME NEW r
    PROVE  SetPoints({r}) = r.from .. r.to /\ SetPoints({}) = {}
  BY DEF SetPoints

LEMMA RecentKnown ==
    ASSUME PlanningInv, NEW p \in Products, RecordRecent(p)
    PROVE  PlanningInv'
<1>1. latest' = latest /\ importer' = importer /\ plan' = plan /\ pc' = pc
  BY DEF RecordRecent
<1>2. Life' = Life /\ LongestRange' = LongestRange
  BY <1>1 DEF Life, LongestRange
<1>3. PICK window \in ValidRanges : \E failed \in SUBSET {window} :
        RecentUpdate(p, window, failed)
  BY RecentUpdates
<1>4. PICK failed \in SUBSET {window} : RecentUpdate(p, window, failed)
  BY <1>3
<1>5. /\ window.from .. window.to \subseteq Life[p]
       /\ DOMAIN rows' = Products
       /\ Updates(rows'[p], rows[p], {window}, failed)
       /\ \A q \in Products : q # p => rows'[q] = rows[q]
  BY <1>4 DEF RecentUpdate
<1>6. SetPoints({window}) \subseteq Life[p] /\ SetPoints(failed) \subseteq Life[p]
  <2>1. SetPoints({window}) \subseteq Life[p]
    BY <1>5, PointsOfSingle
  <2>2. SetPoints(failed) \subseteq SetPoints({window})
    BY SmallerPoints
  <2> QED
    BY <2>1, <2>2
<1>7. \A q \in Products :
         /\ IsRow(rows[q])
         /\ Points(rows[q].covered) \subseteq Life[q]
         /\ Points(rows[q].toRetry) \subseteq Life[q]
  BY DEF PlanningInv, RowsKnown
<1>8. /\ IsRow(rows'[p])
      /\ Points(rows'[p].covered) \subseteq Life[p]
      /\ Points(rows'[p].toRetry) \subseteq Life[p]
  BY <1>6, <1>7, <1>5 DEF Updates
<1>9. \A q \in Products :
         /\ IsRow(rows'[q])
         /\ Points(rows'[q].covered) \subseteq Life[q]
         /\ Points(rows'[q].toRetry) \subseteq Life[q]
  BY <1>7, <1>8, <1>5
<1>10. RowsKnown'
  BY <1>2, <1>9, <1>5 DEF RowsKnown
<1> QED
  BY <1>1, <1>2, <1>10 DEF PlanningInv

LEMMA WantIsLife ==
    ASSUME RowsKnown
    PROVE  \A p \in Products : Want[p] \subseteq Life[p]
  BY DEF RowsKnown, Want

LEMMA PlanKnown ==
    ASSUME PlanningInv, Plan
    PROVE  PlanningInv'
<1>1. /\ latest' = latest /\ importer' = importer /\ rows' = rows /\ pc' = "running"
      /\ PlansOne(plan')
  BY PlanCases
<1>2. Life' = Life /\ LongestRange' = LongestRange /\ RowsKnown'
  BY <1>1 DEF Life, LongestRange, PlanningInv, RowsKnown
<1>3. RowsKnown /\ latest \in Nat
  BY Parameters DEF PlanningInv
<1>4. plan' \in Seq(Queries(Want, LongestRange)) /\ Once(plan')
  BY <1>1, <1>3, PlansAreWanted
<1>5. Queries(Want, LongestRange) \subseteq Queries(Life, LongestRange)
  BY <1>3, WantIsLife, QueriesGrow
<1>6. plan' \in Seq(Queries(Life, LongestRange))
  BY <1>4, <1>5, SeqOfSmaller
<1> QED
  BY <1>1, <1>2, <1>4, <1>6 DEF PlanningInv

LEMMA NewBlockKnown ==
    ASSUME PlanningInv, NewBlock
    PROVE  PlanningInv'
<1>1. /\ latest < MaxBlock /\ latest' = latest + 1
      /\ importer' = importer /\ rows' = rows /\ pc' = pc /\ plan' = plan
  BY DEF NewBlock
<1>2. latest \in 0 .. MaxBlock /\ MaxBlock \in Nat
  BY Parameters DEF PlanningInv
<1>3. latest' \in 0 .. MaxBlock
  BY <1>1, <1>2
<1>4. \A p \in Products : Life[p] \subseteq Life'[p]
  <2> SUFFICES ASSUME NEW p \in Products
               PROVE  Created[p] .. latest \subseteq Created[p] .. latest'
    BY DEF Life
  <2> QED
    BY <1>1, <1>2, CreatedIsBlock
<1>5. LongestRange' = LongestRange
  BY <1>1 DEF LongestRange
<1>6. RowsKnown'
  BY <1>1, <1>4 DEF PlanningInv, RowsKnown
<1>7. Queries(Life, LongestRange) \subseteq Queries(Life', LongestRange)
  BY <1>4, QueriesGrow
<1>8. plan' \in Seq(Queries(Life', LongestRange'))
  <2>1. plan \in Seq(Queries(Life, LongestRange))
    BY DEF PlanningInv
  <2>2. plan \in Seq(Queries(Life', LongestRange))
    BY <1>7, <2>1, SeqOfSmaller
  <2> QED
    BY <1>1, <1>5, <2>2
<1> QED
  BY <1>1, <1>3, <1>6, <1>8 DEF PlanningInv

LEMMA PlanningNext == PlanningInv /\ [Next]_vars => PlanningInv'
<1> SUFFICES ASSUME PlanningInv, [Next]_vars PROVE PlanningInv'
  OBVIOUS
<1>1. CASE NewBlock
  BY <1>1, NewBlockKnown
<1>2. CASE Plan
  BY <1>2, PlanKnown
<1>3. CASE Record
  <2>1. RecordResults(ToSet(plan), {})
    BY <1>3 DEF Record
  <2> QED
    BY <2>1, RecordKnown
<1>4. CASE RecordSome
  <2>1. PICK done \in SUBSET ToSet(plan) : \E failed \in SUBSET done : RecordResults(done, failed)
    BY <1>4 DEF RecordSome
  <2>2. PICK failed \in SUBSET done : RecordResults(done, failed)
    BY <2>1
  <2> QED
    BY <2>2, RecordKnown
<1>5. ASSUME NEW p \in Products, RecordRecent(p) PROVE PlanningInv'
  BY <1>5, RecentKnown
<1>6. CASE UNCHANGED vars
  BY <1>6 DEF vars, PlanningInv, RowsKnown, Life, LongestRange
<1> QED
  BY <1>1, <1>2, <1>3, <1>4, <1>5, <1>6 DEF Next

LEMMA PlanningInvariant == Spec => []PlanningInv
  BY PlanningInit, PlanningNext, PTL DEF Spec

(***************************************************************************)
(* The lists of covered ranges and of ranges to retry are in order, valid  *)
(* and apart in every reachable state (RowsMerged), for any products,      *)
(* limits, failures and interleaving with the recent importer.             *)
(***************************************************************************)
THEOREM RowsStayMerged == Spec => []RowsMerged
<1>1. PlanningInv => RowsMerged
  BY DEF PlanningInv, RowsKnown, IsRow, RowsMerged
<1> QED
  BY <1>1, PlanningInvariant, PTL

-----------------------------------------------------------------------------
LEMMA QueryIsWithin ==
    ASSUME PlanningInv, NEW q \in Queries(Life, LongestRange)
    PROVE  /\ RangeSize(q.range) \in 1 .. LongestRange
           /\ Cardinality(q.objs) <= MaxAddresses
           /\ q.range.to <= latest
           /\ \A a \in ObjsAndRanges(q) : a.range.from >= Created[a.obj]
<1>1. /\ q.range \in ValidRanges /\ q.range.to - q.range.from < LongestRange
      /\ Cardinality(q.objs) <= MaxAddresses /\ q.objs \subseteq Products
  BY DEF Queries, QueryRecords
<1>2. PICK o \in q.objs : q.range.to \in Life[o]
  BY DEF Queries
<1>3. \A a \in ObjsAndRanges(q) :
         a.obj \in Products /\ a.range \in Within(Life[a.obj], LongestRange)
  BY DEF Queries
<1>4. latest \in Nat
  BY Parameters DEF PlanningInv
<1>5. RangeSize(q.range) \in 1 .. LongestRange
  <2> DEFINE from == q.range.from
             to == q.range.to
  <2>1. from \in Int /\ to \in Int /\ from <= to /\ to - from < LongestRange
    BY <1>1, ValidRange
  <2>2. RangeSize(q.range) = Max({0, to - from + 1})
    BY DEF RangeSize
  <2> HIDE DEF from, to
  <2>3. Max({0, to - from + 1}) = IF 0 >= to - from + 1 THEN 0 ELSE to - from + 1
    BY <2>1, MaxOfTwo
  <2>4. LongestRange \in Nat
    BY LongestIsLong
  <2> QED
    BY <2>1, <2>2, <2>3, <2>4
<1>6. q.range.to <= latest
  <2>1. o \in Products /\ q.range.to \in Created[o] .. latest
    BY <1>1, <1>2 DEF Life
  <2> QED
    BY <1>4, <2>1, CreatedIsBlock
<1>7. ASSUME NEW a \in ObjsAndRanges(q) PROVE a.range.from >= Created[a.obj]
  <2>1. a.obj \in Products /\ a.range \in ValidRanges
        /\ a.range.from .. a.range.to \subseteq Created[a.obj] .. latest
    BY <1>3 DEF Within, Life
  <2>2. a.range.from \in Int /\ a.range.to \in Int /\ a.range.from <= a.range.to
    BY <2>1, ValidRange
  <2>3. a.range.from \in a.range.from .. a.range.to
    BY <2>2
  <2>4. a.range.from \in Created[a.obj] .. latest
    BY <2>1, <2>3
  <2> QED
    BY <1>4, <2>1, <2>2, <2>4, CreatedIsBlock
<1> QED
  BY <1>1, <1>5, <1>6, <1>7

(***************************************************************************)
(* No query is longer than the RPC allows, is made for more products than  *)
(* it allows, or reaches outside of what they have lived (WithinLimits),   *)
(* whatever is covered, fails, or is recorded meanwhile.                   *)
(***************************************************************************)
THEOREM QueriesStayWithinLimits == Spec => []WithinLimits
<1>1. ASSUME PlanningInv PROVE WithinLimits
  <2>1. \A i \in DOMAIN plan : plan[i] \in Queries(Life, LongestRange)
    BY <1>1 DEF PlanningInv
  <2>2. \A i \in DOMAIN plan :
           /\ RangeSize(plan[i].range) \in 1 .. LongestRange
           /\ Cardinality(plan[i].objs) <= MaxAddresses
           /\ plan[i].range.to <= latest
           /\ \A a \in ObjsAndRanges(plan[i]) : a.range.from >= Created[a.obj]
    BY <1>1, <2>1, QueryIsWithin
  <2> QED
    BY <2>2 DEF WithinLimits, LongestRange
<1> QED
  BY <1>1, PlanningInvariant, PTL

LEMMA OverlapsMeet ==
    ASSUME NEW a, NEW b, a.range \in ValidRanges, b.range \in ValidRanges,
           a.obj = b.obj, RangeOverlap(a.range, b.range)
    PROVE  Meets(a, b)
<1> DEFINE x == IF a.range.from <= b.range.from THEN b.range.from ELSE a.range.from
<1>1. /\ a.range.from \in Int /\ a.range.to \in Int /\ a.range.from <= a.range.to
      /\ b.range.from \in Int /\ b.range.to \in Int /\ b.range.from <= b.range.to
  BY ValidRange
<1>2. a.range.from <= b.range.to /\ b.range.from <= a.range.to
  BY DEF RangeOverlap
<1>3. x \in a.range.from .. a.range.to /\ x \in b.range.from .. b.range.to
  BY <1>1, <1>2
<1> HIDE DEF x
<1> QED
  BY <1>3 DEF Meets

(***************************************************************************)
(* The queries of a run never ask twice for a block of a product, be it    *)
(* new or to be retried, for one product or in an address batch, in slices *)
(* of the index or at snapshots (PlannedOnce): "covered ranges should not  *)
(* be overlapping", says mergeImportState.                                 *)
(***************************************************************************)
THEOREM BlocksPlannedOnce == Spec => []PlannedOnce
<1>1. ASSUME PlanningInv PROVE PlannedOnce
  <2> SUFFICES ASSUME NEW i \in DOMAIN plan, NEW j \in DOMAIN plan,
                      NEW a \in ObjsAndRanges(plan[i]), NEW b \in ObjsAndRanges(plan[j]),
                      a.obj = b.obj, RangeOverlap(a.range, b.range)
               PROVE  i = j /\ a = b
    BY DEF PlannedOnce
  <2>1. plan \in Seq(Queries(Life, LongestRange)) /\ Once(plan)
    BY <1>1 DEF PlanningInv
  <2>2. plan[i] \in Queries(Life, LongestRange) /\ plan[j] \in Queries(Life, LongestRange)
    BY <2>1
  <2>3. a.range \in ValidRanges /\ b.range \in ValidRanges
    BY <2>2 DEF Queries, Within
  <2>4. Meets(a, b)
    BY <2>3, OverlapsMeet
  <2>5. i = j
    BY <2>1, <2>4 DEF Once, ApartQueries
  <2> QED
    BY <2>1, <2>4, <2>5 DEF Once, Alone
<1> QED
  BY <1>1, PlanningInvariant, PTL

-----------------------------------------------------------------------------
(***************************************************************************)
(* The refinement: sets of blocks in place of the lists of ranges.         *)
(***************************************************************************)
Covered == [p \in Products |-> Points(rows[p].covered)]
ToRetry == [p \in Products |-> Points(rows[p].toRetry)]
Planned == [p \in Products |-> Points(SetToSeq(RangesOf(p, ToSet(plan))))]

LEMMA ClaimsOfWanted ==
    ASSUME NEW want, NEW span, NEW p \in Products, NEW queries \in SUBSET Queries(want, span)
    PROVE  SetPoints(RangesOf(p, queries)) \subseteq want[p]
<1>1. \A r \in RangesOf(p, queries) : r.from .. r.to \subseteq want[p]
  <2> SUFFICES ASSUME NEW r \in RangesOf(p, queries) PROVE r.from .. r.to \subseteq want[p]
    OBVIOUS
  <2>1. PICK q \in queries : \E a \in ObjsAndRanges(q) : a.obj = p /\ a.range = r
    BY DEF RangesOf
  <2>2. \A a \in ObjsAndRanges(q) : a.range \in Within(want[a.obj], span)
    BY DEF Queries
  <2> QED
    BY <2>1, <2>2 DEF Within
<1> QED
  BY <1>1 DEF SetPoints

LEMMA QueriesOfPlan ==
    ASSUME NEW Q, NEW list \in Seq(Q)
    PROVE  ToSet(list) \in SUBSET Q
  BY DEF ToSet

LEMMA PlannedBlocks ==
    ASSUME PlanningInv, NEW p \in Products
    PROVE  /\ Planned[p] = SetPoints(RangesOf(p, ToSet(plan)))
           /\ Planned[p] \subseteq Life[p]
<1>1. ToSet(plan) \in SUBSET Queries(Life, LongestRange)
  BY QueriesOfPlan DEF PlanningInv
<1>2. /\ RangesOf(p, ToSet(plan)) \in SUBSET ValidRanges
      /\ IsFiniteSet(RangesOf(p, ToSet(plan)))
      /\ SetPoints(RangesOf(p, ToSet(plan))) \subseteq Life[p]
  BY <1>1, ClaimsOfQueries DEF PlanningInv
<1>3. Points(SetToSeq(RangesOf(p, ToSet(plan)))) = SetPoints(RangesOf(p, ToSet(plan)))
  BY <1>2, SetToSeqPoints
<1> QED
  BY <1>2, <1>3 DEF Planned

LEMMA NothingPlanned ==
    ASSUME plan = <<>>, NEW p \in Products
    PROVE  Planned[p] = {}
<1>1. ToSet(plan) = {}
  BY DEF ToSet
<1>2. RangesOf(p, ToSet(plan)) = {}
  BY <1>1 DEF RangesOf
<1>3. {} \in SUBSET ValidRanges /\ IsFiniteSet({})
  BY FS_EmptySet
<1>4. Points(SetToSeq({})) = {}
  BY <1>3, SetToSeqPoints, PointsOfSingle
<1> QED
  BY <1>2, <1>4 DEF Planned

LEMMA LifeIsBlocks ==
    ASSUME PlanningInv, NEW p \in Products
    PROVE  Life[p] \subseteq 0 .. MaxBlock
<1>1. latest \in 0 .. MaxBlock /\ Created[p] \in Nat /\ MaxBlock \in Nat
  BY Parameters, CreatedIsBlock DEF PlanningInv
<1> QED
  BY <1>1 DEF Life

LEMMA BlocksOfRows ==
    ASSUME PlanningInv
    PROVE  Covered \in Abstract!PerProduct /\ ToRetry \in Abstract!PerProduct
           /\ Planned \in Abstract!PerProduct
<1>1. ASSUME NEW p \in Products
      PROVE  /\ Points(rows[p].covered) \subseteq 0 .. MaxBlock
             /\ Points(rows[p].toRetry) \subseteq 0 .. MaxBlock
             /\ Planned[p] \subseteq 0 .. MaxBlock
  BY LifeIsBlocks, PlannedBlocks DEF PlanningInv, RowsKnown
<1>2. /\ \A p \in Products : Points(rows[p].covered) \in SUBSET (0 .. MaxBlock)
      /\ \A p \in Products : Points(rows[p].toRetry) \in SUBSET (0 .. MaxBlock)
      /\ \A p \in Products :
            Points(SetToSeq(RangesOf(p, ToSet(plan)))) \in SUBSET (0 .. MaxBlock)
  BY <1>1 DEF Planned
<1> QED
  BY <1>2 DEF Abstract!PerProduct, Covered, ToRetry, Planned

(* The same of the next state. *)
PlannedIsClaimed == \A p \in Products : Planned[p] = SetPoints(RangesOf(p, ToSet(plan)))

BlocksKnown ==
    /\ Covered \in Abstract!PerProduct /\ ToRetry \in Abstract!PerProduct
    /\ Planned \in Abstract!PerProduct

LEMMA SetsKnown == PlanningInv => PlannedIsClaimed /\ BlocksKnown
  BY PlannedBlocks, BlocksOfRows DEF PlannedIsClaimed, BlocksKnown

LEMMA NextSetsKnown == PlanningInv' => PlannedIsClaimed' /\ BlocksKnown'
  BY SetsKnown, PTL

LEMMA CoverageInit == Init => Abstract!Init
<1> SUFFICES ASSUME Init PROVE Abstract!Init
  OBVIOUS
<1>1. plan = <<>> /\ \A p \in Products : rows[p].covered = <<>> /\ rows[p].toRetry = <<>>
  BY DEF Init
<1>2. \A p \in Products : Points(rows[p].covered) = {} /\ Points(rows[p].toRetry) = {}
  BY <1>1, PointsOfNone
<1>3. \A p \in Products : Points(SetToSeq(RangesOf(p, ToSet(plan)))) = {}
  BY <1>1, NothingPlanned DEF Planned
<1> QED
  BY <1>2, <1>3 DEF Abstract!Init, Abstract!NoBlock

LEMMA PlanCovers ==
    ASSUME PlanningInv, PlanningInv', Plan
    PROVE  Abstract!Plan
<1>1. /\ latest' = latest /\ importer' = importer /\ rows' = rows /\ pc = "idle"
      /\ PlansOne(plan')
  BY PlanCases
<1>2. plan = <<>>
  BY <1>1 DEF PlanningInv
<1>3. RowsKnown /\ latest \in Nat
  BY Parameters DEF PlanningInv
<1>4. plan' \in Seq(Queries(Want, LongestRange))
  BY <1>1, <1>3, PlansAreWanted
<1>5. ASSUME NEW p \in Products
      PROVE  Planned'[p] \subseteq ((0 .. MaxBlock) \ Covered[p]) \cup ToRetry[p]
  <2>1. Planned'[p] = SetPoints(RangesOf(p, ToSet(plan')))
    BY NextSetsKnown DEF PlannedIsClaimed
  <2>2. ToSet(plan') \in SUBSET Queries(Want, LongestRange)
    BY <1>4, QueriesOfPlan
  <2>3. SetPoints(RangesOf(p, ToSet(plan'))) \subseteq Want[p]
    BY <2>2, ClaimsOfWanted
  <2>4. Life[p] \subseteq 0 .. MaxBlock
    BY LifeIsBlocks
  <2> QED
    BY <2>1, <2>3, <2>4 DEF Want, Covered, ToRetry
<1>6. Planned' \in Abstract!PerProduct
  BY NextSetsKnown DEF BlocksKnown, Abstract!PerProduct
<1>7. Planned = Abstract!NoBlock
  BY <1>2, NothingPlanned DEF Abstract!NoBlock, Planned
<1>8. Covered' = Covered /\ ToRetry' = ToRetry
  BY <1>1 DEF Covered, ToRetry
<1> QED
  BY <1>5, <1>6, <1>7, <1>8 DEF Abstract!Plan, Covered, ToRetry, Planned

LEMMA RecordCovers ==
    ASSUME PlanningInv, PlanningInv', NEW done \in SUBSET ToSet(plan),
           NEW failed \in SUBSET done, RecordResults(done, failed)
    PROVE  Abstract!Record
<1>1. plan' = <<>>
  BY DEF RecordResults
<1>2. Planned' = Abstract!NoBlock
  <2>1. \A p \in Products : Planned'[p] = {}
    <3>1. \A p \in Products : RangesOf(p, ToSet(<<>>)) = {}
      BY DEF RangesOf, ToSet
    <3> QED
      BY <1>1, <3>1, NextSetsKnown, PointsOfSingle DEF PlannedIsClaimed
  <2> QED
    BY <2>1 DEF Abstract!NoBlock, Planned
<1>3. Covered' \in Abstract!PerProduct /\ ToRetry' \in Abstract!PerProduct
  BY NextSetsKnown DEF BlocksKnown, Abstract!PerProduct
<1>4. ASSUME NEW p \in Products
      PROVE  LET Results == Planned[p] \cap Covered'[p]
             IN  /\ Covered'[p] = Covered[p] \cup Results
                 /\ ToRetry'[p] \ ToRetry[p] \subseteq Results
                 /\ ToRetry[p] \ ToRetry'[p] \subseteq Results
  <2> DEFINE D == SetPoints(RangesOf(p, done))
             F == SetPoints(RangesOf(p, failed))
             S == SetPoints(RangesOf(p, done) \ RangesOf(p, failed))
  <2>1. /\ Updates(rows'[p], rows[p], RangesOf(p, done), RangesOf(p, failed))
        /\ RangesOf(p, failed) \subseteq RangesOf(p, done)
    BY RecordUpdates
  <2>2. F \subseteq D /\ S \subseteq D
    BY <2>1, SmallerPoints
  <2>3. D \subseteq Planned[p]
    <3>1. RangesOf(p, done) \subseteq RangesOf(p, ToSet(plan))
      BY DEF RangesOf
    <3> QED
      BY <3>1, SmallerPoints, PlannedBlocks
  <2>4. Covered'[p] = Covered[p] \cup D /\ ToRetry'[p] = (ToRetry[p] \ S) \cup F
    BY <2>1 DEF Updates, Covered, ToRetry
  <2> QED
    BY <2>2, <2>3, <2>4
<1> QED
  BY <1>2, <1>3, <1>4 DEF Abstract!Record, Covered, ToRetry, Planned

LEMMA RecentCovers ==
    ASSUME PlanningInv, NEW p \in Products, RecordRecent(p)
    PROVE  Abstract!RecordRecent
<1>1. PICK window \in ValidRanges : \E failed \in SUBSET {window} :
        RecentUpdate(p, window, failed)
  BY RecentUpdates
<1>2. PICK failed \in SUBSET {window} : RecentUpdate(p, window, failed)
  BY <1>1
<1> DEFINE from == window.from
           to == window.to
<1>3. /\ from \in Life[p] /\ to \in Life[p]
      /\ failed = {} \/ failed = {window}
      /\ DOMAIN rows' = Products
      /\ Updates(rows'[p], rows[p], {window}, failed)
      /\ \A q \in Products : q # p => rows'[q] = rows[q]
  BY <1>2 DEF RecentUpdate
<1>4. from \in 0 .. MaxBlock /\ to \in 0 .. MaxBlock
  BY <1>3, LifeIsBlocks
<1>5. Covered'[p] = Covered[p] \cup from .. to
  BY <1>3, PointsOfSingle DEF Updates, Covered
<1>6. \/ ToRetry'[p] = ToRetry[p] \cup from .. to
      \/ ToRetry'[p] = ToRetry[p] \ (from .. to)
  <2>1. ToRetry'[p] = (ToRetry[p] \ SetPoints({window} \ failed)) \cup SetPoints(failed)
    BY <1>3 DEF Updates, ToRetry
  <2>2. CASE failed = {}
    <3>1. {window} \ failed = {window}
      BY <2>2
    <3> QED
      BY <2>1, <2>2, <3>1, PointsOfSingle
  <2>3. CASE failed = {window}
    <3>1. {window} \ failed = {}
      BY <2>3
    <3> QED
      BY <2>1, <2>3, <3>1, PointsOfSingle
  <2> QED
    BY <1>3, <2>2, <2>3
<1>7. \A q \in Products : q # p => Covered'[q] = Covered[q] /\ ToRetry'[q] = ToRetry[q]
  BY <1>3 DEF Covered, ToRetry
<1> HIDE DEF from, to
<1>8. Covered' = [Covered EXCEPT ![p] = @ \cup from .. to]
  BY <1>5, <1>7 DEF Covered
<1>9. \/ ToRetry' = [ToRetry EXCEPT ![p] = @ \cup from .. to]
      \/ ToRetry' = [ToRetry EXCEPT ![p] = @ \ (from .. to)]
  BY <1>6, <1>7 DEF ToRetry
<1>10. Planned' = Planned
  BY DEF RecordRecent, Planned
<1> QED
  BY <1>4, <1>8, <1>9, <1>10 DEF Abstract!RecordRecent, Covered, ToRetry, Planned

LEMMA CoverageNext ==
    PlanningInv /\ PlanningInv' /\ [Next]_vars =>
        [Abstract!Next]_<<Covered, ToRetry, Planned>>
<1> SUFFICES ASSUME PlanningInv, PlanningInv', [Next]_vars
             PROVE  [Abstract!Next]_<<Covered, ToRetry, Planned>>
  OBVIOUS
<1>1. CASE NewBlock
  BY <1>1 DEF NewBlock, Covered, ToRetry, Planned
<1>2. CASE Plan
  BY <1>2, PlanCovers DEF Abstract!Next
<1>3. CASE Record
  <2>1. RecordResults(ToSet(plan), {})
    BY <1>3 DEF Record
  <2> QED
    BY <2>1, RecordCovers DEF Abstract!Next
<1>4. CASE RecordSome
  <2>1. PICK done \in SUBSET ToSet(plan) : \E failed \in SUBSET done : RecordResults(done, failed)
    BY <1>4 DEF RecordSome
  <2>2. PICK failed \in SUBSET done : RecordResults(done, failed)
    BY <2>1
  <2> QED
    BY <2>2, RecordCovers DEF Abstract!Next
<1>5. ASSUME NEW p \in Products, RecordRecent(p)
      PROVE  [Abstract!Next]_<<Covered, ToRetry, Planned>>
  BY <1>5, RecentCovers DEF Abstract!Next
<1>6. CASE UNCHANGED vars
  BY <1>6 DEF vars, Covered, ToRetry, Planned
<1> QED
  BY <1>1, <1>2, <1>3, <1>4, <1>5, <1>6 DEF Next

(***************************************************************************)
(* Runs over lists of ranges implement ImportCoverage: each plans only     *)
(* blocks that were not covered or are to be retried, and no result of any *)
(* other block is recorded but by the recent importer (ImplementsCoverage).*)
(***************************************************************************)
THEOREM RunsImplementCoverage == Spec => ImplementsCoverage
<1>1. Init => Abstract!Init
  BY CoverageInit
<1>2. PlanningInv /\ PlanningInv' /\ [Next]_vars =>
        [Abstract!Next]_<<Covered, ToRetry, Planned>>
  BY CoverageNext
<1> QED
  BY <1>1, <1>2, PlanningInvariant, PTL
     DEF Spec, ImplementsCoverage, Abstract!Spec, Covered, ToRetry, Planned
=============================================================================
