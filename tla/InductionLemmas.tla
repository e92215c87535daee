-------------------------- MODULE InductionLemmas --------------------------
(***************************************************************************)
(* Induction over numbers and over finite sets, with what is to be shown   *)
(* given as a set: those it holds for.                                     *)
(***************************************************************************)
EXTENDS Integers, FiniteSetTheorems, FiniteSetsExt, TLAPS

(* The order of the natural numbers, as a relation. *)
NatLess == {ss \in Nat \X Nat : ss[1] < ss[2]}

LEMMA NatLessWellFounded == IsWellFoundedOn(NatLess, Nat)
<1>1. NatLess = OpToRel(<, Nat)
  BY DEF NatLess, OpToRel
<1> QED
  BY <1>1, NatLessThanWellFounded

LEMMA LeastElement ==
    ASSUME NEW S \in SUBSET Nat, S # {}
    PROVE  \E n \in S : \A m \in S : n <= m
<1>1. PICK n \in S : \A m \in S : ~ (<<m, n>> \in NatLess)
  BY NatLessWellFounded, WFMin
<1>2. ASSUME NEW m \in S, m < n
      PROVE  FALSE
  <2>1. <<m, n>> \in NatLess
    BY <1>2 DEF NatLess
  <2> QED
    BY <1>1, <2>1
<1> QED
  BY <1>2

LEMMA NumberInduction ==
    ASSUME NEW S, 0 \in S, \A n \in Nat : n \in S => n + 1 \in S
    PROVE  Nat \subseteq S
<1> SUFFICES ASSUME Nat \ S # {}
             PROVE  FALSE
  OBVIOUS
<1>1. PICK n \in Nat \ S : \A m \in Nat \ S : n <= m
  BY LeastElement
<1>2. n # 0 /\ n - 1 \in Nat /\ n - 1 \in S
  BY <1>1
<1> QED
  BY <1>1, <1>2

(* What holds for the empty set and is kept by one more element. *)
LEMMA SetInduction ==
    ASSUME NEW S, IsFiniteSet(S), NEW P \in SUBSET SUBSET S, {} \in P,
           \A T \in P : \A x \in S \ T : T \cup {x} \in P
    PROVE  \A T \in SUBSET S : T \in P
<1> DEFINE bad == (SUBSET S) \ P
<1> SUFFICES ASSUME bad # {}
             PROVE  FALSE
  OBVIOUS
<1>1. IsWellFoundedOn(StrictSubsetOrdering(S), SUBSET S)
  BY FS_StrictSubsetOrderingWellFounded, FS_FiniteSubsetsOfFinite
<1>2. PICK T \in bad : \A U \in bad : ~ (<<U, T>> \in StrictSubsetOrdering(S))
  <2>1. bad \subseteq SUBSET S
    OBVIOUS
  <2> HIDE DEF bad
  <2> QED
    BY <1>1, <2>1, WFMin
<1>3. PICK x \in T : TRUE
  OBVIOUS
<1>4. T \ {x} \in P
  <2>1. T \ {x} \in SUBSET S /\ T \in SUBSET S
    OBVIOUS
  <2>2. <<T \ {x}, T>> \in StrictSubsetOrdering(S)
    BY <1>3, <2>1 DEF StrictSubsetOrdering
  <2> QED
    BY <1>2, <2>1, <2>2
<1>5. (T \ {x}) \cup {x} = T
  BY <1>3
<1> QED
  BY <1>3, <1>4, <1>5

(* One element of a finite set is mapped to the greatest number. *)
LEMMA GreatestValue ==
    ASSUME NEW S, IsFiniteSet(S), S # {}, NEW f \in [S -> Int]
    PROVE  \E x \in S : \A y \in S : f[y] <= f[x]
<1> DEFINE P == {T \in SUBSET S : T # {} => \E x \in T : \A y \in T : f[y] <= f[x]}
<1>1. {} \in P
  OBVIOUS
<1>2. ASSUME NEW T \in P, NEW z \in S \ T
      PROVE  T \cup {z} \in P
  <2>1. CASE T = {}
    BY <2>1
  <2>2. CASE T # {}
    <3>1. PICK x \in T : \A y \in T : f[y] <= f[x]
      BY <2>2
    <3>2. f[x] <= f[z] \/ f[z] <= f[x]
      BY <3>1
    <3>3. CASE f[x] <= f[z]
      <4>1. \A y \in T \cup {z} : f[y] <= f[z]
        BY <3>1, <3>3
      <4> QED
        BY <4>1
    <3>4. CASE f[z] <= f[x]
      <4>1. \A y \in T \cup {z} : f[y] <= f[x]
        BY <3>1, <3>4
      <4> QED
        BY <4>1
    <3> QED
      BY <3>2, <3>3, <3>4
  <2> QED
    BY <2>1, <2>2
<1> HIDE DEF P
<1>3. P \in SUBSET SUBSET S
  BY DEF P
<1>4. S \in P
  BY <1>1, <1>2, <1>3, SetInduction
<1> QED
  BY <1>4 DEF P

(* What holds for a set whenever it holds for its strict subsets. *)
LEMMA StrictSubsetInduction ==
    ASSUME NEW S, IsFiniteSet(S), NEW P,
           \A T \in SUBSET S : (\A U \in SUBSET T : U # T => U \in P) => T \in P
    PROVE  \A T \in SUBSET S : T \in P
<1>1. IsWellFoundedOn(StrictSubsetOrdering(S), SUBSET S)
  <2>1. FiniteSubsetsOf(S) = SUBSET S
    BY FS_FiniteSubsetsOfFinite
  <2> QED
    BY <2>1, FS_StrictSubsetOrderingWellFounded
<1> DEFINE bad == (SUBSET S) \ P
<1> SUFFICES ASSUME bad # {}
             PROVE  FALSE
  OBVIOUS
<1>2. PICK T \in bad : \A U \in bad : ~ (<<U, T>> \in StrictSubsetOrdering(S))
  <2>1. bad \subseteq SUBSET S
    OBVIOUS
  <2> HIDE DEF bad
  <2> QED
    BY <1>1, <2>1, WFMin
<1>3. ASSUME NEW U \in SUBSET T, U # T
      PROVE  U \in P
  <2>1. U \in SUBSET S /\ T \in SUBSET S
    OBVIOUS
  <2>2. <<U, T>> \in StrictSubsetOrdering(S)
    BY <1>3, <2>1 DEF StrictSubsetOrdering
  <2> QED
    BY <1>2, <2>1, <2>2
<1> QED
  BY <1>3

-----------------------------------------------------------------------------
(***************************************************************************)
(* Functions defined by recursion on the subsets of a finite set: what a   *)
(* set is given depends on what a strict subset of it is.                  *)
(***************************************************************************)
Solves(it, S, base, G, N) ==
    it = [s \in SUBSET S |-> IF s = {} THEN base ELSE G[<<s, it[N[s]]>>]]

LEMMA SolutionsAgree ==
    ASSUME NEW S, IsFiniteSet(S), NEW base, NEW G,
           NEW N, \A s \in (SUBSET S) \ {{}} : N[s] \in SUBSET s /\ N[s] # s,
           NEW T \in SUBSET S, NEW U \in SUBSET S,
           NEW f, Solves(f, T, base, G, N), NEW g, Solves(g, U, base, G, N)
    PROVE  \A s \in SUBSET (T \cap U) : f[s] = g[s]
<1> DEFINE X == T \cap U
           P == {s \in SUBSET X : f[s] = g[s]}
<1>1. IsFiniteSet(X)
  BY FS_Subset
<1>2. ASSUME NEW s \in SUBSET X, \A r \in SUBSET s : r # s => r \in P
      PROVE  s \in P
  <2>1. CASE s = {}
    <3>1. f[s] = base /\ g[s] = base
      BY <2>1 DEF Solves
    <3> QED
      BY <3>1
  <2>2. CASE s # {}
    <3>1. f[s] = G[<<s, f[N[s]]>>] /\ g[s] = G[<<s, g[N[s]]>>]
      BY <2>2 DEF Solves
    <3>2. f[N[s]] = g[N[s]]
      BY <1>2, <2>2
    <3> QED
      BY <3>1, <3>2
  <2> QED
    BY <2>1, <2>2
<1> HIDE DEF P, X
<1>3. \A s \in SUBSET X : s \in P
  BY <1>1, <1>2, StrictSubsetInduction
<1> QED
  BY <1>3 DEF P, X

LEMMA SolutionExists ==
    ASSUME NEW S, IsFiniteSet(S), NEW V, NEW base \in V,
           NEW G \in [(SUBSET S) \X V -> V],
           NEW N, \A s \in (SUBSET S) \ {{}} : N[s] \in SUBSET s /\ N[s] # s
    PROVE  \E it \in [SUBSET S -> V] : Solves(it, S, base, G, N)
<1> DEFINE P == {T \in SUBSET S : \E it \in [SUBSET T -> V] : Solves(it, T, base, G, N)}
<1>1. ASSUME NEW T \in SUBSET S, \A U \in SUBSET T : U # T => U \in P
      PROVE  T \in P
  <2> DEFINE sol[U \in (SUBSET T) \ {T}] ==
               CHOOSE it \in [SUBSET U -> V] : Solves(it, U, base, G, N)
  <2>1. ASSUME NEW U \in (SUBSET T) \ {T}
        PROVE  sol[U] \in [SUBSET U -> V] /\ Solves(sol[U], U, base, G, N)
    BY <1>1
  <2> HIDE DEF sol
  <2>2. ASSUME NEW s \in SUBSET T, s # {}
        PROVE  /\ N[s] \in (SUBSET T) \ {T} /\ N[s] \in SUBSET s
               /\ sol[N[s]][N[s]] \in V
    <3>1. N[s] \in SUBSET s /\ N[s] # s
      BY <2>2
    <3>2. N[s] \in (SUBSET T) \ {T}
      BY <3>1
    <3>3. sol[N[s]] \in [SUBSET N[s] -> V]
      BY <2>1, <3>2
    <3> QED
      BY <3>1, <3>2, <3>3
  <2> DEFINE val[s \in SUBSET T] == IF s = {} THEN base ELSE G[<<s, sol[N[s]][N[s]]>>]
  <2>3. ASSUME NEW s \in SUBSET T
        PROVE  val[s] \in V
    BY <2>2
  <2>4. ASSUME NEW s \in (SUBSET T) \ {T}
        PROVE  val[s] = sol[s][s]
    <3> DEFINE it == sol[s]
    <3>0. it = [r \in SUBSET s |-> IF r = {} THEN base ELSE G[<<r, it[N[r]]>>]]
      <4>1. Solves(it, s, base, G, N)
        BY <2>1
      <4> HIDE DEF it
      <4> QED
        BY <4>1 DEF Solves
    <3>1. CASE s = {}
      <4>1. it[s] = base
        <5> HIDE DEF it
        <5> QED
          BY <3>0, <3>1
      <4> QED
        BY <3>1, <4>1
    <3>2. CASE s # {}
      <4>1. it[s] = G[<<s, it[N[s]]>>]
        <5> HIDE DEF it
        <5> QED
          BY <3>0, <3>2
      <4>2. sol[s][N[s]] = sol[N[s]][N[s]]
        <5>1. N[s] \in (SUBSET T) \ {T} /\ N[s] \in SUBSET s
          BY <2>2, <3>2
        <5>2. Solves(sol[s], s, base, G, N) /\ Solves(sol[N[s]], N[s], base, G, N)
          BY <2>1, <5>1
        <5>3. N[s] \in SUBSET (s \cap N[s]) /\ s \in SUBSET S /\ N[s] \in SUBSET S
          BY <5>1
        <5> DEFINE f == sol[s]
                   r == N[s]
                   g == sol[r]
        <5>4. Solves(f, s, base, G, N) /\ Solves(g, r, base, G, N)
          BY <5>2
        <5>5. r \in SUBSET S /\ s \in SUBSET S /\ r \in SUBSET (s \cap r)
          BY <5>3
        <5> HIDE DEF val, f, g, r
        <5>6. f[r] = g[r]
          BY <5>4, <5>5, SolutionsAgree
        <5> QED
          BY <5>6 DEF f, g, r
      <4> QED
        BY <3>2, <4>1, <4>2
    <3> QED
      BY <3>1, <3>2
  <2>5. val = [s \in SUBSET T |-> IF s = {} THEN base ELSE G[<<s, val[N[s]]>>]]
    <3>1. ASSUME NEW s \in SUBSET T, s # {}
          PROVE  val[s] = G[<<s, val[N[s]]>>]
      <4>1. val[N[s]] = sol[N[s]][N[s]]
        BY <2>2, <2>4, <3>1
      <4>2. val[s] = G[<<s, sol[N[s]][N[s]]>>]
        BY <3>1
      <4> QED
        BY <4>1, <4>2
    <3>2. val[{}] = base
      OBVIOUS
    <3>3. val = [s \in SUBSET T |-> val[s]]
      OBVIOUS
    <3> HIDE DEF val
    <3> QED
      BY <3>1, <3>2, <3>3
  <2>6. val \in [SUBSET T -> V]
    <3>1. val = [s \in SUBSET T |-> val[s]]
      OBVIOUS
    <3> HIDE DEF val
    <3> QED
      BY <2>3, <3>1
  <2> HIDE DEF val
  <2> QED
    BY <2>5, <2>6 DEF Solves
<1> HIDE DEF P
<1>2. S \in P
  BY <1>1, StrictSubsetInduction
<1> QED
  BY <1>2 DEF P

-----------------------------------------------------------------------------
(***************************************************************************)
(* Sums over a finite set.                                                 *)
(***************************************************************************)
SumOver(f, S) == MapThenSumSet(LAMBDA x : f[x], S)

SumSolution(f, it, S) ==
    it = [s \in SUBSET S |->
            IF s = {} THEN 0
            ELSE f[CHOOSE x \in s : TRUE] + it[s \ {CHOOSE x \in s : TRUE}]]

LEMMA SumSolutionExists ==
    ASSUME NEW S, IsFiniteSet(S), NEW f, \A x \in S : f[x] \in Int
    PROVE  \E it \in [SUBSET S -> Int] : SumSolution(f, it, S)
<1> DEFINE c == [s \in SUBSET S |-> CHOOSE x \in s : TRUE]
           G == [p \in (SUBSET S) \X Int |-> IF p[1] = {} THEN 0 ELSE f[c[p[1]]] + p[2]]
           N == [s \in SUBSET S |-> s \ {c[s]}]
<1>1. ASSUME NEW s \in (SUBSET S) \ {{}}
      PROVE  c[s] \in s
  OBVIOUS
<1>2. ASSUME NEW s \in SUBSET S
      PROVE  c[s] = CHOOSE x \in s : TRUE
  OBVIOUS
<1> HIDE DEF c
<1>3. \A s \in (SUBSET S) \ {{}} : N[s] \in SUBSET s /\ N[s] # s
  BY <1>1
<1>4. G \in [(SUBSET S) \X Int -> Int]
  <2>1. ASSUME NEW p \in (SUBSET S) \X Int
        PROVE  G[p] \in Int
    BY <1>1
  <2>2. G = [p \in (SUBSET S) \X Int |-> G[p]]
    OBVIOUS
  <2> HIDE DEF G
  <2> QED
    BY <2>1, <2>2
<1>5. ASSUME NEW s \in (SUBSET S) \ {{}}, NEW n \in Int
      PROVE  G[<<s, n>>] = f[c[s]] + n
  OBVIOUS
<1>6. \A s \in SUBSET S : N[s] = s \ {c[s]}
  OBVIOUS
<1> HIDE DEF G, N
<1>7. PICK it \in [SUBSET S -> Int] : Solves(it, S, 0, G, N)
  <2> DEFINE V == Int
             zero == 0
  <2>1. zero \in V /\ G \in [(SUBSET S) \X V -> V]
    BY <1>4
  <2> HIDE DEF V, zero
  <2>2. \E it \in [SUBSET S -> V] : Solves(it, S, zero, G, N)
    BY <1>3, <2>1, SolutionExists
  <2> QED
    BY <2>2 DEF V, zero
<1>8. ASSUME NEW s \in (SUBSET S) \ {{}}
      PROVE  it[s] = f[CHOOSE x \in s : TRUE] + it[s \ {CHOOSE x \in s : TRUE}]
  <2>1. it[s] = G[<<s, it[N[s]]>>]
    BY <1>7 DEF Solves
  <2>2. N[s] \in SUBSET S /\ it[N[s]] \in Int
    BY <1>3
  <2>3. it[s] = f[c[s]] + it[s \ {c[s]}]
    BY <1>5, <1>6, <2>1, <2>2
  <2> DEFINE e == CHOOSE x \in s : TRUE
  <2>4. c[s] = e
    BY <1>2
  <2> HIDE DEF e
  <2>5. it[s] = f[e] + it[s \ {e}]
    BY <2>3, <2>4
  <2> QED
    BY <2>5 DEF e
<1>9. it[{}] = 0
  BY <1>7 DEF Solves
<1> QED
  BY <1>8, <1>9 DEF SumSolution

LEMMA SumSolutionsAgree ==
    ASSUME NEW S, IsFiniteSet(S), NEW T, S \subseteq T, NEW U, S \subseteq U,
           NEW f, NEW g, \A x \in S : f[x] = g[x],
           NEW it, SumSolution(f, it, T), NEW jt, SumSolution(g, jt, U)
    PROVE  it[S] = jt[S]
<1> DEFINE P == {s \in SUBSET S : it[s] = jt[s]}
<1>1. ASSUME NEW s \in SUBSET S, \A r \in SUBSET s : r # s => r \in P
      PROVE  s \in P
  <2>1. CASE s = {}
    <3>1. it[s] = 0 /\ jt[s] = 0
      BY <2>1 DEF SumSolution
    <3> QED
      BY <3>1
  <2>2. CASE s # {}
    <3> DEFINE e == CHOOSE x \in s : TRUE
    <3>1. e \in s
      BY <2>2
    <3>2. it[s] = f[e] + it[s \ {e}] /\ jt[s] = g[e] + jt[s \ {e}]
      BY <2>2 DEF SumSolution
    <3> HIDE DEF e
    <3>3. it[s \ {e}] = jt[s \ {e}]
      BY <1>1, <3>1
    <3> QED
      BY <3>1, <3>2, <3>3
  <2> QED
    BY <2>1, <2>2
<1> HIDE DEF P
<1>2. S \in P
  BY <1>1, StrictSubsetInduction
<1> QED
  BY <1>2 DEF P

IntValued(f, S) == \A x \in S : f[x] \in Int

SumsAre(f, it, S) ==
    /\ it \in [SUBSET S -> Int]
    /\ SumSolution(f, it, S)
    /\ \A T \in SUBSET S : SumOver(f, T) = it[T]

LEMMA SumOverSolves ==
    ASSUME NEW S, IsFiniteSet(S), NEW f, IntValued(f, S)
    PROVE  \E it : SumsAre(f, it, S)
<1>1. PICK it \in [SUBSET S -> Int] : SumSolution(f, it, S)
  BY SumSolutionExists DEF IntValued
<1>2. ASSUME NEW T \in SUBSET S
      PROVE  SumOver(f, T) = it[T]
  <2> DEFINE jt == CHOOSE sol : SumSolution(f, sol, T)
  <2>1. IsFiniteSet(T)
    BY FS_Subset
  <2>2. SumSolution(f, jt, T)
    <3>1. \E sol : SumSolution(f, sol, T)
      BY <2>1, SumSolutionExists DEF IntValued
    <3> QED
      BY <3>1
  <2>3. SumOver(f, T) = jt[T]
    BY DEF SumOver, SumSolution, MapThenSumSet, MapThenFoldSet
  <2> HIDE DEF jt
  <2>4. jt[T] = it[T]
    BY <1>1, <2>1, <2>2, SumSolutionsAgree
  <2> QED
    BY <2>3, <2>4
<1> QED
  BY <1>1, <1>2 DEF SumsAre

(* An element of the set can be taken out of the sum first. *)
LEMMA SumOverElement ==
    ASSUME NEW S, IsFiniteSet(S), NEW f, \A x \in S : f[x] \in Int
    PROVE  /\ SumOver(f, {}) = 0
           /\ \A T \in SUBSET S : SumOver(f, T) \in Int
           /\ \A T \in SUBSET S : \A x \in T : SumOver(f, T) = f[x] + SumOver(f, T \ {x})
<1>0. IntValued(f, S)
  BY DEF IntValued
<1>p. PICK it : SumsAre(f, it, S)
  BY <1>0, SumOverSolves
<1>1. /\ it \in [SUBSET S -> Int]
      /\ SumSolution(f, it, S)
      /\ \A T \in SUBSET S : SumOver(f, T) = it[T]
  BY <1>p DEF SumsAre
<1>2. it[{}] = 0
  BY <1>1 DEF SumSolution
<1> DEFINE P == {T \in SUBSET S : \A x \in T : it[T] = f[x] + it[T \ {x}]}
<1>3. ASSUME NEW T \in SUBSET S, \A U \in SUBSET T : U # T => U \in P
      PROVE  T \in P
  <2> SUFFICES ASSUME NEW x \in T
               PROVE  it[T] = f[x] + it[T \ {x}]
    OBVIOUS
  <2> DEFINE e == CHOOSE y \in T : TRUE
  <2>1. e \in T
    OBVIOUS
  <2>2. it[T] = f[e] + it[T \ {e}]
    BY <1>1 DEF SumSolution
  <2> HIDE DEF e
  <2>3. CASE x = e
    BY <2>2, <2>3
  <2>4. CASE x # e
    <3> DEFINE R == (T \ {e}) \ {x}
    <3>1. it[T \ {e}] = f[x] + it[R]
      <4>1. T \ {e} \in P
        BY <1>3, <2>1
      <4> QED
        BY <2>4, <4>1
    <3>2. it[T \ {x}] = f[e] + it[R]
      <4>1. T \ {x} \in P
        BY <1>3
      <4>2. R = (T \ {x}) \ {e}
        OBVIOUS
      <4>3. e \in T \ {x}
        BY <2>1, <2>4
      <4> HIDE DEF R
      <4> QED
        BY <4>1, <4>2, <4>3
    <3>3. it[R] \in Int /\ f[e] \in Int /\ f[x] \in Int
      BY <1>1, <2>1
    <3> HIDE DEF R
    <3> QED
      BY <2>2, <3>1, <3>2, <3>3
  <2> QED
    BY <2>3, <2>4
<1> HIDE DEF P
<1>4. \A T \in SUBSET S : T \in P
  BY <1>3, StrictSubsetInduction
<1> QED
  BY <1>1, <1>2, <1>4 DEF P

LEMMA SumOverUnion ==
    ASSUME NEW S, IsFiniteSet(S), NEW f, \A x \in S : f[x] \in Int,
           NEW T \in SUBSET S, NEW U \in SUBSET S, T \cap U = {}
    PROVE  SumOver(f, T \cup U) = SumOver(f, T) + SumOver(f, U)
<1>1. /\ SumOver(f, {}) = 0
      /\ \A R \in SUBSET S : SumOver(f, R) \in Int
      /\ \A R \in SUBSET S : \A x \in R : SumOver(f, R) = f[x] + SumOver(f, R \ {x})
  BY SumOverElement
<1> DEFINE P == {R \in SUBSET U : SumOver(f, T \cup R) = SumOver(f, T) + SumOver(f, R)}
<1>2. {} \in P
  <2>1. T \cup {} = T /\ SumOver(f, T) \in Int
    BY <1>1
  <2> QED
    BY <1>1, <2>1
<1>3. ASSUME NEW R \in P, NEW x \in U \ R
      PROVE  R \cup {x} \in P
  <2>1. SumOver(f, T \cup (R \cup {x})) = f[x] + SumOver(f, T \cup R)
    <3>1. (T \cup (R \cup {x})) \ {x} = T \cup R
      OBVIOUS
    <3>2. T \cup (R \cup {x}) \in SUBSET S /\ x \in T \cup (R \cup {x})
      OBVIOUS
    <3> QED
      BY <1>1, <3>1, <3>2
  <2>2. SumOver(f, R \cup {x}) = f[x] + SumOver(f, R)
    <3>1. (R \cup {x}) \ {x} = R
      OBVIOUS
    <3>2. R \cup {x} \in SUBSET S /\ x \in R \cup {x}
      OBVIOUS
    <3> QED
      BY <1>1, <3>1, <3>2
  <2>3. SumOver(f, T \cup R) = SumOver(f, T) + SumOver(f, R)
    OBVIOUS
  <2>4. f[x] \in Int /\ SumOver(f, T) \in Int /\ SumOver(f, R) \in Int
    BY <1>1
  <2>5. R \cup {x} \in SUBSET U
    OBVIOUS
  <2> QED
    BY <2>1, <2>2, <2>3, <2>4, <2>5
<1>4. IsFiniteSet(U) /\ P \in SUBSET SUBSET U
  BY FS_Subset
<1> HIDE DEF P
<1>5. U \in P
  BY <1>2, <1>3, <1>4, SetInduction
<1> QED
  BY <1>5 DEF P

(* Only the values on the set matter. *)
LEMMA SumOverAgrees ==
    ASSUME NEW S, IsFiniteSet(S), NEW f, NEW g,
           \A x \in S : f[x] \in Int /\ f[x] = g[x]
    PROVE  SumOver(f, S) = SumOver(g, S)
<1>1. IntValued(f, S) /\ IntValued(g, S)
  BY DEF IntValued
<1>2. PICK it : SumsAre(f, it, S)
  BY <1>1, SumOverSolves
<1>3. PICK jt : SumsAre(g, jt, S)
  BY <1>1, SumOverSolves
<1>4. SumSolution(f, it, S) /\ SumSolution(g, jt, S)
  BY <1>2, <1>3 DEF SumsAre
<1>5. it[S] = jt[S]
  BY <1>4, SumSolutionsAgree
<1> QED
  BY <1>2, <1>3, <1>5 DEF SumsAre
-----------------------------------------------------------------------------
(***************************************************************************)
(* The elements of a finite set in a given order.                          *)
(***************************************************************************)
Orders(order, S) ==
    /\ \A x, y \in S : x # y => <<x, y>> \in order \/ <<y, x>> \in order
    /\ \A x, y, z \in S : <<x, y>> \in order /\ <<y, z>> \in order => <<x, z>> \in order

InOrder(s, n, order) == \A i, j \in 1 .. n : i < j => <<s[i], s[j]>> \in order

LEMMA LastElement ==
    ASSUME NEW S, IsFiniteSet(S), S # {}, NEW order, Orders(order, S)
    PROVE  \E m \in S : \A x \in S \ {m} : <<x, m>> \in order
<1> DEFINE P == {T \in SUBSET S : T # {} => \E m \in T : \A x \in T \ {m} : <<x, m>> \in order}
<1>1. {} \in P
  OBVIOUS
<1>2. ASSUME NEW T \in P, NEW z \in S \ T
      PROVE  T \cup {z} \in P
  <2>1. CASE T = {}
    BY <2>1
  <2>2. CASE T # {}
    <3>1. PICK m \in T : \A x \in T \ {m} : <<x, m>> \in order
      BY <2>2
    <3>2. m \in S /\ T \in SUBSET S /\ m # z
      BY <1>2
    <3>3. CASE <<z, m>> \in order
      BY <3>1, <3>2, <3>3
    <3>4. CASE <<m, z>> \in order
      <4>1. \A x \in T : <<x, z>> \in order
        BY <3>1, <3>2, <3>4 DEF Orders
      <4> QED
        BY <3>2, <4>1
    <3> QED
      BY <3>2, <3>3, <3>4 DEF Orders
  <2> QED
    BY <2>1, <2>2
<1> HIDE DEF P
<1>3. P \in SUBSET SUBSET S
  BY DEF P
<1>4. S \in P
  BY <1>1, <1>2, <1>3, SetInduction
<1> QED
  BY <1>4 DEF P

LEMMA SortingExists ==
    ASSUME NEW S, IsFiniteSet(S), NEW order, Orders(order, S)
    PROVE  \E s \in [1 .. Cardinality(S) -> S] : InOrder(s, Cardinality(S), order)
<1> DEFINE Sorts(s, T) ==
             /\ s \in [1 .. Cardinality(T) -> T] /\ InOrder(s, Cardinality(T), order)
           P == {T \in SUBSET S : \E s : Sorts(s, T)}
<1>1. ASSUME NEW T \in SUBSET S, \A U \in SUBSET T : U # T => U \in P
      PROVE  T \in P
  <2>1. CASE T = {}
    <3>1. Cardinality(T) = 0 /\ 1 .. 0 = {}
      BY <2>1, FS_EmptySet
    <3>2. Sorts([i \in {} |-> 0], T)
      BY <3>1 DEF InOrder
    <3> QED
      BY <3>2
  <2>2. CASE T # {}
    <3>1. IsFiniteSet(T) /\ Orders(order, T)
      BY FS_Subset DEF Orders
    <3>2. PICK m \in T : \A x \in T \ {m} : <<x, m>> \in order
      BY <2>2, <3>1, LastElement
    <3> DEFINE U == T \ {m}
               n == Cardinality(U)
    <3>3. IsFiniteSet(U) /\ Cardinality(T) = n + 1 /\ n \in Nat
      <4>1. IsFiniteSet(U) /\ n = Cardinality(T) - 1
        BY <3>1, <3>2, FS_RemoveElement
      <4>2. Cardinality(T) \in Nat /\ n \in Nat
        BY <3>1, <4>1, FS_CardinalityType
      <4> QED
        BY <4>1, <4>2
    <3>4. PICK s : Sorts(s, U)
      BY <1>1, <3>2
    <3> DEFINE t == [i \in 1 .. n + 1 |-> IF i = n + 1 THEN m ELSE s[i]]
    <3>5. s \in [1 .. n -> U] /\ InOrder(s, n, order)
      BY <3>4
    <3> HIDE DEF n, Sorts
    <3>6. \A i \in 1 .. n + 1 : i # n + 1 => i \in 1 .. n
      BY <3>3
    <3>7. t \in [1 .. n + 1 -> T]
      BY <3>2, <3>5, <3>6
    <3>8. InOrder(t, n + 1, order)
      <4> SUFFICES ASSUME NEW i \in 1 .. n + 1, NEW j \in 1 .. n + 1, i < j
                   PROVE  <<t[i], t[j]>> \in order
        BY DEF InOrder
      <4>1. i # n + 1 /\ i \in 1 .. n /\ t[i] = s[i] /\ s[i] \in U
        BY <3>3, <3>5, <3>6
      <4>2. CASE j = n + 1
        BY <3>2, <4>1, <4>2
      <4>3. CASE j # n + 1
        BY <3>5, <3>6, <4>1, <4>3 DEF InOrder
      <4> QED
        BY <4>2, <4>3
    <3>9. Sorts(t, T)
      BY <3>3, <3>7, <3>8 DEF Sorts
    <3> QED
      BY <3>9
  <2> QED
    BY <2>1, <2>2
<1> HIDE DEF P
<1>2. S \in P
  BY <1>1, StrictSubsetInduction
<1> QED
  BY <1>2 DEF P

-----------------------------------------------------------------------------
(***************************************************************************)
(* Folds of a sequence: each prefix is given a value by a step from that   *)
(* of the prefix before it.                                                *)
(***************************************************************************)
LEMMA MaxOfInterval == \A n \in Nat \ {0} : Max(1 .. n) = n
<1> SUFFICES ASSUME NEW n \in Nat \ {0} PROVE Max(1 .. n) = n
  OBVIOUS
<1>1. n \in 1 .. n /\ \A m \in 1 .. n : n >= m
  OBVIOUS
<1>2. Max(1 .. n) \in 1 .. n /\ \A m \in 1 .. n : Max(1 .. n) >= m
  BY <1>1 DEF Max
<1> QED
  BY <1>1, <1>2

LEMMA MaxIsElement ==
    ASSUME NEW S \in SUBSET Int, IsFiniteSet(S), S # {}
    PROVE  Max(S) \in S /\ \A n \in S : Max(S) >= n
<1> DEFINE f == [n \in S |-> n]
<1>1. f \in [S -> Int]
  OBVIOUS
<1>2. \A n \in S : f[n] = n
  OBVIOUS
<1> HIDE DEF f
<1>3. PICK m \in S : \A n \in S : f[n] <= f[m]
  BY <1>1, GreatestValue
<1>4. \A n \in S : m >= n
  BY <1>2, <1>3
<1> QED
  BY <1>4 DEF Max

FoldSolution(step, base, it, n) ==
    it = [s \in SUBSET (1 .. n) |->
            IF s = {} THEN base ELSE step[<<it[s \ {Max(s)}], Max(s)>>]]

LEMMA FoldSolutionExists ==
    ASSUME NEW n \in Nat, NEW V, NEW base \in V, NEW step \in [V \X (1 .. n) -> V]
    PROVE  \E it \in [SUBSET (1 .. n) -> V] : FoldSolution(step, base, it, n)
<1> DEFINE S == 1 .. n
           G == [p \in (SUBSET S) \X V |->
                   IF p[1] = {} THEN base ELSE step[<<p[2], Max(p[1])>>]]
           N == [s \in SUBSET S |-> s \ {Max(s)}]
<1>1. IsFiniteSet(S)
  BY FS_Interval
<1>2. \A s \in (SUBSET S) \ {{}} : Max(s) \in s
  <2> SUFFICES ASSUME NEW s \in (SUBSET S) \ {{}} PROVE Max(s) \in s
    OBVIOUS
  <2>0. S \subseteq Int
    OBVIOUS
  <2> HIDE DEF S
  <2>1. s \in SUBSET Int /\ IsFiniteSet(s) /\ s # {}
    BY <1>1, <2>0, FS_Subset
  <2> QED
    BY <2>1, MaxIsElement
<1>3. \A s \in (SUBSET S) \ {{}} : N[s] \in SUBSET s /\ N[s] # s
  BY <1>2
<1>a. \A s \in SUBSET S : N[s] = s \ {Max(s)}
  OBVIOUS
<1>4. G \in [(SUBSET S) \X V -> V]
  <2>1. ASSUME NEW p \in (SUBSET S) \X V
        PROVE  G[p] \in V
    <3>1. p[1] # {} => Max(p[1]) \in 1 .. n
      BY <1>2
    <3> QED
      BY <3>1
  <2>2. G = [p \in (SUBSET S) \X V |-> G[p]]
    OBVIOUS
  <2> HIDE DEF G
  <2> QED
    BY <2>1, <2>2
<1>5. \A s \in (SUBSET S) \ {{}}, v \in V : G[<<s, v>>] = step[<<v, Max(s)>>]
  OBVIOUS
<1> HIDE DEF G, N, S
<1>6. PICK it \in [SUBSET S -> V] : Solves(it, S, base, G, N)
  BY <1>1, <1>3, <1>4, SolutionExists
<1>7. ASSUME NEW s \in (SUBSET S) \ {{}}
      PROVE  it[s] = step[<<it[s \ {Max(s)}], Max(s)>>]
  <2>1. it[s] = G[<<s, it[N[s]]>>]
    BY <1>6 DEF Solves
  <2>2. N[s] \in SUBSET S /\ it[N[s]] \in V
    BY <1>3
  <2>3. it[s] = step[<<it[N[s]], Max(s)>>]
    BY <1>5, <2>1, <2>2
  <2>4. N[s] = s \ {Max(s)}
    BY <1>a
  <2> QED
    BY <2>3, <2>4
<1>8. it[{}] = base
  BY <1>6 DEF Solves
<1>9. it = [s \in SUBSET S |-> it[s]]
  OBVIOUS
<1> QED
  BY <1>7, <1>8, <1>9 DEF FoldSolution, S
=============================================================================
