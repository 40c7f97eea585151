------------------------------ MODULE FoldLemmas -------------------------------
(* What two recursive operators of the community modules compute: the sum of    *)
(* a function over a finite set (MapThenSumSet, FoldFunction) and FlattenSeq.   *)
(* Nothing is known of a recursive function before it has been shown to exist,  *)
(* so that comes first.  Inductions take a smallest counterexample, among the   *)
(* subsets of a finite set or among the naturals: the induction theorems of the *)
(* library want the predicate as an operator, the well-foundedness theorems     *)
(* only want a set.                                                             *)
EXTENDS Integers, SequencesExt, FiniteSetTheorems, WellFoundedInduction, TLAPS

--------------------------------------------------------------------------------
(* Sums.                                                                        *)

Total(f, S) == MapThenSumSet(LAMBDA k : f[k], S)

(* The element the sum takes first.                                             *)
Chosen(s) == CHOOSE x \in s : TRUE

(* g is the sum's recursive function on the subsets of S.                       *)
AddsUp(g, f, S) ==
  g = [s \in SUBSET S |->
         IF s = {} THEN 0 ELSE f[Chosen(s)] + g[s \ {Chosen(s)}]]

TheSums(f, S) == CHOOSE g : AddsUp(g, f, S)

(* It is one of them.                                                           *)
LEMMA ChosenIn ==
  ASSUME NEW s, s # {}
  PROVE  Chosen(s) \in s
  BY DEF Chosen

(* A family of subsets of a finite set that is not empty has a member none of   *)
(* whose proper subsets is in the family.                                       *)
LEMMA SmallestSubset ==
  ASSUME NEW S, IsFiniteSet(S), NEW F \in SUBSET SUBSET S, F # {}
  PROVE  \E T \in F : \A U \in SUBSET T : U # T => U \notin F
<1> DEFINE R == StrictSubsetOrdering(S)
           D == FiniteSubsetsOf(S)
<1>1. IsWellFoundedOn(R, D)
  BY FS_StrictSubsetOrderingWellFounded
<1>2. D = SUBSET S
  BY FS_FiniteSubsetsOfFinite
<1>3. \A U, T \in SUBSET S : U \subseteq T /\ U # T => <<U, T>> \in R
  BY DEF StrictSubsetOrdering
<1> HIDE DEF R, D
<1>4. PICK T \in F : \A U \in F : ~ (<<U, T>> \in R)
  BY <1>1, <1>2, WFMin
<1>5. \A U \in SUBSET T : U # T => U \notin F
  <2> SUFFICES ASSUME NEW U \in SUBSET T, U # T, U \in F
               PROVE  FALSE
    OBVIOUS
  <2>1. U \in SUBSET S /\ T \in SUBSET S
    OBVIOUS
  <2>2. <<U, T>> \in R
    BY <2>1, <1>3
  <2> QED BY <2>2, <1>4
<1>6. QED
  BY <1>5

(* Two such functions agree on the subsets both are defined on.                 *)
LEMMA SumsAgree ==
  ASSUME NEW f, NEW S, IsFiniteSet(S), NEW T \in SUBSET S,
         NEW g, NEW h, AddsUp(g, f, S), AddsUp(h, f, T)
  PROVE  \A s \in SUBSET T : g[s] = h[s]
<1> DEFINE Bad == {s \in SUBSET T : g[s] # h[s]}
<1> SUFFICES ASSUME Bad # {} PROVE FALSE
  OBVIOUS
<1>1. IsFiniteSet(T)
  BY FS_Subset
<1>2. PICK B \in Bad : \A U \in SUBSET B : U # B => U \notin Bad
  <2> HIDE DEF Bad
  <2>1. Bad \in SUBSET SUBSET T
    BY DEF Bad
  <2> QED BY <1>1, <2>1, SmallestSubset
<1>3. B \in SUBSET T /\ B \in SUBSET S /\ g[B] # h[B]
  OBVIOUS
<1>4. g[B] = IF B = {} THEN 0 ELSE f[Chosen(B)] + g[B \ {Chosen(B)}]
  BY <1>3, Zenon DEF AddsUp
<1>5. h[B] = IF B = {} THEN 0 ELSE f[Chosen(B)] + h[B \ {Chosen(B)}]
  BY <1>3, Zenon DEF AddsUp
<1>6. B # {}
  BY <1>3, <1>4, <1>5
<1>7. g[B \ {Chosen(B)}] = h[B \ {Chosen(B)}]
  <2>1. Chosen(B) \in B
    BY <1>6, ChosenIn
  <2>2. B \ {Chosen(B)} \in SUBSET B /\ B \ {Chosen(B)} # B
    BY <2>1
  <2>3. B \ {Chosen(B)} \notin Bad
    BY <2>2, <1>2
  <2> QED BY <2>2, <2>3, <1>3
<1>8. QED
  BY <1>3, <1>4, <1>5, <1>6, <1>7

(* There is one for every finite set.                                           *)
LEMMA SumsExist ==
  ASSUME NEW f, NEW S, IsFiniteSet(S)
  PROVE  AddsUp(TheSums(f, S), f, S)
<1> DEFINE Bad == {T \in SUBSET S : ~ \E g : AddsUp(g, f, T)}
<1>0. Bad = {}
  <2> SUFFICES ASSUME Bad # {} PROVE FALSE
    OBVIOUS
  <2>1. PICK T \in Bad : \A U \in SUBSET T : U # T => U \notin Bad
    <3> HIDE DEF Bad
    <3>1. Bad \in SUBSET SUBSET S
      BY DEF Bad
    <3> QED BY <3>1, SmallestSubset
  <2>2. T \in SUBSET S /\ ~ \E g : AddsUp(g, f, T)
    OBVIOUS
  <2>3. \A U \in SUBSET T : U # T => AddsUp(TheSums(f, U), f, U)
    <3> TAKE U \in SUBSET T
    <3> HAVE U # T
    <3>1. U \in SUBSET S
      BY <2>2
    <3>2. \E g : AddsUp(g, f, U)
      BY <2>1, <3>1
    <3> QED BY <3>2, Zenon DEF TheSums
  <2> DEFINE value(s) == TheSums(f, s)[s]
             h == [s \in SUBSET T |->
                     IF s = T THEN IF s = {} THEN 0
                                   ELSE f[Chosen(s)] + value(s \ {Chosen(s)})
                     ELSE value(s)]
  <2>4. \A s \in SUBSET T :
          h[s] = IF s = {} THEN 0 ELSE f[Chosen(s)] + h[s \ {Chosen(s)}]
    <3> TAKE s \in SUBSET T
    <3>1. CASE s = {}
      <4>1. CASE s = T
        BY <3>1, <4>1
      <4>2. CASE s # T
        <5>1. AddsUp(TheSums(f, s), f, s)
          BY <2>3, <4>2
        <5>2. value(s) = 0
          BY <5>1, <3>1, Zenon DEF AddsUp
        <5> QED BY <5>2, <3>1, <4>2
      <4> QED BY <4>1, <4>2
    <3>2. CASE s # {}
      <4> DEFINE r == s \ {Chosen(s)}
      <4>1. Chosen(s) \in s
        BY <3>2, ChosenIn
      <4>2. r \in SUBSET s /\ r \in SUBSET T /\ r # T /\ r # s
        BY <4>1
      <4>3. h[r] = value(r)
        BY <4>2
      <4>4. CASE s = T
        BY <4>3, <4>4, <3>2
      <4>5. CASE s # T
        <5>1. AddsUp(TheSums(f, s), f, s) /\ AddsUp(TheSums(f, r), f, r)
          BY <2>3, <4>2, <4>5
        <5>2. value(s) = f[Chosen(s)] + TheSums(f, s)[r]
          BY <5>1, <3>2, Zenon DEF AddsUp
        <5>3. IsFiniteSet(s)
          BY FS_Subset, <2>2
        <5>4. TheSums(f, s)[r] = value(r)
          <6> HIDE DEF r
          <6> QED BY <5>1, <5>3, <4>2, SumsAgree
        <5>5. h[s] = value(s)
          BY <4>5
        <5> HIDE DEF h, value
        <5> QED BY <5>2, <5>4, <5>5, <4>3, <3>2
      <4> QED BY <4>4, <4>5
    <3> QED BY <3>1, <3>2
  <2>5. AddsUp(h, f, T)
    <3>1. h = [s \in SUBSET T |-> h[s]]
      OBVIOUS
    <3> HIDE DEF h
    <3> QED BY <3>1, <2>4, Zenon DEF AddsUp
  <2> QED BY <2>2, <2>5
<1>1. \E g : AddsUp(g, f, S)
  BY <1>0
<1> QED BY <1>1, Zenon DEF TheSums

(* The sum of a set is one of its elements and the sum of the others.           *)
LEMMA TotalUnfolds ==
  ASSUME NEW f, NEW S, IsFiniteSet(S)
  PROVE  Total(f, S) = IF S = {} THEN 0
                       ELSE f[Chosen(S)] + Total(f, S \ {Chosen(S)})
<1>1. ASSUME NEW T PROVE Total(f, T) = TheSums(f, T)[T]
  BY Zenon DEF Total, MapThenSumSet, MapThenFoldSet, TheSums, AddsUp, Chosen
<1>2. AddsUp(TheSums(f, S), f, S)
  BY SumsExist
<1>3. CASE S = {}
  BY <1>1, <1>2, <1>3, Zenon DEF AddsUp
<1>4. CASE S # {}
  <2> DEFINE r == S \ {Chosen(S)}
  <2>1. r \in SUBSET S /\ IsFiniteSet(r)
    BY FS_Subset
  <2>2. AddsUp(TheSums(f, r), f, r)
    <3> HIDE DEF r
    <3> QED BY <2>1, SumsExist
  <2>3. TheSums(f, S)[r] = TheSums(f, r)[r]
    <3> HIDE DEF r
    <3> QED BY <1>2, <2>1, <2>2, SumsAgree
  <2>4. TheSums(f, S)[S] = f[Chosen(S)] + TheSums(f, S)[r]
    BY <1>2, <1>4, Zenon DEF AddsUp
  <2>5. Total(f, S) = TheSums(f, S)[S] /\ Total(f, r) = TheSums(f, r)[r]
    BY <1>1
  <2> QED BY <1>4, <2>3, <2>4, <2>5
<1>5. QED
  BY <1>3, <1>4

(* A sum of naturals is a natural.                                              *)
LEMMA TotalType ==
  ASSUME NEW S, IsFiniteSet(S), NEW f, \A k \in S : f[k] \in Nat
  PROVE  Total(f, S) \in Nat
<1> DEFINE Bad == {T \in SUBSET S : Total(f, T) \notin Nat}
<1> SUFFICES ASSUME Bad # {} PROVE FALSE
  BY DEF Bad
<1>1. PICK T \in Bad : \A U \in SUBSET T : U # T => U \notin Bad
  <2>1. Bad \in SUBSET SUBSET S
    OBVIOUS
  <2> HIDE DEF Bad
  <2> QED BY <2>1, SmallestSubset
<1>2. T \in SUBSET S /\ IsFiniteSet(T) /\ Total(f, T) \notin Nat
  BY FS_Subset
<1>3. Total(f, T) = IF T = {} THEN 0 ELSE f[Chosen(T)] + Total(f, T \ {Chosen(T)})
  BY <1>2, TotalUnfolds
<1>4. T # {} /\ Chosen(T) \in T
  BY <1>2, <1>3, ChosenIn
<1>5. Total(f, T \ {Chosen(T)}) \in Nat
  BY <1>1, <1>2, <1>4
<1>6. QED
  BY <1>2, <1>3, <1>4, <1>5

(* The element taken first may be any.                                          *)
LEMMA TotalPick ==
  ASSUME NEW S, IsFiniteSet(S), NEW f, \A k \in S : f[k] \in Nat, NEW x \in S
  PROVE  Total(f, S) = f[x] + Total(f, S \ {x})
<1> DEFINE Holds(T) == \A y \in T : Total(f, T) = f[y] + Total(f, T \ {y})
           Bad == {T \in SUBSET S : ~Holds(T)}
<1> SUFFICES ASSUME Bad # {} PROVE FALSE
  OBVIOUS
<1>1. PICK T \in Bad : \A U \in SUBSET T : U # T => U \notin Bad
  <2>1. Bad \in SUBSET SUBSET S
    OBVIOUS
  <2> HIDE DEF Bad
  <2> QED BY <2>1, SmallestSubset
<1>2. T \in SUBSET S /\ IsFiniteSet(T)
  BY FS_Subset
<1>3. PICK y \in T : Total(f, T) # f[y] + Total(f, T \ {y})
  OBVIOUS
<1> DEFINE c == Chosen(T)
<1>4. Total(f, T) = f[c] + Total(f, T \ {c})
  BY <1>2, <1>3, TotalUnfolds
<1>5. c \in T /\ c # y
  BY <1>3, <1>4, ChosenIn
<1>6. Total(f, T \ {c}) = f[y] + Total(f, (T \ {c}) \ {y})
  BY <1>1, <1>2, <1>5
<1>7. Total(f, T \ {y}) = f[c] + Total(f, (T \ {y}) \ {c})
  BY <1>1, <1>2, <1>5
<1>8. (T \ {c}) \ {y} = (T \ {y}) \ {c}
  OBVIOUS
<1>9. Total(f, (T \ {y}) \ {c}) \in Nat
  <2>1. (T \ {y}) \ {c} \in SUBSET S
    BY <1>2
  <2>2. IsFiniteSet((T \ {y}) \ {c})
    BY <2>1, FS_Subset
  <2> QED BY <2>1, <2>2, TotalType
<1>10. f[c] \in Nat /\ f[y] \in Nat
  BY <1>2, <1>5
<1> HIDE DEF c
<1>11. QED
  BY <1>3, <1>4, <1>6, <1>7, <1>8, <1>9, <1>10

(* A sum grows with its terms.                                                  *)
LEMMA TotalMonotone ==
  ASSUME NEW S, IsFiniteSet(S), NEW f, NEW g,
         \A k \in S : f[k] \in Nat /\ g[k] \in Nat /\ f[k] <= g[k]
  PROVE  Total(f, S) <= Total(g, S)
<1> DEFINE Bad == {T \in SUBSET S : ~(Total(f, T) <= Total(g, T))}
<1> SUFFICES ASSUME Bad # {} PROVE FALSE
  OBVIOUS
<1>1. PICK T \in Bad : \A U \in SUBSET T : U # T => U \notin Bad
  <2>1. Bad \in SUBSET SUBSET S
    OBVIOUS
  <2> HIDE DEF Bad
  <2> QED BY <2>1, SmallestSubset
<1>2. T \in SUBSET S /\ IsFiniteSet(T) /\ ~(Total(f, T) <= Total(g, T))
  BY FS_Subset
<1>3. Total(f, T) = IF T = {} THEN 0 ELSE f[Chosen(T)] + Total(f, T \ {Chosen(T)})
  BY <1>2, TotalUnfolds
<1>4. Total(g, T) = IF T = {} THEN 0 ELSE g[Chosen(T)] + Total(g, T \ {Chosen(T)})
  BY <1>2, TotalUnfolds
<1>5. T # {} /\ Chosen(T) \in T
  BY <1>2, <1>3, <1>4, ChosenIn
<1> DEFINE r == T \ {Chosen(T)}
<1>6. r \in SUBSET S /\ IsFiniteSet(r)
  BY <1>2, FS_Subset
<1>7. Total(f, r) <= Total(g, r)
  BY <1>1, <1>2, <1>5
<1>8. Total(f, r) \in Nat /\ Total(g, r) \in Nat
  <2> HIDE DEF r
  <2> QED BY <1>6, TotalType
<1>9. QED
  BY <1>2, <1>3, <1>4, <1>5, <1>7, <1>8

(* Sums are added term by term.                                                 *)
LEMMA TotalPlus ==
  ASSUME NEW S, IsFiniteSet(S), NEW f, NEW g, NEW h,
         \A k \in S : f[k] \in Nat /\ g[k] \in Nat /\ h[k] = f[k] + g[k]
  PROVE  Total(h, S) = Total(f, S) + Total(g, S)
<1> DEFINE Bad == {T \in SUBSET S : Total(h, T) # Total(f, T) + Total(g, T)}
<1> SUFFICES ASSUME Bad # {} PROVE FALSE
  OBVIOUS
<1>1. PICK T \in Bad : \A U \in SUBSET T : U # T => U \notin Bad
  <2>1. Bad \in SUBSET SUBSET S
    OBVIOUS
  <2> HIDE DEF Bad
  <2> QED BY <2>1, SmallestSubset
<1>2. T \in SUBSET S /\ IsFiniteSet(T) /\ Total(h, T) # Total(f, T) + Total(g, T)
  BY FS_Subset
<1>3. Total(f, T) = IF T = {} THEN 0 ELSE f[Chosen(T)] + Total(f, T \ {Chosen(T)})
  BY <1>2, TotalUnfolds
<1>4. Total(g, T) = IF T = {} THEN 0 ELSE g[Chosen(T)] + Total(g, T \ {Chosen(T)})
  BY <1>2, TotalUnfolds
<1>5. Total(h, T) = IF T = {} THEN 0 ELSE h[Chosen(T)] + Total(h, T \ {Chosen(T)})
  BY <1>2, TotalUnfolds
<1>6. T # {} /\ Chosen(T) \in T
  BY <1>2, <1>3, <1>4, <1>5, ChosenIn
<1> DEFINE r == T \ {Chosen(T)}
<1>7. r \in SUBSET S /\ IsFiniteSet(r)
  BY <1>2, FS_Subset
<1>8. Total(h, r) = Total(f, r) + Total(g, r)
  BY <1>1, <1>2, <1>6
<1>9. Total(f, r) \in Nat /\ Total(g, r) \in Nat
  <2> HIDE DEF r
  <2> QED BY <1>7, TotalType
<1>10. QED
  BY <1>2, <1>3, <1>4, <1>5, <1>6, <1>8, <1>9

(* No term is greater than the sum.                                             *)
LEMMA TermBelowTotal ==
  ASSUME NEW S, IsFiniteSet(S), NEW f, \A k \in S : f[k] \in Nat, NEW x \in S
  PROVE  f[x] <= Total(f, S)
<1>1. Total(f, S) = f[x] + Total(f, S \ {x})
  BY TotalPick
<1>2. IsFiniteSet(S \ {x})
  BY FS_RemoveElement
<1>3. Total(f, S \ {x}) \in Nat
  BY <1>2, TotalType
<1>4. QED
  BY <1>1, <1>3

(* When one term grows by one, so does the sum.                                 *)
LEMMA TotalIncrement ==
  ASSUME NEW S, IsFiniteSet(S), NEW f, NEW g, NEW x \in S,
         \A k \in S : f[k] \in Nat /\ g[k] = IF k = x THEN f[k] + 1 ELSE f[k]
  PROVE  Total(g, S) = Total(f, S) + 1
<1>1. IsFiniteSet(S \ {x})
  BY FS_RemoveElement
<1>2. Total(f, S) = f[x] + Total(f, S \ {x})
  BY TotalPick
<1>3. Total(g, S) = g[x] + Total(g, S \ {x})
  BY TotalPick
<1>4. Total(f, S \ {x}) <= Total(g, S \ {x})
  BY <1>1, TotalMonotone
<1>5. Total(g, S \ {x}) <= Total(f, S \ {x})
  BY <1>1, TotalMonotone
<1>6. Total(f, S \ {x}) \in Nat /\ Total(g, S \ {x}) \in Nat
  BY <1>1, TotalType
<1>7. QED
  BY <1>2, <1>3, <1>4, <1>5, <1>6

--------------------------------------------------------------------------------
(* Sequences of sequences.                                                      *)

(* A set of naturals that is not empty has a least element.                     *)
LEMMA LeastNatural ==
  ASSUME NEW T \in SUBSET Nat, T # {}
  PROVE  \E n \in T : \A m \in T : n <= m
<1> DEFINE R == OpToRel(<, Nat)
<1>1. IsWellFoundedOn(R, Nat)
  BY NatLessThanWellFounded
<1>2. \A x, y \in Nat : <<y, x>> \in R <=> y < x
  BY DEF OpToRel
<1> HIDE DEF R
<1>3. PICK x \in T : \A y \in T : ~ (<<y, x>> \in R)
  BY <1>1, WFMin
<1>4. \A m \in T : x <= m
  <2> TAKE m \in T
  <2>1. ~(m < x)
    BY <1>2, <1>3
  <2> QED BY <2>1
<1>5. QED
  BY <1>4

(* g joins the first sequences of s, up to each of the first n.                 *)
Joins(g, s, n) ==
  g = [i \in 1..n |-> IF i = 1 THEN s[i] ELSE g[i - 1] \o s[i]]

Joined(s, n) == CHOOSE g : Joins(g, s, n)

(* There is such a function up to any n, and so Joined is one.                  *)
LEMMA JoinedExists ==
  ASSUME NEW s, NEW n \in Nat
  PROVE  Joins(Joined(s, n), s, n)
<1> DEFINE Bad == {m \in Nat : ~ \E g : Joins(g, s, m)}
<1>1. Bad = {}
  <2> SUFFICES ASSUME Bad # {} PROVE FALSE
    OBVIOUS
  <2>1. PICK m \in Bad : \A k \in Bad : m <= k
    <3>1. Bad \in SUBSET Nat
      OBVIOUS
    <3> HIDE DEF Bad
    <3> QED BY <3>1, LeastNatural
  <2>2. m \in Nat /\ ~ \E g : Joins(g, s, m)
    OBVIOUS
  <2>3. m # 0
    <3>1. Joins(<<>>, s, 0)
      BY DEF Joins
    <3> QED BY <2>2, <3>1
  <2>4. PICK g : Joins(g, s, m - 1)
    <3>1. m - 1 \in Nat /\ m - 1 < m
      BY <2>2, <2>3
    <3>2. m - 1 \notin Bad
      BY <2>1, <3>1
    <3> QED BY <3>1, <3>2
  <2> DEFINE last == IF m = 1 THEN s[m] ELSE g[m - 1] \o s[m]
             h == [i \in 1..m |-> IF i = m THEN last ELSE g[i]]
  <2>5. \A i \in 1..m : h[i] = IF i = 1 THEN s[i] ELSE h[i - 1] \o s[i]
    <3> TAKE i \in 1..m
    <3>1. CASE i = m
      <4>1. m = 1 \/ m - 1 \in 1..m
        BY <2>2, <2>3
      <4>2. m = 1 \/ h[m - 1] = g[m - 1]
        BY <4>1, <2>2
      <4> QED BY <3>1, <4>2
    <3>2. CASE i # m
      <4>1. i \in 1..m - 1 /\ h[i] = g[i]
        BY <3>2, <2>2
      <4>2. g[i] = IF i = 1 THEN s[i] ELSE g[i - 1] \o s[i]
        BY <2>4, <4>1, Zenon DEF Joins
      <4>3. i = 1 \/ (i - 1 \in 1..m /\ i - 1 # m)
        BY <4>1, <2>2
      <4>4. i = 1 \/ h[i - 1] = g[i - 1]
        BY <4>3
      <4> HIDE DEF h
      <4> QED BY <4>1, <4>2, <4>4
    <3> QED BY <3>1, <3>2
  <2>6. Joins(h, s, m)
    <3>1. h = [i \in 1..m |-> h[i]]
      OBVIOUS
    <3> HIDE DEF h
    <3> QED BY <2>5, <3>1, Zenon DEF Joins
  <2> QED BY <2>2, <2>6
<1>2. \E g : Joins(g, s, n)
  BY <1>1
<1> QED BY <1>2, Zenon DEF Joined

(* The sequence s occurs in the sequence t without a gap.                       *)
Occurs(s, t) ==
  \E start \in Nat :
    /\ start + Len(s) <= Len(t)
    /\ \A m \in 1..Len(s) : t[start + m] = s[m]

(* What occurs in a sequence still does when more is joined to it, and what is  *)
(* joined occurs too.                                                           *)
LEMMA OccursInJoined ==
  ASSUME NEW A, NEW t \in Seq(A), NEW u \in Seq(A)
  PROVE  /\ t \o u \in Seq(A)
         /\ \A s \in Seq(A) : Occurs(s, t) => Occurs(s, t \o u)
         /\ Occurs(u, t \o u)
<1>1. /\ t \o u \in Seq(A) /\ Len(t \o u) = Len(t) + Len(u)
      /\ Len(t) \in Nat /\ Len(u) \in Nat
      /\ \A i \in 1..Len(t) + Len(u) :
           (t \o u)[i] = IF i <= Len(t) THEN t[i] ELSE u[i - Len(t)]
  OBVIOUS
<1> DEFINE j == t \o u
<1>2. ASSUME NEW s \in Seq(A), Occurs(s, t)
      PROVE  Occurs(s, j)
  <2>1. PICK start \in Nat : /\ start + Len(s) <= Len(t)
                             /\ \A m \in 1..Len(s) : t[start + m] = s[m]
    BY <1>2 DEF Occurs
  <2>2. Len(s) \in Nat
    OBVIOUS
  <2>3. \A m \in 1..Len(s) : j[start + m] = s[m]
    <3> TAKE m \in 1..Len(s)
    <3>1. start + m \in 1..Len(t) + Len(u) /\ start + m <= Len(t)
      BY <1>1, <2>1, <2>2
    <3> QED BY <1>1, <2>1, <3>1
  <2> HIDE DEF j
  <2>4. start + Len(s) <= Len(j)
    BY <1>1, <2>1, <2>2 DEF j
  <2> QED BY <2>3, <2>4 DEF Occurs
<1>3. Occurs(u, j)
  <2>1. \A m \in 1..Len(u) : j[Len(t) + m] = u[m]
    <3> TAKE m \in 1..Len(u)
    <3>1. Len(t) + m \in 1..Len(t) + Len(u) /\ ~(Len(t) + m <= Len(t))
          /\ Len(t) + m - Len(t) = m
      BY <1>1
    <3> QED BY <1>1, <3>1
  <2>2. Len(t) + Len(u) <= Len(j)
    BY <1>1
  <2> HIDE DEF j
  <2> QED BY <1>1, <2>1, <2>2 DEF Occurs
<1>4. QED
  BY <1>1, <1>2, <1>3

(* A sequence occurs in itself.                                                 *)
LEMMA OccursInItself ==
  ASSUME NEW A, NEW s \in Seq(A)
  PROVE  Occurs(s, s)
<1>1. Len(s) \in Nat /\ 0 + Len(s) <= Len(s) /\ \A m \in 1..Len(s) : s[0 + m] = s[m]
  OBVIOUS
<1> QED BY <1>1 DEF Occurs

(* FlattenSeq makes one sequence, in which each of the given ones occurs.       *)
LEMMA FlattenSeqJoins ==
  ASSUME NEW A, NEW s \in Seq(Seq(A)), s # <<>>
  PROVE  /\ FlattenSeq(s) \in Seq(A)
         /\ \A k \in 1..Len(s) : Occurs(s[k], FlattenSeq(s))
<1> DEFINE N == Len(s)
           g == Joined(s, N)
           Fine(i) == g[i] \in Seq(A) /\ \A k \in 1..i : Occurs(s[k], g[i])
           Bad == {i \in 1..N : ~Fine(i)}
<1>1. N \in Nat \ {0} /\ \A i \in 1..N : s[i] \in Seq(A)
  OBVIOUS
<1>2. FlattenSeq(s) = g[N]
  BY <1>1, Zenon DEF FlattenSeq, Joined, Joins
<1>3. \A i \in 1..N : g[i] = IF i = 1 THEN s[i] ELSE g[i - 1] \o s[i]
  <2>1. Joins(g, s, N)
    BY <1>1, JoinedExists
  <2> HIDE DEF g, N
  <2> QED BY <2>1, Zenon DEF Joins
<1> HIDE DEF g, N
<1>4. Bad = {}
  <2> SUFFICES ASSUME Bad # {} PROVE FALSE
    OBVIOUS
  <2>1. PICK i \in Bad : \A k \in Bad : i <= k
    <3>1. Bad \in SUBSET Nat
      BY <1>1
    <3> HIDE DEF Bad
    <3> QED BY <3>1, LeastNatural
  <2>2. i \in 1..N /\ ~Fine(i)
    OBVIOUS
  <2>3. CASE i = 1
    <3>1. g[i] = s[1] /\ s[1] \in Seq(A)
      BY <1>1, <1>3, <2>2, <2>3
    <3>2. Occurs(s[1], s[1])
      BY <3>1, OccursInItself
    <3>3. Fine(i)
      BY <2>3, <3>1, <3>2
    <3> QED BY <2>2, <3>3
  <2>4. CASE i # 1
    <3>1. i - 1 \in 1..N /\ i - 1 < i
      BY <1>1, <2>2, <2>4
    <3>2. Fine(i - 1)
      BY <2>1, <3>1, <1>1
    <3>3. g[i] = g[i - 1] \o s[i] /\ s[i] \in Seq(A) /\ g[i - 1] \in Seq(A)
      BY <1>1, <1>3, <2>2, <2>4, <3>2
    <3>4. /\ g[i] \in Seq(A) /\ Occurs(s[i], g[i])
          /\ \A u \in Seq(A) : Occurs(u, g[i - 1]) => Occurs(u, g[i])
      BY <3>3, OccursInJoined
    <3>5. ASSUME NEW k \in 1..i PROVE Occurs(s[k], g[i])
      <4>1. CASE k = i
        BY <3>4, <4>1
      <4>2. CASE k # i
        <5>1. k \in 1..i - 1 /\ k \in 1..N
          BY <1>1, <2>2, <4>2
        <5> QED BY <1>1, <3>2, <3>4, <5>1
      <4> QED BY <4>1, <4>2
    <3>6. Fine(i)
      BY <3>4, <3>5
    <3> QED BY <2>2, <3>6
  <2> QED BY <2>3, <2>4
<1>5. Fine(N)
  BY <1>1, <1>4
<1> QED
  BY <1>2, <1>5 DEF N

(* The joined sequences up to each of those of s, each the beginning of the next.*)
LEMMA JoinedGrow ==
  ASSUME NEW A, NEW s \in Seq(Seq(A)), s # <<>>, NEW g, g = Joined(s, Len(s))
  PROVE  /\ FlattenSeq(s) = g[Len(s)]
         /\ \A i \in 1..Len(s) : /\ g[i] = IF i = 1 THEN s[i] ELSE g[i - 1] \o s[i]
                                /\ g[i] \in Seq(A)
                                /\ \A k \in 1..i, u \in Seq(A) :
                                     Occurs(u, g[k]) => Occurs(u, g[i])
<1> DEFINE N == Len(s)
           Fine(i) == /\ g[i] \in Seq(A)
                      /\ \A k \in 1..i, u \in Seq(A) : Occurs(u, g[k]) => Occurs(u, g[i])
           Bad == {i \in 1..N : ~Fine(i)}
<1>1. N \in Nat \ {0} /\ \A i \in 1..N : s[i] \in Seq(A)
  OBVIOUS
<1>2. FlattenSeq(s) = g[N]
  BY <1>1, Zenon DEF FlattenSeq, Joined, Joins
<1>3. \A i \in 1..N : g[i] = IF i = 1 THEN s[i] ELSE g[i - 1] \o s[i]
  <2>1. Joins(g, s, N)
    BY <1>1, JoinedExists
  <2> HIDE DEF N
  <2> QED BY <2>1, Zenon DEF Joins
<1> HIDE DEF N
<1>4. Bad = {}
  <2> SUFFICES ASSUME Bad # {} PROVE FALSE
    OBVIOUS
  <2>1. PICK i \in Bad : \A k \in Bad : i <= k
    <3>1. Bad \in SUBSET Nat
      BY <1>1
    <3> HIDE DEF Bad
    <3> QED BY <3>1, LeastNatural
  <2>2. i \in 1..N /\ ~Fine(i)
    OBVIOUS
  <2>3. CASE i = 1
    <3>1. g[i] = s[1] /\ s[1] \in Seq(A)
      BY <1>1, <1>3, <2>2, <2>3
    <3>2. \A k \in 1..i : k = i
      BY <2>3
    <3>3. Fine(i)
      BY <2>3, <3>1, <3>2
    <3> QED BY <2>2, <3>3
  <2>4. CASE i # 1
    <3>1. i - 1 \in 1..N /\ i - 1 < i
      BY <1>1, <2>2, <2>4
    <3>2. Fine(i - 1)
      BY <2>1, <3>1, <1>1
    <3>3. g[i] = g[i - 1] \o s[i] /\ s[i] \in Seq(A) /\ g[i - 1] \in Seq(A)
      BY <1>1, <1>3, <2>2, <2>4, <3>2
    <3>4. /\ g[i] \in Seq(A)
          /\ \A u \in Seq(A) : Occurs(u, g[i - 1]) => Occurs(u, g[i])
      BY <3>3, OccursInJoined
    <3>5. ASSUME NEW k \in 1..i, NEW u \in Seq(A), Occurs(u, g[k]) PROVE Occurs(u, g[i])
      <4>1. CASE k = i
        BY <3>5, <4>1
      <4>2. CASE k # i
        <5>1. k \in 1..i - 1
          BY <1>1, <2>2, <4>2
        <5>2. Occurs(u, g[i - 1])
          BY <3>2, <3>5, <5>1
        <5> QED BY <3>4, <5>2
      <4> QED BY <4>1, <4>2
    <3>6. Fine(i)
      BY <3>4, <3>5
    <3> QED BY <2>2, <3>6
  <2> QED BY <2>3, <2>4
<1>5. \A i \in 1..N : Fine(i)
  BY <1>4
<1>6. QED
  BY <1>2, <1>3, <1>5 DEF N

(* The same of a function that is left unsaid.                                  *)
LEMMA FlattenSeqGrows ==
  ASSUME NEW A, NEW s \in Seq(Seq(A)), s # <<>>
  PROVE  \E g : /\ FlattenSeq(s) = g[Len(s)]
               /\ \A i \in 1..Len(s) : /\ g[i] = IF i = 1 THEN s[i] ELSE g[i - 1] \o s[i]
                                      /\ g[i] \in Seq(A)
                                      /\ \A k \in 1..i, u \in Seq(A) :
                                           Occurs(u, g[k]) => Occurs(u, g[i])
  BY JoinedGrow

(* g joins the first N sequences of s, all of elements of A; p is the part of n  *)
(* elements of s that begins with the ath; g is what comes before with h.       *)
Joining(g, s, N, A) ==
  \A i \in 1..N : /\ g[i] = IF i = 1 THEN s[i] ELSE g[i - 1] \o s[i]
                 /\ g[i] \in Seq(A) /\ s[i] \in Seq(A)

PartOf(p, n, s, a) == \A j \in 1..n : p[j] = s[a - 1 + j]

ContinuesWith(g, a, h, j) == g[a - 1 + j] = IF a = 1 THEN h[j] ELSE g[a - 1] \o h[j]

(* The words of a part, from its first chunk.                                 *)
LEMMA PartBegins ==
  ASSUME NEW A, NEW s, NEW g, NEW N \in Nat, Joining(g, s, N, A),
         NEW a \in 1..N, NEW n \in Nat, n # 0, NEW p, NEW h,
         Joining(h, p, n, A), PartOf(p, n, s, a)
  PROVE  ContinuesWith(g, a, h, 1)
<1>1. 1 \in 1..n /\ a - 1 + 1 = a
  OBVIOUS
<1>2. h[1] = p[1] /\ p[1] = s[a]
  BY <1>1 DEF Joining, PartOf
<1>3. g[a] = IF a = 1 THEN s[a] ELSE g[a - 1] \o s[a]
  BY DEF Joining
<1>4. QED
  BY <1>1, <1>2, <1>3 DEF ContinuesWith

(* One more chunk of the part continues both.                                 *)
LEMMA PartContinues ==
  ASSUME NEW A, NEW s, NEW g, NEW N \in Nat, Joining(g, s, N, A),
         NEW a \in 1..N, NEW n \in Nat, a - 1 + n <= N, NEW p, NEW h,
         Joining(h, p, n, A), PartOf(p, n, s, a),
         NEW j \in 1..n, NEW k \in 1..n, k = j - 1, ContinuesWith(g, a, h, k)
  PROVE  ContinuesWith(g, a, h, j)
<1>1. PICK i \in 1..N : i = a - 1 + j
  OBVIOUS
<1>2. i - 1 = a - 1 + k /\ i # 1 /\ j # 1 /\ j - 1 = k
  BY <1>1
<1>3. h[j] = h[k] \o s[i] /\ h[k] \in Seq(A)
  <2>1. h[j] = h[k] \o p[j] /\ h[k] \in Seq(A)
    BY <1>2 DEF Joining
  <2>2. p[j] = s[i]
    BY <1>1 DEF PartOf
  <2> QED BY <2>1, <2>2
<1>4. g[i] = g[i - 1] \o s[i] /\ s[i] \in Seq(A)
  BY <1>2 DEF Joining
<1>5. g[i - 1] = IF a = 1 THEN h[k] ELSE g[a - 1] \o h[k]
  BY <1>2 DEF ContinuesWith
<1>6. CASE a = 1
  BY <1>1, <1>3, <1>4, <1>5, <1>6 DEF ContinuesWith
<1>7. CASE a # 1
  <2>1. g[a - 1] \in Seq(A)
    BY <1>7 DEF Joining
  <2>2. (g[a - 1] \o h[k]) \o s[i] = g[a - 1] \o (h[k] \o s[i])
    <3>1. \A x, y, z \in Seq(A) : (x \o y) \o z = x \o (y \o z)
      OBVIOUS
    <3>2. \A y, z \in Seq(A) : (g[a - 1] \o y) \o z = g[a - 1] \o (y \o z)
      BY <2>1, <3>1
    <3> QED BY <3>2, <1>3, <1>4, Zenon
  <2>3. g[i] = g[a - 1] \o h[j]
    BY <2>2, <1>3, <1>4, <1>5, <1>7
  <2> QED BY <2>3, <1>1, <1>7 DEF ContinuesWith
<1>8. QED
  BY <1>6, <1>7

(* A part joined stands in the whole joined, where its first chunk begins.    *)
LEMMA PartJoins ==
  ASSUME NEW A, NEW s, NEW g, NEW N \in Nat, Joining(g, s, N, A),
         NEW a \in 1..N, NEW n \in Nat, a - 1 + n <= N, NEW p, NEW h,
         Joining(h, p, n, A), PartOf(p, n, s, a)
  PROVE  \A j \in 1..n : ContinuesWith(g, a, h, j)
<1> DEFINE Bad == {j \in 1..n : ~ContinuesWith(g, a, h, j)}
<1>1. Bad = {}
  <2> SUFFICES ASSUME Bad # {} PROVE FALSE
    OBVIOUS
  <2>1. PICK j \in Bad : \A k \in Bad : j <= k
    <3>1. Bad \in SUBSET Nat
      OBVIOUS
    <3> HIDE DEF Bad
    <3> QED BY <3>1, LeastNatural
  <2>2. j \in 1..n /\ ~ContinuesWith(g, a, h, j) /\ j \in Nat /\ n # 0
    OBVIOUS
  <2>3. CASE j = 1
    BY <2>2, <2>3, PartBegins
  <2>4. CASE j # 1
    <3>1. PICK k \in 1..n : k = j - 1
      BY <2>2, <2>4
    <3>2. k \notin Bad
      <4>1. ~(j <= k)
        BY <2>2, <3>1
      <4> HIDE DEF Bad
      <4> QED BY <2>1, <4>1
    <3>3. ContinuesWith(g, a, h, k)
      BY <3>2
    <3> HIDE DEF Bad
    <3> QED BY <2>2, <3>1, <3>3, PartContinues
  <2> QED BY <2>3, <2>4
<1>2. QED
  BY <1>1

(* What a part of s makes occurs in what s makes.                               *)
LEMMA PartOccurs ==
  ASSUME NEW A, NEW s \in Seq(Seq(A)), NEW a \in 1..Len(s), NEW b \in 1..Len(s), a <= b
  PROVE  /\ FlattenSeq(SubSeq(s, a, b)) \in Seq(A)
         /\ Occurs(FlattenSeq(SubSeq(s, a, b)), FlattenSeq(s))
<1> DEFINE n == b - a + 1
           p == SubSeq(s, a, b)
<1>1. /\ p \in Seq(Seq(A)) /\ Len(p) = n
      /\ \A j \in 1..n : p[j] = s[a - 1 + j]
  OBVIOUS
<1>2. n \in Nat /\ n \in 1..n /\ a - 1 + n = b /\ b <= Len(s) /\ s # <<>> /\ Len(s) \in Nat
  OBVIOUS
<1>3. p # <<>> /\ \A j \in 1..n : p[j] \in Seq(A)
  <2> HIDE DEF p, n
  <2> QED BY <1>1, <1>2
<1> HIDE DEF p, n
<1>4. PICK g : /\ FlattenSeq(s) = g[Len(s)]
               /\ \A i \in 1..Len(s) : /\ g[i] = IF i = 1 THEN s[i] ELSE g[i - 1] \o s[i]
                                      /\ g[i] \in Seq(A)
                                      /\ \A k \in 1..i, u \in Seq(A) :
                                           Occurs(u, g[k]) => Occurs(u, g[i])
  BY <1>2, FlattenSeqGrows
<1>5. PICK h : /\ FlattenSeq(p) = h[Len(p)]
               /\ \A i \in 1..Len(p) : /\ h[i] = IF i = 1 THEN p[i] ELSE h[i - 1] \o p[i]
                                      /\ h[i] \in Seq(A)
                                      /\ \A k \in 1..i, u \in Seq(A) :
                                           Occurs(u, h[k]) => Occurs(u, h[i])
  BY <1>1, <1>3, FlattenSeqGrows
<1>6. Joining(g, s, Len(s), A) /\ Joining(h, p, n, A) /\ PartOf(p, n, s, a)
  <2>1. Joining(g, s, Len(s), A)
    BY <1>4 DEF Joining
  <2>2. Joining(h, p, n, A)
    BY <1>1, <1>3, <1>5 DEF Joining
  <2>3. PartOf(p, n, s, a)
    BY <1>1 DEF PartOf
  <2> QED BY <2>1, <2>2, <2>3
<1>7. ContinuesWith(g, a, h, n)
  <2>1. a - 1 + n <= Len(s) /\ Len(s) \in Nat /\ n \in Nat
    BY <1>2
  <2>2. \A j \in 1..n : ContinuesWith(g, a, h, j)
    BY <2>1, <1>6, PartJoins
  <2> QED BY <1>2, <2>2
<1>8. FlattenSeq(p) = h[n] /\ h[n] \in Seq(A)
  BY <1>1, <1>2, <1>5
<1>9. Occurs(h[n], g[b])
  <2>1. g[b] = IF a = 1 THEN h[n] ELSE g[a - 1] \o h[n]
    BY <1>2, <1>7 DEF ContinuesWith
  <2>2. CASE a = 1
    BY <2>1, <2>2, <1>8, OccursInItself
  <2>3. CASE a # 1
    <3>1. g[a - 1] \in Seq(A)
      BY <1>4, <2>3
    <3> QED BY <2>1, <2>3, <3>1, <1>8, OccursInJoined
  <2> QED BY <2>2, <2>3
<1>10. Occurs(h[n], g[Len(s)])
  <2>1. Len(s) \in 1..Len(s) /\ b \in 1..Len(s)
    BY <1>2
  <2> QED BY <2>1, <1>4, <1>8, <1>9
<1>11. QED
  BY <1>4, <1>8, <1>10 DEF p

(* A sequence and one element more.                                             *)
LEMMA OneJoined ==
  ASSUME NEW A, NEW t \in Seq(A), NEW u \in Seq(A)
  PROVE  Len(u) = 1 => /\ Len(t \o u) = Len(t) + 1
                       /\ (t \o u)[Len(t) + 1] = u[1]
                       /\ \A m \in 1..Len(t) : (t \o u)[m] = t[m]
<1>1. /\ Len(t \o u) = Len(t) + Len(u) /\ Len(t) \in Nat
      /\ \A i \in 1..Len(t) + Len(u) :
           (t \o u)[i] = IF i <= Len(t) THEN t[i] ELSE u[i - Len(t)]
  OBVIOUS
<1> SUFFICES ASSUME Len(u) = 1
             PROVE  /\ Len(t \o u) = Len(t) + 1
                    /\ (t \o u)[Len(t) + 1] = u[1]
                    /\ \A m \in 1..Len(t) : (t \o u)[m] = t[m]
  OBVIOUS
<1>2. Len(t) + 1 \in 1..Len(t) + Len(u) /\ ~(Len(t) + 1 <= Len(t)) /\ Len(t) + 1 - Len(t) = 1
  BY <1>1
<1>3. (t \o u)[Len(t) + 1] = u[1]
  BY <1>1, <1>2
<1>4. \A m \in 1..Len(t) : (t \o u)[m] = t[m]
  BY <1>1
<1>5. QED
  BY <1>1, <1>3, <1>4

(* Sequences of one element each make the sequence of the elements.             *)
LEMMA OnesFlatten ==
  ASSUME NEW A, NEW s \in Seq(Seq(A)), \A i \in DOMAIN s : Len(s[i]) = 1
  PROVE  FlattenSeq(s) = [i \in DOMAIN s |-> s[i][1]]
<1>1. Len(s) \in Nat /\ DOMAIN s = 1..Len(s) /\ \A i \in 1..Len(s) : s[i] \in Seq(A) /\ Len(s[i]) = 1
  OBVIOUS
<1>2. CASE s = <<>>
  <2>1. Len(<<>>) = 0
    OBVIOUS
  <2>2. FlattenSeq(<<>>) = <<>>
    BY <2>1, Zenon DEF FlattenSeq
  <2> QED BY <1>2, <2>2
<1>3. CASE s # <<>>
  <2>1. PICK g : /\ FlattenSeq(s) = g[Len(s)]
                 /\ \A i \in 1..Len(s) : /\ g[i] = IF i = 1 THEN s[i] ELSE g[i - 1] \o s[i]
                                        /\ g[i] \in Seq(A)
                                        /\ \A k \in 1..i, u \in Seq(A) :
                                             Occurs(u, g[k]) => Occurs(u, g[i])
    BY <1>3, FlattenSeqGrows
  <2> DEFINE Fine(i) == Len(g[i]) = i /\ \A m \in 1..i : g[i][m] = s[m][1]
             Bad == {i \in 1..Len(s) : ~Fine(i)}
  <2>2. Bad = {}
    <3> SUFFICES ASSUME Bad # {} PROVE FALSE
      OBVIOUS
    <3>1. PICK i \in Bad : \A k \in Bad : i <= k
      <4>1. Bad \in SUBSET Nat
        BY <1>1
      <4> HIDE DEF Bad
      <4> QED BY <4>1, LeastNatural
    <3>2. i \in 1..Len(s) /\ ~Fine(i)
      OBVIOUS
    <3>3. CASE i = 1
      <4>1. g[1] = s[1] /\ Len(s[1]) = 1
        BY <1>1, <2>1, <3>2, <3>3
      <4>2. \A m \in 1..1 : m = 1
        OBVIOUS
      <4>3. Fine(1)
        BY <4>1, <4>2
      <4> QED BY <3>2, <3>3, <4>3
    <3>4. CASE i # 1
      <4>1. i - 1 \in 1..Len(s) /\ ~(i <= i - 1) /\ i \in Nat
        BY <1>1, <3>2, <3>4
      <4>2. Fine(i - 1)
        <5>1. i - 1 \notin Bad
          <6> HIDE DEF Bad
          <6> QED BY <3>1, <4>1
        <5> QED BY <4>1, <5>1
      <4>3. /\ g[i] = g[i - 1] \o s[i] /\ g[i - 1] \in Seq(A)
            /\ s[i] \in Seq(A) /\ Len(s[i]) = 1
        BY <1>1, <2>1, <3>2, <3>4, <4>1
      <4>4. /\ Len(g[i]) = Len(g[i - 1]) + 1
            /\ g[i][Len(g[i - 1]) + 1] = s[i][1]
            /\ \A m \in 1..Len(g[i - 1]) : g[i][m] = g[i - 1][m]
        <5> HIDE DEF Fine, Bad
        <5>1. \A t, u \in Seq(A) : Len(u) = 1 =>
                /\ Len(t \o u) = Len(t) + 1
                /\ (t \o u)[Len(t) + 1] = u[1]
                /\ \A m \in 1..Len(t) : (t \o u)[m] = t[m]
          BY OneJoined
        <5>2. LET x == g[i - 1] \o s[i] IN
                /\ Len(x) = Len(g[i - 1]) + 1
                /\ x[Len(g[i - 1]) + 1] = s[i][1]
                /\ \A m \in 1..Len(g[i - 1]) : x[m] = g[i - 1][m]
          BY <4>3, <5>1, Zenon
        <5> QED BY <4>3, <5>2
      <4>5. Len(g[i]) = i
        BY <4>1, <4>2, <4>4
      <4>6. ASSUME NEW m \in 1..i PROVE g[i][m] = s[m][1]
        <5>1. CASE m = i
          BY <4>1, <4>2, <4>4, <5>1
        <5>2. CASE m # i
          <6>1. m \in 1..i - 1
            BY <4>1, <5>2
          <6> QED BY <4>2, <4>4, <6>1
        <5> QED BY <5>1, <5>2
      <4> QED BY <3>2, <4>5, <4>6
    <3> QED BY <3>3, <3>4
  <2>3. Len(s) \in 1..Len(s)
    BY <1>1, <1>3
  <2>4. Fine(Len(s)) /\ g[Len(s)] \in Seq(A)
    BY <2>1, <2>2, <2>3
  <2>5. FlattenSeq(s) \in Seq(A) /\ Len(FlattenSeq(s)) = Len(s)
        /\ \A m \in 1..Len(s) : FlattenSeq(s)[m] = s[m][1]
    BY <2>1, <2>4
  <2> QED BY <2>5, <1>1
<1>4. QED
  BY <1>2, <1>3
================================================================================
