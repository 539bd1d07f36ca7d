----------------------------- MODULE FoldProofs -----------------------------
(***************************************************************************)
(* Facts about the folds of the community modules: a sum over a finite set *)
(* does not depend on the order in which its elements are chosen, and a    *)
(* fold of a sequence goes through it from the left.                       *)
(* Induction is by a smallest counterexample: in a set of sets of data     *)
(* without the wanted property there is a least one.                       *)
(***************************************************************************)
EXTENDS Integers, Sequences, FiniteSetsExt, FiniteSetTheorems, WellFoundedInduction, TLAPS

Below == {p \in Nat \X Nat : p[1] < p[2]}

LEMMA BelowFounded == IsWellFoundedOn(Below, Nat)
  BY NatLessThanWellFounded DEF OpToRel, Below

\* A set of natural numbers has a smallest one.
LEMMA SmallestIn ==
  ASSUME NEW T, T \subseteq Nat, T # {}
  PROVE  \E n \in T : \A m \in T : n <= m
<1>1. PICK n \in T : \A m \in T : ~ (<<m, n>> \in Below)
  BY BelowFounded, WFMin
<1>2. \A m \in T : <<m, n>> \in Below <=> m < n
  BY DEF Below
<1>3. ASSUME NEW m \in T PROVE n <= m
  <2>1. ~ (m < n) /\ m \in Nat /\ n \in Nat
    BY <1>1, <1>2
  <2> QED BY <2>1
<1> QED BY <1>3

\* Among subsets of a finite set is one that loses any element for another kind.
LEMMA SmallestSubset ==
  ASSUME NEW S, IsFiniteSet(S), NEW B, B \subseteq SUBSET S, B # {}
  PROVE  \E s \in B : \A x \in s : s \ {x} \notin B
<1> DEFINE T == {Cardinality(s) : s \in B}
<1>1. \A s \in B : IsFiniteSet(s) /\ Cardinality(s) \in Nat
  BY FS_Subset, FS_CardinalityType
<1>2. PICK n \in T : \A m \in T : n <= m
  <2>1. T \subseteq Nat /\ T # {}
    BY <1>1
  <2> HIDE DEF T
  <2> QED BY <2>1, SmallestIn
<1>3. PICK s \in B : n = Cardinality(s)
  OBVIOUS
<1>4. \A x \in s : s \ {x} \notin B
  <2> SUFFICES ASSUME NEW x \in s, s \ {x} \in B PROVE FALSE
    OBVIOUS
  <2>1. Cardinality(s \ {x}) = Cardinality(s) - 1
    BY <1>1, FS_RemoveElement
  <2>2. Cardinality(s) <= Cardinality(s \ {x})
    BY <1>2, <1>3
  <2> QED BY <1>1, <2>1, <2>2
<1> QED BY <1>4

-----------------------------------------------------------------------------
(* The sum of w[x] for the elements x of a finite set. *)

Some(s) == CHOOSE x \in s : TRUE

SumRound(g, w, s) == IF s = {} THEN 0 ELSE w[Some(s)] + g[s \ {Some(s)}]

IsSum(g, w, S) == g = [s \in SUBSET S |-> SumRound(g, w, s)]

SumOf(w, S) == (CHOOSE g : IsSum(g, w, S))[S]

LEMMA SumExists ==
  ASSUME NEW S, IsFiniteSet(S), NEW w
  PROVE  \E g : IsSum(g, w, S)
<1> DEFINE UpTo(n) == \E g : \A s \in SUBSET S :
                        Cardinality(s) <= n => g[s] = SumRound(g, w, s)
           T == {n \in Nat : ~ UpTo(n)}
<1>1. \A s \in SUBSET S : IsFiniteSet(s) /\ Cardinality(s) \in Nat
  BY FS_Subset, FS_CardinalityType
<1>2. \A s \in SUBSET S : s # {} =>
        /\ Some(s) \in s /\ s \ {Some(s)} \in SUBSET S
        /\ Cardinality(s \ {Some(s)}) = Cardinality(s) - 1
  BY <1>1, FS_RemoveElement DEF Some
<1>3. T = {}
  <2> SUFFICES ASSUME T # {} PROVE FALSE
    OBVIOUS
  <2>1. PICK n \in T : \A m \in T : n <= m
    <3>1. T \subseteq Nat
      OBVIOUS
    <3> HIDE DEF T
    <3> QED BY <3>1, SmallestIn
  <2>2. PICK g : \A s \in SUBSET S :
                   Cardinality(s) <= n - 1 => g[s] = SumRound(g, w, s)
    <3>1. CASE n = 0
      BY <1>1, <3>1
    <3>2. CASE n # 0
      <4>1. n - 1 \in Nat /\ n - 1 \notin T
        BY <2>1, <3>2
      <4> QED BY <4>1
    <3> QED BY <3>1, <3>2
  <2> DEFINE h == [s \in SUBSET S |-> SumRound(g, w, s)]
  <2>3. ASSUME NEW s \in SUBSET S, Cardinality(s) <= n
        PROVE  h[s] = SumRound(h, w, s)
    <3>1. CASE s = {}
      BY <3>1 DEF SumRound
    <3>2. CASE s # {}
      <4> DEFINE t == s \ {Some(s)}
      <4>1. t \in SUBSET S /\ Cardinality(t) <= n - 1
        BY <1>1, <1>2, <2>3, <3>2
      <4>2. h[t] = g[t]
        BY <2>2, <4>1
      <4> QED BY <3>2, <4>1, <4>2 DEF SumRound
    <3> QED BY <3>1, <3>2
  <2>4. UpTo(n)
    <3> HIDE DEF h
    <3> QED BY <2>3
  <2> QED BY <2>4
<1>4. PICK g : \A s \in SUBSET S :
                 Cardinality(s) <= Cardinality(S) => g[s] = SumRound(g, w, s)
  BY <1>1, <1>3
<1>5. \A s \in SUBSET S : g[s] = SumRound(g, w, s)
  BY <1>4, FS_Subset
<1> DEFINE h == [s \in SUBSET S |-> g[s]]
<1>6. ASSUME NEW s \in SUBSET S PROVE g[s] = SumRound(h, w, s)
  BY <1>2, <1>5 DEF SumRound
<1>7. IsSum(h, w, S)
  <2>1. h = [s \in SUBSET S |-> SumRound(h, w, s)]
    BY <1>6
  <2> HIDE DEF h
  <2> QED BY <2>1 DEF IsSum
<1> QED BY <1>7

\* The sums of the parts of a set, and of the parts of a part of it, agree.
LEMMA SumAgrees ==
  ASSUME NEW S, IsFiniteSet(S), NEW T, T \subseteq S, NEW g, NEW h, NEW w, NEW v,
         IsSum(g, w, S), IsSum(h, v, T), \A x \in T : w[x] = v[x]
  PROVE  \A s \in SUBSET T : g[s] = h[s]
<1> DEFINE B == {s \in SUBSET T : g[s] # h[s]}
<1> SUFFICES ASSUME B # {} PROVE FALSE
  OBVIOUS
<1>1. IsFiniteSet(T)
  BY FS_Subset
<1>2. PICK s \in B : \A x \in s : s \ {x} \notin B
  <2>1. B \subseteq SUBSET T
    OBVIOUS
  <2> HIDE DEF B
  <2> QED BY <1>1, <2>1, SmallestSubset
<1>3. g[s] = SumRound(g, w, s) /\ h[s] = SumRound(h, v, s)
  BY DEF IsSum
<1>4. CASE s = {}
  BY <1>3, <1>4 DEF SumRound
<1>5. CASE s # {}
  <2>1. Some(s) \in s
    BY <1>5 DEF Some
  <2>2. g[s \ {Some(s)}] = h[s \ {Some(s)}]
    BY <1>2, <2>1
  <2>3. w[Some(s)] = v[Some(s)]
    BY <2>1
  <2> QED BY <1>3, <1>5, <2>2, <2>3 DEF SumRound
<1> QED BY <1>4, <1>5

LEMMA SumChosen ==
  ASSUME NEW S, IsFiniteSet(S), NEW w
  PROVE  \E g : IsSum(g, w, S) /\ SumOf(w, S) = g[S]
<1>1. IsSum(CHOOSE g : IsSum(g, w, S), w, S)
  BY SumExists
<1> QED BY <1>1 DEF SumOf

LEMMA SumIsInt ==
  ASSUME NEW S, IsFiniteSet(S), NEW w, \A x \in S : w[x] \in Int,
         NEW g, IsSum(g, w, S)
  PROVE  \A s \in SUBSET S : g[s] \in Int
<1> DEFINE B == {s \in SUBSET S : g[s] \notin Int}
<1> SUFFICES ASSUME B # {} PROVE FALSE
  OBVIOUS
<1>2. PICK s \in B : \A x \in s : s \ {x} \notin B
  <2>1. B \subseteq SUBSET S
    OBVIOUS
  <2> HIDE DEF B
  <2> QED BY <2>1, SmallestSubset
<1>3. g[s] = SumRound(g, w, s)
  BY DEF IsSum
<1>4. CASE s = {}
  BY <1>3, <1>4 DEF SumRound
<1>5. CASE s # {}
  <2>1. Some(s) \in s
    BY <1>5 DEF Some
  <2>2. g[s \ {Some(s)}] \in Int /\ w[Some(s)] \in Int
    BY <1>2, <2>1
  <2> QED BY <1>3, <1>5, <2>2 DEF SumRound
<1> QED BY <1>4, <1>5

\* Any element may be the first.
LEMMA SumAnyFirst ==
  ASSUME NEW S, IsFiniteSet(S), NEW w, \A x \in S : w[x] \in Int,
         NEW g, IsSum(g, w, S)
  PROVE  \A s \in SUBSET S : \A x \in s : g[s] = w[x] + g[s \ {x}]
<1> DEFINE B == {s \in SUBSET S : ~ \A x \in s : g[s] = w[x] + g[s \ {x}]}
<1> SUFFICES ASSUME B # {} PROVE FALSE
  OBVIOUS
<1>2. PICK s \in B : \A x \in s : s \ {x} \notin B
  <2>1. B \subseteq SUBSET S
    OBVIOUS
  <2> HIDE DEF B
  <2> QED BY <2>1, SmallestSubset
<1>3. PICK x \in s : g[s] # w[x] + g[s \ {x}]
  OBVIOUS
<1> DEFINE c == Some(s)
<1>4. c \in s /\ g[s] = w[c] + g[s \ {c}]
  BY <1>3 DEF IsSum, SumRound, Some
<1> HIDE DEF c
<1>5. c # x
  BY <1>3, <1>4
<1>6. g[s \ {c}] = w[x] + g[(s \ {c}) \ {x}]
  BY <1>2, <1>4, <1>5
<1>7. (s \ {x}) \ {c} = (s \ {c}) \ {x}
  OBVIOUS
<1>8. g[s \ {x}] = w[c] + g[(s \ {c}) \ {x}]
  <2>1. g[s \ {x}] = w[c] + g[(s \ {x}) \ {c}]
    BY <1>2, <1>4, <1>5
  <2> QED BY <1>7, <2>1
<1>9. w[x] \in Int /\ w[c] \in Int /\ g[(s \ {c}) \ {x}] \in Int
  BY <1>4, SumIsInt
<1>10. g[s] = w[c] + (w[x] + g[(s \ {c}) \ {x}])
  BY <1>4, <1>6
<1>11. g[s] = w[x] + (w[c] + g[(s \ {c}) \ {x}])
  BY <1>9, <1>10
<1> QED BY <1>3, <1>8, <1>11

\* The sum over a set with one more element, over none, and over a set for
\* which the numbers are the same.
LEMMA SumAdd ==
  ASSUME NEW S, IsFiniteSet(S), NEW x, x \notin S,
         NEW w, \A y \in S \cup {x} : w[y] \in Int
  PROVE  SumOf(w, S \cup {x}) = w[x] + SumOf(w, S)
<1>1. IsFiniteSet(S \cup {x})
  BY FS_AddElement
<1>2. PICK g : IsSum(g, w, S \cup {x}) /\ SumOf(w, S \cup {x}) = g[S \cup {x}]
  BY <1>1, SumChosen
<1>3. PICK h : IsSum(h, w, S) /\ SumOf(w, S) = h[S]
  BY SumChosen
<1>4. g[S \cup {x}] = w[x] + g[(S \cup {x}) \ {x}]
  <2> DEFINE X == S \cup {x}
  <2>1. X \in SUBSET X /\ x \in X /\ \A y \in X : w[y] \in Int
    OBVIOUS
  <2> HIDE DEF X
  <2>2. g[X] = w[x] + g[X \ {x}]
    <3>1. IsFiniteSet(X) /\ IsSum(g, w, X)
      BY <1>1, <1>2 DEF X
    <3> QED BY <2>1, <3>1, SumAnyFirst
  <2> QED BY <2>2 DEF X
<1>5. (S \cup {x}) \ {x} = S
  OBVIOUS
<1>6. g[S] = h[S]
  BY <1>1, <1>2, <1>3, SumAgrees
<1> QED BY <1>2, <1>3, <1>4, <1>5, <1>6

LEMMA SumOfNone == \A w : SumOf(w, {}) = 0
<1> SUFFICES ASSUME NEW w PROVE SumOf(w, {}) = 0
  OBVIOUS
<1>1. PICK g : IsSum(g, w, {}) /\ SumOf(w, {}) = g[{}]
  BY FS_EmptySet, SumChosen
<1> QED BY <1>1 DEF IsSum, SumRound

LEMMA SumTyped ==
  ASSUME NEW S, IsFiniteSet(S), NEW w, \A x \in S : w[x] \in Int
  PROVE  SumOf(w, S) \in Int
<1>1. PICK g : IsSum(g, w, S) /\ SumOf(w, S) = g[S]
  BY SumChosen
<1> QED BY <1>1, SumIsInt

LEMMA SumSame ==
  ASSUME NEW S, IsFiniteSet(S), NEW w, NEW v, \A x \in S : w[x] = v[x]
  PROVE  SumOf(w, S) = SumOf(v, S)
<1>1. PICK g : IsSum(g, w, S) /\ SumOf(w, S) = g[S]
  BY SumChosen
<1>2. PICK h : IsSum(h, v, S) /\ SumOf(v, S) = h[S]
  BY SumChosen
<1>3. S \subseteq S /\ S \in SUBSET S
  OBVIOUS
<1>4. \A s \in SUBSET S : g[s] = h[s]
  BY <1>1, <1>2, <1>3, SumAgrees
<1> QED BY <1>1, <1>2, <1>3, <1>4

\* What holds of no elements, and of one more element each time, holds of all.
LEMMA InductionOnSet ==
  ASSUME NEW S, IsFiniteSet(S), NEW P, {} \in P,
         \A s \in SUBSET S : \A x \in S \ s : s \in P => s \cup {x} \in P
  PROVE  S \in P
<1> DEFINE B == (SUBSET S) \ P
<1> SUFFICES ASSUME B # {} PROVE FALSE
  OBVIOUS
<1>1. PICK s \in B : \A x \in s : s \ {x} \notin B
  <2>1. B \subseteq SUBSET S
    OBVIOUS
  <2> HIDE DEF B
  <2> QED BY <2>1, SmallestSubset
<1>2. PICK x \in s : TRUE
  OBVIOUS
<1>3. s \ {x} \in SUBSET S /\ x \in S \ (s \ {x}) /\ (s \ {x}) \cup {x} = s
  BY <1>1, <1>2
<1>4. s \ {x} \in P
  BY <1>1, <1>2, <1>3
<1>5. (s \ {x}) \cup {x} \in P
  BY <1>3, <1>4
<1> QED BY <1>1, <1>3, <1>5

\* The sum over a set with one more element is typed, too.
LEMMA SumGrows ==
  ASSUME NEW s, IsFiniteSet(s), NEW x, x \notin s,
         NEW w, w[x] \in Int, \A y \in s : w[y] \in Int
  PROVE  /\ SumOf(w, s \cup {x}) = w[x] + SumOf(w, s)
         /\ SumOf(w, s) \in Int
<1>1. \A y \in s \cup {x} : w[y] \in Int
  OBVIOUS
<1> QED BY <1>1, SumTyped, SumAdd

\* The sum of sums.
LEMMA SumOfSums ==
  ASSUME NEW S, IsFiniteSet(S), NEW u, NEW v, NEW w,
         \A x \in S : u[x] \in Int /\ v[x] \in Int /\ w[x] = u[x] + v[x]
  PROVE  SumOf(w, S) = SumOf(u, S) + SumOf(v, S)
<1> DEFINE P == {s \in SUBSET S : SumOf(w, s) = SumOf(u, s) + SumOf(v, s)}
<1>1. {} \in P
  BY SumOfNone
<1>2. ASSUME NEW s \in SUBSET S, NEW x \in S \ s, s \in P PROVE s \cup {x} \in P
  <2>0. IsFiniteSet(s) /\ x \notin s /\ s \cup {x} \in SUBSET S
    BY FS_Subset
  <2>1. \A y \in S : w[y] \in Int
    OBVIOUS
  <2>2. SumOf(w, s \cup {x}) = w[x] + SumOf(w, s)
    BY <2>0, <2>1, SumGrows
  <2>3. /\ SumOf(u, s \cup {x}) = u[x] + SumOf(u, s)
        /\ SumOf(u, s) \in Int /\ u[x] \in Int
    BY <2>0, SumGrows
  <2>4. /\ SumOf(v, s \cup {x}) = v[x] + SumOf(v, s)
        /\ SumOf(v, s) \in Int /\ v[x] \in Int
    BY <2>0, SumGrows
  <2>5. w[x] = u[x] + v[x] /\ SumOf(w, s) = SumOf(u, s) + SumOf(v, s)
    BY <1>2
  <2>6. SumOf(w, s \cup {x}) = SumOf(u, s \cup {x}) + SumOf(v, s \cup {x})
    BY <2>2, <2>3, <2>4, <2>5
  <2> QED BY <1>2, <2>6
<1> HIDE DEF P
<1>3. S \in P
  BY <1>1, <1>2, InductionOnSet
<1> QED BY <1>3 DEF P

\* The sum of multiples.
LEMMA SumScaled ==
  ASSUME NEW S, IsFiniteSet(S), NEW k \in Int, NEW u, NEW w,
         \A x \in S : u[x] \in Int /\ w[x] = k * u[x]
  PROVE  SumOf(w, S) = k * SumOf(u, S)
<1> DEFINE P == {s \in SUBSET S : SumOf(w, s) = k * SumOf(u, s)}
<1>1. {} \in P
  BY SumOfNone
<1>2. ASSUME NEW s \in SUBSET S, NEW x \in S \ s, s \in P PROVE s \cup {x} \in P
  <2>0. IsFiniteSet(s) /\ x \notin s /\ s \cup {x} \in SUBSET S
    BY FS_Subset
  <2>1. \A y \in S : w[y] \in Int
    OBVIOUS
  <2>2. SumOf(w, s \cup {x}) = w[x] + SumOf(w, s)
    BY <2>0, <2>1, SumGrows
  <2>3. /\ SumOf(u, s \cup {x}) = u[x] + SumOf(u, s)
        /\ SumOf(u, s) \in Int /\ u[x] \in Int
    BY <2>0, SumGrows
  <2>5. w[x] = k * u[x] /\ SumOf(w, s) = k * SumOf(u, s)
    BY <1>2
  <2>6. SumOf(w, s \cup {x}) = k * (u[x] + SumOf(u, s))
    BY <2>2, <2>3, <2>5
  <2>7. SumOf(w, s \cup {x}) = k * SumOf(u, s \cup {x})
    BY <2>3, <2>6
  <2> QED BY <1>2, <2>7
<1> HIDE DEF P
<1>3. S \in P
  BY <1>1, <1>2, InductionOnSet
<1> QED BY <1>3 DEF P

\* Two numbers are at most d apart.
Near(a, b, d) == a - b <= d /\ b - a <= d

\* If each element is, the sums are within as many times d as there are
\* elements.
LEMMA SumNear ==
  ASSUME NEW S, IsFiniteSet(S), NEW d \in Nat, NEW u, NEW w,
         \A x \in S : u[x] \in Int /\ w[x] \in Int /\ Near(u[x], w[x], d)
  PROVE  Near(SumOf(u, S), SumOf(w, S), d * Cardinality(S))
<1> DEFINE P == {s \in SUBSET S : Near(SumOf(u, s), SumOf(w, s), d * Cardinality(s))}
<1>1. {} \in P
  <2>1. d * Cardinality({}) = 0
    BY FS_EmptySet
  <2> QED BY <2>1, SumOfNone DEF Near
<1>2. ASSUME NEW s \in SUBSET S, NEW x \in S \ s, s \in P PROVE s \cup {x} \in P
  <2>0. IsFiniteSet(s) /\ x \notin s /\ s \cup {x} \in SUBSET S
    BY FS_Subset
  <2>1. /\ SumOf(w, s \cup {x}) = w[x] + SumOf(w, s)
        /\ SumOf(w, s) \in Int /\ w[x] \in Int /\ IsFiniteSet(s)
    BY <2>0, SumGrows
  <2>2. /\ SumOf(u, s \cup {x}) = u[x] + SumOf(u, s)
        /\ SumOf(u, s) \in Int /\ u[x] \in Int
    BY <2>0, SumGrows
  <2>3. Cardinality(s \cup {x}) = Cardinality(s) + 1 /\ Cardinality(s) \in Nat
    BY <2>1, FS_AddElement, FS_CardinalityType
  <2>4. d * (Cardinality(s) + 1) = d * Cardinality(s) + d /\ d * Cardinality(s) \in Int
    <3> DEFINE n == Cardinality(s)
    <3> HIDE DEF n
    <3>1. n \in Nat
      BY <2>3 DEF n
    <3>2. d * (n + 1) = d * n + d /\ d * n \in Int
      BY <3>1
    <3> QED BY <3>2 DEF n
  <2>5. Near(u[x], w[x], d) /\ Near(SumOf(u, s), SumOf(w, s), d * Cardinality(s))
    BY <1>2
  <2>6. Near(SumOf(u, s \cup {x}), SumOf(w, s \cup {x}), d * Cardinality(s \cup {x}))
    BY <2>1, <2>2, <2>3, <2>4, <2>5 DEF Near
  <2> QED BY <1>2, <2>6
<1> HIDE DEF P
<1>3. S \in P
  BY <1>1, <1>2, InductionOnSet
<1> QED BY <1>3 DEF P

\* A sum of which one element counts at most.
LEMMA SumAtOne ==
  ASSUME NEW S, IsFiniteSet(S), NEW x, NEW w, NEW k \in Int,
         \A y \in S : w[y] = IF y = x THEN k ELSE 0
  PROVE  SumOf(w, S) = IF x \in S THEN k ELSE 0
<1> DEFINE P == {s \in SUBSET S : SumOf(w, s) = IF x \in s THEN k ELSE 0}
<1>1. {} \in P
  BY SumOfNone
<1>2. ASSUME NEW s \in SUBSET S, NEW y \in S \ s, s \in P PROVE s \cup {y} \in P
  <2>0. IsFiniteSet(s) /\ y \notin s /\ s \cup {y} \in SUBSET S
    BY FS_Subset
  <2>1. \A z \in S : w[z] \in Int
    OBVIOUS
  <2>2. SumOf(w, s \cup {y}) = w[y] + SumOf(w, s)
    BY <2>0, <2>1, SumGrows
  <2>3. w[y] = (IF y = x THEN k ELSE 0) /\ SumOf(w, s) = IF x \in s THEN k ELSE 0
    BY <1>2
  <2>4. x \in s \cup {y} <=> x = y \/ x \in s
    OBVIOUS
  <2>5. SumOf(w, s \cup {y}) = IF x \in s \cup {y} THEN k ELSE 0
    BY <1>2, <2>2, <2>3, <2>4
  <2> QED BY <1>2, <2>5
<1> HIDE DEF P
<1>3. S \in P
  BY <1>1, <1>2, InductionOnSet
<1> QED BY <1>3 DEF P

\* The sum of zeros.
LEMMA SumOfZeros ==
  ASSUME NEW S, IsFiniteSet(S), NEW w, \A x \in S : w[x] = 0
  PROVE  SumOf(w, S) = 0
<1>1. \A x \in S : w[x] \in Int /\ w[x] = 0 * w[x]
  OBVIOUS
<1>2. SumOf(w, S) = 0 * SumOf(w, S)
  BY <1>1, SumScaled
<1>3. SumOf(w, S) \in Int
  BY <1>1, SumTyped
<1> QED BY <1>2, <1>3

\* A table by rows f[x] and by columns g[y], with the sum of each.
IsTable(f, g, r, c, S, T) ==
    /\ \A x \in S : \A y \in T : f[x][y] \in Int /\ g[y][x] = f[x][y]
    /\ \A x \in S : r[x] = SumOf(f[x], T)
    /\ \A y \in T : c[y] = SumOf(g[y], S)

\* The rows of a table and its columns have one sum.
LEMMA SumByColumns ==
  ASSUME NEW S, IsFiniteSet(S), NEW T, IsFiniteSet(T),
         NEW f, NEW g, NEW r, NEW c, IsTable(f, g, r, c, S, T)
  PROVE  SumOf(r, S) = SumOf(c, T)
<1>0. /\ \A x \in S : \A y \in T : f[x][y] \in Int /\ g[y][x] = f[x][y]
      /\ \A x \in S : r[x] = SumOf(f[x], T)
      /\ \A y \in T : c[y] = SumOf(g[y], S)
  BY DEF IsTable
<1> DEFINE R(t) == [x \in S |-> SumOf(f[x], t)]
           P == {t \in SUBSET T : SumOf(R(t), S) = SumOf(c, t)}
<1>1. {} \in P
  <2>1. \A x \in S : R({})[x] = 0 * 0 /\ R({})[x] = 0
    BY SumOfNone
  <2> DEFINE w == R({})
  <2> HIDE DEF w
  <2>2. \A x \in S : 0 \in Int /\ w[x] = 0
    BY <2>1 DEF w
  <2>3. SumOf(w, S) = 0
    BY <2>2, SumOfZeros
  <2> QED BY <2>3, SumOfNone DEF w
<1>2. ASSUME NEW t \in SUBSET T, NEW y \in T \ t, t \in P PROVE t \cup {y} \in P
  <2>0. IsFiniteSet(t) /\ y \notin t /\ t \cup {y} \in SUBSET T
    BY FS_Subset
  <2> DEFINE u == R(t)
             v == g[y]
             w == R(t \cup {y})
  <2>1. ASSUME NEW x \in S
        PROVE  u[x] \in Int /\ v[x] \in Int /\ w[x] = v[x] + u[x]
    <3>1. \A z \in T : f[x][z] \in Int
      BY <1>0
    <3> DEFINE e == f[x]
    <3> HIDE DEF e
    <3>2. (\A z \in t : e[z] \in Int) /\ e[y] \in Int
      BY <3>1 DEF e
    <3>3. /\ SumOf(e, t \cup {y}) = e[y] + SumOf(e, t)
          /\ SumOf(e, t) \in Int
      BY <2>0, <3>2, SumGrows
    <3> QED BY <1>0, <3>2, <3>3 DEF e
  <2> HIDE DEF u, v, w
  <2>2. SumOf(w, S) = SumOf(v, S) + SumOf(u, S)
    BY <2>1, SumOfSums
  <2>3. c[y] = SumOf(v, S)
    BY <1>0 DEF v
  <2>4. ASSUME NEW z \in T PROVE c[z] \in Int
    <3> DEFINE e == g[z]
    <3>1. (\A x \in S : e[x] \in Int) /\ c[z] = SumOf(e, S)
      BY <1>0
    <3> HIDE DEF e
    <3> QED BY <3>1, SumTyped
  <2>5. SumOf(c, t \cup {y}) = c[y] + SumOf(c, t)
    BY <2>0, <2>4, SumGrows
  <2>6. SumOf(u, S) = SumOf(c, t)
    BY <1>2 DEF u
  <2>7. SumOf(w, S) = SumOf(c, t \cup {y})
    BY <2>2, <2>3, <2>5, <2>6
  <2> QED BY <1>2, <2>7 DEF w
<1>3. T \in P
  <2> HIDE DEF P
  <2> QED BY <1>1, <1>2, InductionOnSet
<1>4. SumOf(R(T), S) = SumOf(c, T)
  BY <1>3
<1>5. \A x \in S : R(T)[x] = r[x]
  BY <1>0
<1> DEFINE w == R(T)
<1> HIDE DEF w
<1>6. SumOf(w, S) = SumOf(r, S)
  <2>1. \A x \in S : w[x] = r[x]
    BY <1>5 DEF w
  <2> QED BY <2>1, SumSame
<1> QED BY <1>4, <1>6 DEF w
\* Sums of numbers that are near when scaled.
LEMMA SumScaledNear ==
  ASSUME NEW S, IsFiniteSet(S), NEW d \in Nat, NEW k \in Int, NEW u, NEW w,
         \A x \in S : u[x] \in Int /\ w[x] \in Int /\ Near(k * u[x], w[x], d)
  PROVE  /\ Near(k * SumOf(u, S), SumOf(w, S), d * Cardinality(S))
         /\ SumOf(u, S) \in Int /\ SumOf(w, S) \in Int
<1> DEFINE v == [x \in S |-> k * u[x]]
<1>1. \A x \in S : u[x] \in Int /\ v[x] = k * u[x] /\ v[x] \in Int
  OBVIOUS
<1>2. \A x \in S : v[x] \in Int /\ w[x] \in Int /\ Near(v[x], w[x], d)
  OBVIOUS
<1> HIDE DEF v
<1>3. SumOf(v, S) = k * SumOf(u, S)
  BY <1>1, SumScaled
<1>4. Near(SumOf(v, S), SumOf(w, S), d * Cardinality(S))
  BY <1>2, SumNear
<1>5. SumOf(u, S) \in Int /\ SumOf(w, S) \in Int
  BY <1>1, <1>2, SumTyped
<1> QED BY <1>3, <1>4, <1>5

-----------------------------------------------------------------------------
(* The largest element. *)

\* A set of natural numbers below a bound has a largest element.
LEMMA MaxOfBounded ==
  ASSUME NEW S \in SUBSET Nat, S # {},
         NEW b \in Nat, \A x \in S : x <= b
  PROVE  /\ Max(S) \in S
         /\ \A y \in S : y <= Max(S)
<1> DEFINE T == {b - x : x \in S}
<1>1. T \subseteq Nat /\ T # {}
  <2>1. \A x \in S : b - x \in Nat
    OBVIOUS
  <2>2. PICK x \in S : TRUE
    OBVIOUS
  <2>3. b - x \in T
    OBVIOUS
  <2> QED BY <2>1, <2>3
<1>2. \E m \in T : \A n \in T : ~ (<<n, m>> \in OpToRel(<, Nat))
  BY <1>1, NatLessThanWellFounded, WFMin
<1>3. PICK m \in T : \A n \in T : ~ (n < m)
  BY <1>1, <1>2 DEF OpToRel
<1>4. PICK x \in S : m = b - x
  OBVIOUS
<1>5. \A y \in S : x >= y
  <2> TAKE y \in S
  <2>1. b - y \in T
    OBVIOUS
  <2>2. ~ (b - y < b - x)
    BY <1>3, <1>4, <2>1
  <2> QED BY <2>2
<1>6. QED
  BY <1>5 DEF Max

\* The largest element is known by being one that no other exceeds.
LEMMA MaxIs ==
  ASSUME NEW T, T \subseteq Int, NEW n \in T, \A m \in T : m <= n
  PROVE  Max(T) = n
<1>1. \A m \in T : n >= m
  OBVIOUS
<1>2. \A m \in T : (\A k \in T : m >= k) => m = n
  OBVIOUS
<1> QED BY <1>1, <1>2 DEF Max

-----------------------------------------------------------------------------
(* The fold of a sequence q from the left: from b, w[<<so far, element>>]  *)
(* for one element after the other.  The operator is given as a table w.   *)

FoldRound(g, w, b, q, s) ==
    IF s = {} THEN b ELSE w[<<g[s \ {Max(s)}], q[Max(s)]>>]

IsFold(g, w, b, q) == g = [s \in SUBSET DOMAIN q |-> FoldRound(g, w, b, q, s)]

\* A set of indices has a last one, and is smaller without it.
LEMMA LastOfIndices ==
  ASSUME NEW E, NEW q \in Seq(E), NEW s \in SUBSET DOMAIN q, s # {}
  PROVE  /\ Max(s) \in s /\ s \ {Max(s)} \in SUBSET DOMAIN q
         /\ IsFiniteSet(s) /\ Cardinality(s) \in Nat
         /\ Cardinality(s \ {Max(s)}) = Cardinality(s) - 1
<1>1. DOMAIN q = 1..Len(q) /\ Len(q) \in Nat
  OBVIOUS
<1>2. IsFiniteSet(DOMAIN q)
  BY <1>1, FS_Interval
<1>3. IsFiniteSet(s) /\ Cardinality(s) \in Nat
  BY <1>2, FS_Subset, FS_CardinalityType
<1>4. s \in SUBSET Nat /\ \A x \in s : x <= Len(q)
  BY <1>1
<1>5. Max(s) \in s
  BY <1>1, <1>4, MaxOfBounded
<1> QED BY <1>3, <1>5, FS_RemoveElement

\* The rounds of a fold do define a function.
LEMMA FoldExists ==
  ASSUME NEW E, NEW q \in Seq(E), NEW w, NEW b
  PROVE  \E g : IsFold(g, w, b, q)
<1> DEFINE S == DOMAIN q
           UpTo(n) == \E g : \A s \in SUBSET S :
                        Cardinality(s) <= n => g[s] = FoldRound(g, w, b, q, s)
           T == {n \in Nat : ~ UpTo(n)}
<1>1. \A s \in SUBSET S : IsFiniteSet(s) /\ Cardinality(s) \in Nat
  <2>1. \A s \in SUBSET S : s = {} => IsFiniteSet(s) /\ Cardinality(s) \in Nat
    BY FS_EmptySet
  <2> QED BY <2>1, LastOfIndices
<1>2. \A s \in SUBSET S : s # {} =>
        /\ Max(s) \in s /\ s \ {Max(s)} \in SUBSET S
        /\ Cardinality(s \ {Max(s)}) = Cardinality(s) - 1
  BY LastOfIndices
<1>3. T = {}
  <2> SUFFICES ASSUME T # {} PROVE FALSE
    OBVIOUS
  <2>1. PICK n \in T : \A m \in T : n <= m
    <3>1. T \subseteq Nat
      OBVIOUS
    <3> HIDE DEF T
    <3> QED BY <3>1, SmallestIn
  <2>2. PICK g : \A s \in SUBSET S :
                   Cardinality(s) <= n - 1 => g[s] = FoldRound(g, w, b, q, s)
    <3>1. CASE n = 0
      BY <1>1, <3>1
    <3>2. CASE n # 0
      <4>1. n - 1 \in Nat /\ n - 1 \notin T
        BY <2>1, <3>2
      <4> QED BY <4>1
    <3> QED BY <3>1, <3>2
  <2> DEFINE h == [s \in SUBSET S |-> FoldRound(g, w, b, q, s)]
  <2>3. ASSUME NEW s \in SUBSET S, Cardinality(s) <= n
        PROVE  h[s] = FoldRound(h, w, b, q, s)
    <3>1. CASE s = {}
      BY <3>1 DEF FoldRound
    <3>2. CASE s # {}
      <4> DEFINE t == s \ {Max(s)}
      <4>1. t \in SUBSET S /\ Cardinality(t) <= n - 1
        <5>1. Cardinality(s) \in Nat /\ n \in Nat
          BY <1>1
        <5>2. t \in SUBSET S /\ Cardinality(t) = Cardinality(s) - 1
          BY <1>2, <3>2
        <5> QED BY <2>3, <5>1, <5>2
      <4>2. h[t] = g[t]
        BY <2>2, <4>1
      <4> HIDE DEF t, S
      <4>3. h[s] = FoldRound(g, w, b, q, s)
        OBVIOUS
      <4>4. h[s \ {Max(s)}] = g[s \ {Max(s)}]
        BY <4>2 DEF t
      <4> HIDE DEF h
      <4> QED BY <3>2, <4>3, <4>4 DEF FoldRound
    <3> QED BY <3>1, <3>2
  <2>4. UpTo(n)
    <3> HIDE DEF h
    <3> QED BY <2>3
  <2> QED BY <2>4
<1>4. Cardinality(S) \in Nat
  BY <1>1
<1>5. PICK g : \A s \in SUBSET S :
                 Cardinality(s) <= Cardinality(S) => g[s] = FoldRound(g, w, b, q, s)
  BY <1>3, <1>4
<1>6. \A s \in SUBSET S : g[s] = FoldRound(g, w, b, q, s)
  <2>1. \A s \in SUBSET S : Cardinality(s) <= Cardinality(S)
    BY <1>1, FS_Subset
  <2> QED BY <1>5, <2>1
<1> DEFINE h == [s \in SUBSET S |-> g[s]]
<1>7. ASSUME NEW s \in SUBSET S PROVE g[s] = FoldRound(h, w, b, q, s)
  <2>1. CASE s = {}
    BY <1>6, <2>1 DEF FoldRound
  <2>2. CASE s # {}
    <3>1. h[s \ {Max(s)}] = g[s \ {Max(s)}]
      BY <1>2, <2>2
    <3> HIDE DEF h, S
    <3> QED BY <1>6, <2>2, <3>1 DEF FoldRound
  <2> QED BY <2>1, <2>2
<1>8. IsFold(h, w, b, q)
  <2>1. h = [s \in SUBSET S |-> FoldRound(h, w, b, q, s)]
    BY <1>7
  <2> HIDE DEF h
  <2> QED BY <2>1 DEF IsFold
<1> QED BY <1>8

\* What is folded stays in the type of the accumulator.
LEMMA FoldTyped ==
  ASSUME NEW E, NEW q \in Seq(E), NEW A, NEW w \in [A \X E -> A], NEW b \in A,
         NEW g, IsFold(g, w, b, q)
  PROVE  \A s \in SUBSET DOMAIN q : g[s] \in A
<1> DEFINE B == {s \in SUBSET DOMAIN q : g[s] \notin A}
<1> SUFFICES ASSUME B # {} PROVE FALSE
  OBVIOUS
<1>1. IsFiniteSet(DOMAIN q)
  BY LastOfIndices, FS_EmptySet
<1>2. PICK s \in B : \A x \in s : s \ {x} \notin B
  <2>1. B \subseteq SUBSET DOMAIN q
    OBVIOUS
  <2> HIDE DEF B
  <2> QED BY <1>1, <2>1, SmallestSubset
<1>3. g[s] = FoldRound(g, w, b, q, s)
  BY DEF IsFold
<1>4. CASE s = {}
  BY <1>3, <1>4 DEF FoldRound
<1>5. CASE s # {}
  <2>1. Max(s) \in s /\ s \ {Max(s)} \in SUBSET DOMAIN q
    BY <1>5, LastOfIndices
  <2>2. g[s \ {Max(s)}] \in A
    BY <1>2, <2>1
  <2>3. q[Max(s)] \in E
    BY <2>1
  <2>4. <<g[s \ {Max(s)}], q[Max(s)]>> \in A \X E
    BY <2>2, <2>3
  <2>5. g[s] \in A
    BY <1>3, <1>5, <2>4 DEF FoldRound
  <2> QED BY <2>5
<1> QED BY <1>4, <1>5

\* The fold of the first n elements, from the one of the first n - 1.
LEMMA FoldSteps ==
  ASSUME NEW E, NEW q \in Seq(E), NEW w, NEW b, NEW g, IsFold(g, w, b, q)
  PROVE  /\ g[1..0] = b
         /\ \A n \in 1..Len(q) : g[1..n] = w[<<g[1..(n - 1)], q[n]>>]
<1>1. {} \in SUBSET DOMAIN q
  OBVIOUS
<1>2. 1..0 = {}
  BY SMT
<1>3. g[{}] = b
  BY <1>1 DEF IsFold, FoldRound
<1>4. g[1..0] = b
  BY <1>2, <1>3
<1>5. ASSUME NEW n \in 1..Len(q) PROVE g[1..n] = w[<<g[1..(n - 1)], q[n]>>]
  <2>1. 1..n \in SUBSET DOMAIN q /\ 1..n # {} /\ (1..n) \ {n} = 1..(n - 1)
    <3>1. DOMAIN q = 1..Len(q) /\ Len(q) \in Nat
      OBVIOUS
    <3>2. 1..n \subseteq 1..Len(q) /\ n \in 1..n
      BY <3>1
    <3>3. (1..n) \ {n} = 1..(n - 1)
      BY <3>1
    <3> QED BY <3>1, <3>2, <3>3
  <2>2. Max(1..n) = n
    <3>1. 1..n \subseteq Int /\ n \in 1..n /\ \A m \in 1..n : m <= n
      OBVIOUS
    <3> QED BY <3>1, MaxIs
  <2>3. g[1..n] = FoldRound(g, w, b, q, 1..n)
    BY <2>1 DEF IsFold
  <2> QED BY <2>1, <2>2, <2>3 DEF FoldRound
<1> QED BY <1>4, <1>5

\* What is computed by the rounds of a fold, whatever the rounds do with an
\* accumulator that is not of the type, is the fold.
LEMMA FoldKnown ==
  ASSUME NEW E, NEW q \in Seq(E), NEW A, NEW w \in [A \X E -> A], NEW b \in A,
         NEW g, g = [s \in SUBSET DOMAIN q |-> g[s]], g[{}] = b,
         \A s \in SUBSET DOMAIN q : s # {} /\ g[s \ {Max(s)}] \in A =>
           g[s] = w[<<g[s \ {Max(s)}], q[Max(s)]>>]
  PROVE  IsFold(g, w, b, q)
<1>1. \A s \in SUBSET DOMAIN q : g[s] \in A
  <2> DEFINE B == {s \in SUBSET DOMAIN q : g[s] \notin A}
  <2> SUFFICES ASSUME B # {} PROVE FALSE
    OBVIOUS
  <2>1. IsFiniteSet(DOMAIN q)
    BY LastOfIndices, FS_EmptySet
  <2>2. PICK s \in B : \A x \in s : s \ {x} \notin B
    <3>1. B \subseteq SUBSET DOMAIN q
      OBVIOUS
    <3> HIDE DEF B
    <3> QED BY <2>1, <3>1, SmallestSubset
  <2>3. s # {}
    OBVIOUS
  <2>4. Max(s) \in s /\ s \ {Max(s)} \in SUBSET DOMAIN q
    BY <2>3, LastOfIndices
  <2>5. g[s \ {Max(s)}] \in A
    BY <2>2, <2>4
  <2>6. q[Max(s)] \in E
    BY <2>4
  <2>7. <<g[s \ {Max(s)}], q[Max(s)]>> \in A \X E
    BY <2>5, <2>6
  <2>8. g[s] = w[<<g[s \ {Max(s)}], q[Max(s)]>>]
    BY <2>3, <2>5
  <2>9. g[s] \in A
    BY <2>7, <2>8
  <2> QED BY <2>9
<1>2. ASSUME NEW s \in SUBSET DOMAIN q PROVE g[s] = FoldRound(g, w, b, q, s)
  <2>1. CASE s = {}
    BY <2>1 DEF FoldRound
  <2>2. CASE s # {}
    <3>1. g[s \ {Max(s)}] \in A
      BY <1>1, <2>2, LastOfIndices
    <3> QED BY <2>2, <3>1 DEF FoldRound
  <2> QED BY <2>1, <2>2
<1>3. g = [s \in SUBSET DOMAIN q |-> FoldRound(g, w, b, q, s)]
  BY <1>2, Zenon
<1> QED BY <1>3 DEF IsFold

\* The fold of a sequence, as the list of what it is after each element.
IsFolding(h, g, w, b, q, A) ==
    /\ h \in [0..Len(q) -> A]
    /\ g[DOMAIN q] = h[Len(q)]
    /\ h[0] = b
    /\ \A n \in 1..Len(q) : h[n] = w[<<h[n - 1], q[n]>>]

LEMMA FoldRuns ==
  ASSUME NEW E, NEW q \in Seq(E), NEW A, NEW w \in [A \X E -> A], NEW b \in A,
         NEW g, IsFold(g, w, b, q)
  PROVE  \E h : IsFolding(h, g, w, b, q, A)
<1> DEFINE h == [n \in 0..Len(q) |-> g[1..n]]
<1>1. g[1..0] = b /\ \A n \in 1..Len(q) : g[1..n] = w[<<g[1..(n - 1)], q[n]>>]
  BY FoldSteps
<1>2. \A n \in 0..Len(q) : g[1..n] \in A
  <2>1. \A s \in SUBSET DOMAIN q : g[s] \in A
    BY FoldTyped
  <2>2. \A n \in 0..Len(q) : 1..n \in SUBSET DOMAIN q
    OBVIOUS
  <2> QED BY <2>1, <2>2
<1>3. h \in [0..Len(q) -> A] /\ h[0] = b
  BY <1>1, <1>2
<1>4. \A n \in 1..Len(q) : h[n] = g[1..n] /\ h[n - 1] = g[1..(n - 1)]
  OBVIOUS
<1>5. g[DOMAIN q] = h[Len(q)]
  <2>1. DOMAIN q = 1..Len(q) /\ h[Len(q)] = g[1..Len(q)]
    OBVIOUS
  <2> QED BY <2>1
<1> HIDE DEF h
<1> QED BY <1>1, <1>3, <1>4, <1>5 DEF IsFolding

\* What holds at 0 and, with a number, of the next one, holds up to a bound: for
\* a set of numbers.
LEMMA InductionUpTo ==
  ASSUME NEW m \in Nat, NEW T, T \subseteq Nat, 0 \in T,
         \A n \in 1..m : n - 1 \in T => n \in T
  PROVE  \A n \in 0..m : n \in T
<1> DEFINE B == {n \in 0..m : n \notin T}
<1> SUFFICES ASSUME B # {} PROVE FALSE
  OBVIOUS
<1>1. PICK n \in B : \A k \in B : n <= k
  <2>1. B \subseteq Nat
    OBVIOUS
  <2> HIDE DEF B
  <2> QED BY <2>1, SmallestIn
<1>2. n \in 1..m /\ n - 1 \in 0..m
  OBVIOUS
<1>3. n - 1 \notin B
  BY <1>1, <1>2
<1> QED BY <1>2, <1>3
=============================================================================
