------------------------------ MODULE FiniteSums ------------------------------
(***************************************************************************)
(* Sums over finite sets, as MapThenSumSet computes them: the counts of    *)
(* the queues (the dequeues of a window, the clients of the bins) are      *)
(* values of SumOver, and the lemmas say how a sum changes when one term   *)
(* does.                                                                   *)
(*                                                                         *)
(* MapThenSumSet applies a recursive function on the subsets of the set.   *)
(* IsSum says that a function satisfies its recursion equation; that       *)
(* exactly one does, and that it does not depend on the chosen elements,   *)
(* is shown with smallest counterexamples, which are sets of sets: no      *)
(* induction theorem with an operator as parameter is needed.              *)
(***************************************************************************)
EXTENDS Integers, FiniteSets, FiniteSetsExt, FiniteSetTheorems, WellFoundedInduction, TLAPS

SumOver(f, S) == MapThenSumSet(LAMBDA x : f[x], S)

AnyOf(s) == CHOOSE x \in s : TRUE

IsSum(it, f, S) ==
    it = [s \in SUBSET S |-> IF s = {} THEN 0 ELSE f[AnyOf(s)] + it[s \ {AnyOf(s)}]]

-----------------------------------------------------------------------------
LEMMA SmallestSubset ==
    ASSUME NEW S, IsFiniteSet(S), NEW T, T \subseteq SUBSET S, T # {}
    PROVE  \E s \in T : \A r \in T : ~(r \subseteq s /\ r # s)
<1>1. IsWellFoundedOn(StrictSubsetOrdering(S), SUBSET S)
  BY FS_StrictSubsetOrderingWellFounded, FS_FiniteSubsetsOfFinite
<1>2. PICK s \in T : \A r \in T : ~(<<r, s>> \in StrictSubsetOrdering(S))
  BY <1>1, WFMin
<1> QED
  BY <1>2 DEF StrictSubsetOrdering

LEMMA AnyOfIn ==
    ASSUME NEW s, s # {}
    PROVE  AnyOf(s) \in s
BY DEF AnyOf

LEMMA IsSumUnique ==
    ASSUME NEW S, IsFiniteSet(S), NEW f, NEW i, NEW j, IsSum(i, f, S), IsSum(j, f, S)
    PROVE  i = j
<1> DEFINE Bad == {s \in SUBSET S : i[s] # j[s]}
<1>1. SUFFICES ASSUME Bad # {}
               PROVE  FALSE
  BY DEF IsSum
<1>2. PICK s \in Bad : \A r \in Bad : ~(r \subseteq s /\ r # s)
  <2>1. Bad \subseteq SUBSET S /\ Bad # {}
    BY <1>1
  <2> HIDE DEF Bad
  <2> QED
    BY <2>1, SmallestSubset
<1>3. i[s] = IF s = {} THEN 0 ELSE f[AnyOf(s)] + i[s \ {AnyOf(s)}]
  BY DEF IsSum
<1>4. j[s] = IF s = {} THEN 0 ELSE f[AnyOf(s)] + j[s \ {AnyOf(s)}]
  BY DEF IsSum
<1>5. s # {} => i[s \ {AnyOf(s)}] = j[s \ {AnyOf(s)}]
  BY <1>2, AnyOfIn
<1> QED
  BY <1>3, <1>4, <1>5

LEMMA IsSumRestricted ==
    ASSUME NEW S, NEW f, NEW i, IsSum(i, f, S), NEW R, R \subseteq S
    PROVE  IsSum([s \in SUBSET R |-> i[s]], f, R)
<1> DEFINE r == [s \in SUBSET R |-> i[s]]
<1>1. ASSUME NEW s \in SUBSET R
      PROVE  r[s] = IF s = {} THEN 0 ELSE f[AnyOf(s)] + r[s \ {AnyOf(s)}]
  <2>1. i[s] = IF s = {} THEN 0 ELSE f[AnyOf(s)] + i[s \ {AnyOf(s)}]
    BY DEF IsSum
  <2> QED
    BY <2>1
<1> QED
  BY <1>1 DEF IsSum

LEMMA IsSumExists ==
    ASSUME NEW S, IsFiniteSet(S), NEW f
    PROVE  \E i : IsSum(i, f, S)
<1> DEFINE Bad == {T \in SUBSET S : ~ \E i : IsSum(i, f, T)}
<1>1. SUFFICES ASSUME Bad # {}
               PROVE  FALSE
  OBVIOUS
<1>2. PICK T \in Bad : \A R \in Bad : ~(R \subseteq T /\ R # T)
  <2>1. Bad \subseteq SUBSET S /\ Bad # {}
    BY <1>1
  <2> HIDE DEF Bad
  <2> QED
    BY <2>1, SmallestSubset
<1> DEFINE Of(R) == CHOOSE i : IsSum(i, f, R)
           it == [s \in SUBSET T |-> IF s = {} THEN 0
                                     ELSE f[AnyOf(s)] + Of(s \ {AnyOf(s)})[s \ {AnyOf(s)}]]
<1>3. ASSUME NEW R \in SUBSET T, R # T
      PROVE  IsSum(Of(R), f, R)
  BY <1>2, <1>3
<1>4. ASSUME NEW R \in SUBSET T, R # T
      PROVE  it[R] = Of(R)[R]
  <2>1. IsSum(Of(R), f, R)
    BY <1>3, <1>4
  <2> HIDE DEF Of
  <2>2. Of(R)[R] = IF R = {} THEN 0 ELSE f[AnyOf(R)] + Of(R)[R \ {AnyOf(R)}]
    BY <2>1 DEF IsSum
  <2>3. CASE R = {}
    BY <2>2, <2>3
  <2>4. CASE R # {}
    <3> DEFINE Q == R \ {AnyOf(R)}
    <3>1. Q \in SUBSET T /\ Q # T /\ Q \subseteq R /\ IsFiniteSet(Q)
      <4>1. AnyOf(R) \in R
        BY <2>4, AnyOfIn
      <4> QED
        BY <4>1, <1>2, FS_Subset
    <3>2. IsSum(Of(Q), f, Q)
      BY <1>3, <3>1
    <3>3. IsSum([s \in SUBSET Q |-> Of(R)[s]], f, Q)
      BY <2>1, <3>1, IsSumRestricted
    <3>4. Of(Q) = [s \in SUBSET Q |-> Of(R)[s]]
      BY <3>1, <3>2, <3>3, IsSumUnique
    <3>5. Of(Q)[Q] = Of(R)[Q]
      BY <3>4
    <3>6. it[R] = f[AnyOf(R)] + Of(Q)[Q]
      BY <2>4
    <3> QED
      BY <2>2, <2>4, <3>5, <3>6
  <2> QED
    BY <2>3, <2>4
<1>5. ASSUME NEW s \in SUBSET T
      PROVE  it[s] = IF s = {} THEN 0 ELSE f[AnyOf(s)] + it[s \ {AnyOf(s)}]
  <2>1. CASE s = {}
    BY <2>1
  <2>2. CASE s # {}
    <3>1. AnyOf(s) \in s
      BY <2>2, AnyOfIn
    <3>2. it[s \ {AnyOf(s)}] = Of(s \ {AnyOf(s)})[s \ {AnyOf(s)}]
      BY <3>1, <1>4
    <3> QED
      BY <2>2, <3>2
  <2> QED
    BY <2>1, <2>2
<1>6. IsSum(it, f, T)
  <2>1. it = [s \in SUBSET T |-> it[s]]
    OBVIOUS
  <2> HIDE DEF it
  <2>2. it = [s \in SUBSET T |-> IF s = {} THEN 0 ELSE f[AnyOf(s)] + it[s \ {AnyOf(s)}]]
    BY <1>5, <2>1
  <2> QED
    BY <2>2 DEF IsSum
<1> QED
  BY <1>2, <1>6

\* A sum is the value of the only solution.
LEMMA SumOverIs ==
    ASSUME NEW S, IsFiniteSet(S), NEW f, NEW i, IsSum(i, f, S)
    PROVE  SumOver(f, S) = i[S]
<1> DEFINE it == CHOOSE j : IsSum(j, f, S)
<1>1. IsSum(it, f, S)
  OBVIOUS
<1>2. it = i
  <2> HIDE DEF it
  <2> QED
    BY <1>1, IsSumUnique
<1>3. SumOver(f, S) = it[S]
  BY DEF SumOver, MapThenSumSet, MapThenFoldSet, IsSum, AnyOf
<1> QED
  BY <1>2, <1>3

LEMMA SumOverEmpty ==
    ASSUME NEW f
    PROVE  SumOver(f, {}) = 0
<1>1. IsFiniteSet({})
  BY FS_EmptySet
<1>2. PICK i : IsSum(i, f, {})
  BY <1>1, IsSumExists
<1>3. i[{}] = 0
  BY <1>2 DEF IsSum
<1> QED
  BY <1>1, <1>2, <1>3, SumOverIs

\* Sums of integers are integers.
LEMMA IsSumType ==
    ASSUME NEW S, IsFiniteSet(S), NEW f, \A x \in S : f[x] \in Int, NEW i, IsSum(i, f, S)
    PROVE  \A s \in SUBSET S : i[s] \in Int
<1> DEFINE Bad == {s \in SUBSET S : i[s] \notin Int}
<1>1. SUFFICES ASSUME Bad # {}
               PROVE  FALSE
  OBVIOUS
<1>2. PICK s \in Bad : \A r \in Bad : ~(r \subseteq s /\ r # s)
  <2>1. Bad \subseteq SUBSET S /\ Bad # {}
    BY <1>1
  <2> HIDE DEF Bad
  <2> QED
    BY <2>1, SmallestSubset
<1>3. i[s] = IF s = {} THEN 0 ELSE f[AnyOf(s)] + i[s \ {AnyOf(s)}]
  BY DEF IsSum
<1>4. s # {}
  BY <1>2, <1>3
<1>5. i[s \ {AnyOf(s)}] \in Int /\ AnyOf(s) \in S
  BY <1>2, <1>4, AnyOfIn
<1> QED
  BY <1>2, <1>3, <1>4, <1>5

\* Any element can be split off first.
LEMMA IsSumStep ==
    ASSUME NEW S, IsFiniteSet(S), NEW f, \A x \in S : f[x] \in Int, NEW i, IsSum(i, f, S)
    PROVE  \A s \in SUBSET S : \A x \in s : i[s] = f[x] + i[s \ {x}]
<1> DEFINE Bad == {s \in SUBSET S : \E x \in s : i[s] # f[x] + i[s \ {x}]}
<1>1. SUFFICES ASSUME Bad # {}
               PROVE  FALSE
  OBVIOUS
<1>2. PICK s \in Bad : \A r \in Bad : ~(r \subseteq s /\ r # s)
  <2>1. Bad \subseteq SUBSET S /\ Bad # {}
    BY <1>1
  <2> HIDE DEF Bad
  <2> QED
    BY <2>1, SmallestSubset
<1>3. PICK x \in s : i[s] # f[x] + i[s \ {x}]
  BY <1>2
<1> DEFINE y == AnyOf(s)
<1>4. y \in s /\ s \in SUBSET S
  BY <1>2, AnyOfIn
<1>5. i[s] = f[y] + i[s \ {y}]
  BY <1>4 DEF IsSum
<1> HIDE DEF y
<1>6. x # y
  BY <1>3, <1>5
<1>7. i[s \ {y}] = f[x] + i[(s \ {y}) \ {x}]
  <2>1. s \ {y} \notin Bad
    BY <1>2, <1>4
  <2> QED
    BY <1>4, <1>6, <2>1
<1>8. i[s \ {x}] = f[y] + i[(s \ {x}) \ {y}]
  <2>1. s \ {x} \notin Bad
    BY <1>2, <1>3
  <2> QED
    BY <1>4, <1>6, <2>1
<1>9. (s \ {y}) \ {x} = (s \ {x}) \ {y}
  OBVIOUS
<1>10. /\ f[x] \in Int /\ f[y] \in Int
       /\ i[(s \ {x}) \ {y}] \in Int
  BY <1>4, IsSumType
<1>11. i[s] = f[y] + (f[x] + i[(s \ {x}) \ {y}])
  BY <1>5, <1>7, <1>9
<1>12. f[x] + i[s \ {x}] = f[x] + (f[y] + i[(s \ {x}) \ {y}])
  BY <1>8
<1>13. i[s] = f[x] + i[s \ {x}]
  BY <1>10, <1>11, <1>12
<1> QED
  BY <1>3, <1>13

-----------------------------------------------------------------------------
LEMMA SumOverType ==
    ASSUME NEW S, IsFiniteSet(S), NEW f, \A x \in S : f[x] \in Int
    PROVE  SumOver(f, S) \in Int
<1>1. PICK i : IsSum(i, f, S)
  BY IsSumExists
<1> QED
  BY <1>1, SumOverIs, IsSumType

\* The sum over a set is one of its terms and the sum over the rest.
LEMMA SumOverStep ==
    ASSUME NEW S, IsFiniteSet(S), NEW f, \A x \in S : f[x] \in Int, NEW x \in S
    PROVE  SumOver(f, S) = f[x] + SumOver(f, S \ {x})
<1>1. PICK i : IsSum(i, f, S)
  BY IsSumExists
<1>2. IsFiniteSet(S \ {x}) /\ S \ {x} \subseteq S
  BY FS_Subset
<1> DEFINE R == S \ {x}
           r == [s \in SUBSET R |-> i[s]]
<1>3. IsSum(r, f, R)
  BY <1>1, IsSumRestricted
<1>4. r[R] = i[R]
  OBVIOUS
<1>5. SumOver(f, R) = i[R]
  <2> HIDE DEF r, R
  <2> QED
    BY <1>2, <1>3, <1>4, SumOverIs DEF R
<1>6. SumOver(f, S) = i[S] /\ i[S] = f[x] + i[R]
  BY <1>1, SumOverIs, IsSumStep
<1> QED
  BY <1>5, <1>6

\* The sum depends on the terms of the set alone.
LEMMA SumOverAgree ==
    ASSUME NEW S, IsFiniteSet(S), NEW f, NEW g, \A x \in S : f[x] = g[x]
    PROVE  SumOver(f, S) = SumOver(g, S)
<1>1. PICK i : IsSum(i, f, S)
  BY IsSumExists
<1>2. IsSum(i, g, S)
  <2>1. ASSUME NEW s \in SUBSET S, s # {}
        PROVE  f[AnyOf(s)] = g[AnyOf(s)]
    BY <2>1, AnyOfIn
  <2>2. [s \in SUBSET S |-> IF s = {} THEN 0 ELSE f[AnyOf(s)] + i[s \ {AnyOf(s)}]]
          = [s \in SUBSET S |-> IF s = {} THEN 0 ELSE g[AnyOf(s)] + i[s \ {AnyOf(s)}]]
    BY <2>1
  <2> QED
    BY <1>1, <2>2 DEF IsSum
<1> QED
  BY <1>1, <1>2, SumOverIs

\* When one term changes, the sum changes by as much.
LEMMA SumOverChange ==
    ASSUME NEW S, IsFiniteSet(S), NEW f, NEW g, NEW x \in S,
           \A y \in S : f[y] \in Int /\ g[y] \in Int,
           \A y \in S \ {x} : f[y] = g[y]
    PROVE  SumOver(g, S) = SumOver(f, S) + (g[x] - f[x])
<1>1. SumOver(f, S) = f[x] + SumOver(f, S \ {x})
  BY SumOverStep
<1>2. SumOver(g, S) = g[x] + SumOver(g, S \ {x})
  BY SumOverStep
<1>3. IsFiniteSet(S \ {x})
  BY FS_Subset
<1>4. SumOver(f, S \ {x}) = SumOver(g, S \ {x})
  BY <1>3, SumOverAgree
<1>5. SumOver(f, S \ {x}) \in Int
  BY <1>3, SumOverType
<1>6. f[x] \in Int /\ g[x] \in Int
  OBVIOUS
<1> QED
  BY <1>1, <1>2, <1>4, <1>5, <1>6

LEMMA SumOverZero ==
    ASSUME NEW S, IsFiniteSet(S), NEW f, \A x \in S : f[x] = 0
    PROVE  SumOver(f, S) = 0
<1>1. IsSum([s \in SUBSET S |-> 0], f, S)
  <2> DEFINE i == [s \in SUBSET S |-> 0]
  <2>1. ASSUME NEW s \in SUBSET S
        PROVE  0 = IF s = {} THEN 0 ELSE f[AnyOf(s)] + i[s \ {AnyOf(s)}]
    BY AnyOfIn
  <2>2. i = [s \in SUBSET S |-> IF s = {} THEN 0 ELSE f[AnyOf(s)] + i[s \ {AnyOf(s)}]]
    BY <2>1
  <2> QED
    BY <2>2 DEF IsSum
<1> QED
  BY <1>1, SumOverIs
==============================================================================
