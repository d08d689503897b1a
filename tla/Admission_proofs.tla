--------------------------- MODULE Admission_proofs ---------------------------
(***************************************************************************)
(* What the proofs about every scheduler rest on.  First sums over finite  *)
(* sets, which the admission estimate is made of: what the fold            *)
(* MapThenSumSet of the community modules computes, whatever order it      *)
(* takes the elements in; and the places that the members of a finite set  *)
(* of numbers have in it.  The provers have no induction over sets; a      *)
(* least counterexample takes its place.  Then the estimate itself.        *)
(***************************************************************************)
EXTENDS Admission, FiniteSetTheorems, WellFoundedInduction, TLAPS

-----------------------------------------------------------------------------
(* Minima, finite sets and sums.                                           *)

LEMMA FirstNumbers ==
  ASSUME NEW n \in Nat
  PROVE  IsFiniteSet(1 .. n) /\ Cardinality(1 .. n) = n
BY FS_Interval

(* The sum of a function, and the recursion by which the fold is defined.  *)
SumOver(f, S) == MapThenSumSet(LAMBDA x : f[x], S)

Some(s) == CHOOSE x \in s : TRUE
Step(g, f, s) == IF s = {} THEN 0 ELSE f[Some(s)] + g[s \ {Some(s)}]
IsFold(g, f, S) == g = [s \in SUBSET S |-> Step(g, f, s)]

(* Products of natural numbers grow with their factors.                    *)
LEMMA ProductNat == \A a \in Nat, b \in Nat : a * b \in Nat
OBVIOUS

LEMMA ProductGrows ==
  ASSUME NEW a \in Nat, NEW b \in Nat, NEW c \in Nat, a <= b
  PROVE  c * a <= c * b
<1>1. PICK d \in Nat : b = a + d
  <2>1. b - a \in Nat /\ b = a + (b - a)
    OBVIOUS
  <2>2. QED
    BY <2>1
<1>2. c * b = c * a + c * d
  BY <1>1
<1>3. c * a \in Nat /\ c * d \in Nat
  BY <1>1, ProductNat
<1>4. QED
  BY <1>2, <1>3

LEMMA LeastNumber ==
  ASSUME NEW S \in SUBSET Nat, S # {}
  PROVE  \E n \in S : \A m \in S : n <= m
<1>1. PICK x \in S : \A y \in S : <<y, x>> \notin OpToRel(<, Nat)
  BY WFMin, NatLessThanWellFounded, Zenon
<1>2. ASSUME NEW y \in S, y < x
      PROVE  FALSE
  <2>1. <<y, x>> \in Nat \X Nat /\ <<y, x>>[1] = y /\ <<y, x>>[2] = x
    OBVIOUS
  <2>2. <<y, x>>[1] < <<y, x>>[2]
    BY <1>2, <2>1
  <2>3. <<y, x>> \in OpToRel(<, Nat)
    BY <2>1, <2>2, Zenon DEF OpToRel
  <2>4. QED
    BY <1>1, <2>3, Zenon
<1>3. \A y \in S : x <= y
  BY <1>2
<1>4. QED
  BY <1>3

(* Among some parts of a finite set there is a smallest: the parts smaller *)
(* than it are not among them.                                             *)
LEMMA SmallestPart ==
  ASSUME NEW S, IsFiniteSet(S), NEW C \in SUBSET (SUBSET S), C # {}
  PROVE  \E T \in C : \A x \in T : T \ {x} \notin C
<1> DEFINE N == {Cardinality(T) : T \in C}
<1>1. \A T \in C : IsFiniteSet(T) /\ Cardinality(T) \in Nat
  BY FS_Subset, FS_CardinalityType
<1>2. N \in SUBSET Nat /\ N # {}
  BY <1>1
<1>3. PICK n \in N : \A m \in N : n <= m
  BY <1>2, LeastNumber
<1>4. PICK T \in C : Cardinality(T) = n
  BY <1>3
<1>5. ASSUME NEW x \in T, T \ {x} \in C PROVE FALSE
  <2>1. Cardinality(T \ {x}) = n - 1
    BY <1>1, <1>4, FS_RemoveElement
  <2>2. n <= n - 1
    BY <1>3, <1>5, <2>1
  <2>3. QED
    BY <1>2, <2>2
<1>6. QED
  BY <1>4, <1>5

(* Max is the greatest member of a finite set.                             *)
LEMMA GreatestNumber ==
  ASSUME NEW N \in SUBSET Nat, IsFiniteSet(N), N # {}
  PROVE  Max(N) \in N /\ \A y \in N : y <= Max(N)
<1> DEFINE C == {T \in SUBSET N : T # {} /\ ~ \E x \in T : \A y \in T : x >= y}
<1>1. C = {}
  <2>1. SUFFICES ASSUME C # {} PROVE FALSE
    OBVIOUS
  <2>2. PICK T \in C : \A x \in T : T \ {x} \notin C
    BY <2>1, SmallestPart
  <2>3. PICK x \in T : TRUE
    BY <2>2
  <2>4. PICK m \in T : \A y \in T \ {x} : m >= y
    <3>1. CASE T \ {x} = {}
      BY <2>3, <3>1
    <3>2. CASE T \ {x} # {}
      <4>1. T \ {x} \in SUBSET N /\ T \ {x} \notin C
        BY <2>2, <2>3
      <4>2. QED
        BY <3>2, <4>1
    <3>3. QED
      BY <3>1, <3>2
  <2>5. x \in Nat /\ m \in Nat /\ \A y \in T : y \in Nat
    BY <2>2, <2>3, <2>4
  <2>6. \E z \in T : \A y \in T : z >= y
    <3>1. CASE m >= x
      BY <2>4, <2>5, <3>1
    <3>2. CASE x >= m
      BY <2>3, <2>4, <2>5, <3>2
    <3>3. QED
      BY <2>5, <3>1, <3>2
  <2>7. QED
    BY <2>2, <2>6
<1>2. \E x \in N : \A y \in N : x >= y
  BY <1>1
<1>3. QED
  BY <1>2 DEF Max

(* Numbers that can be summed up.                                          *)
Summable(V) == V \in SUBSET Int /\ 0 \in V /\ \A x, y \in V : x + y \in V

LEMMA NumbersSummable == Summable(Nat) /\ Summable(Int)
BY DEF Summable

(* The recursion has a solution,                                           *)
LEMMA FoldExistsIn ==
  ASSUME NEW V, Summable(V), NEW S, IsFiniteSet(S), NEW f \in [S -> V]
  PROVE  \E g \in [SUBSET S -> V] : IsFold(g, f, S)
<1> DEFINE UpTo(g, n) == \A s \in SUBSET S : Cardinality(s) <= n => g[s] = Step(g, f, s)
           D == {n \in Nat : ~ \E g \in [SUBSET S -> V] : UpTo(g, n)}
<1>1. \A s \in SUBSET S : IsFiniteSet(s) /\ Cardinality(s) \in Nat
  BY FS_Subset, FS_CardinalityType
<1>2. \A s \in SUBSET S : s # {} => /\ Some(s) \in s
                                    /\ s \ {Some(s)} \in SUBSET S
                                    /\ Cardinality(s \ {Some(s)}) = Cardinality(s) - 1
  BY <1>1, FS_RemoveElement DEF Some
<1>3. D = {}
  <2>1. SUFFICES ASSUME D # {} PROVE FALSE
    OBVIOUS
  <2>2. PICK n \in D : \A m \in D : n <= m
    BY <2>1, LeastNumber
  <2>3. n # 0
    <3>1. [s \in SUBSET S |-> 0] \in [SUBSET S -> V]
      BY DEF Summable
    <3>2. UpTo([s \in SUBSET S |-> 0], 0)
      BY <1>1, FS_EmptySet DEF Step
    <3>3. QED
      BY <3>1, <3>2
  <2>4. n \in Nat /\ n - 1 \in Nat
    BY <2>2, <2>3
  <2>a. n - 1 \notin D
    <3> HIDE DEF D
    <3>1. QED
      BY <2>2, <2>4
  <2>5. PICK g \in [SUBSET S -> V] : UpTo(g, n - 1)
    BY <2>4, <2>a
  <2> DEFINE h == [s \in SUBSET S |-> IF Cardinality(s) <= n - 1 THEN g[s] ELSE Step(g, f, s)]
  <2>6. ASSUME NEW s \in SUBSET S PROVE Step(g, f, s) \in V
    <3>1. s # {} => Some(s) \in S /\ f[Some(s)] \in V
      BY <1>2
    <3>2. s # {} => g[s \ {Some(s)}] \in V
      BY <1>2
    <3>3. QED
      BY <3>1, <3>2 DEF Step, Summable
  <2>7. h \in [SUBSET S -> V]
    BY <2>6
  <2>8. ASSUME NEW s \in SUBSET S, Cardinality(s) <= n
        PROVE  h[s] = Step(h, f, s)
    <3>1. h[s] = Step(g, f, s)
      BY <2>5
    <3>2. CASE s = {}
      BY <3>1, <3>2 DEF Step
    <3>3. CASE s # {}
      <4>1. Cardinality(s \ {Some(s)}) <= n - 1
        BY <1>1, <1>2, <2>4, <2>8, <3>3
      <4>2. h[s \ {Some(s)}] = g[s \ {Some(s)}]
        BY <1>2, <3>3, <4>1
      <4>3. QED
        BY <3>1, <3>3, <4>2 DEF Step
    <3>4. QED
      BY <3>2, <3>3
  <2>9. QED
    BY <2>2, <2>7, <2>8
<1>4. PICK g \in [SUBSET S -> V] : UpTo(g, Cardinality(S))
  BY <1>1, <1>3
<1>5. \A s \in SUBSET S : g[s] = Step(g, f, s)
  BY <1>4, FS_Subset
<1>6. IsFold(g, f, S)
  BY <1>5 DEF IsFold
<1>7. QED
  BY <1>6

LEMMA FoldExists ==
  ASSUME NEW S, IsFiniteSet(S), NEW f \in [S -> Nat]
  PROVE  \E g \in [SUBSET S -> Nat] : IsFold(g, f, S)
BY NumbersSummable, FoldExistsIn

(* and on the parts of a set only one.                                     *)
LEMMA FoldUnique ==
  ASSUME NEW S, IsFiniteSet(S), NEW T \in SUBSET S, NEW f, NEW e,
         \A x \in T : e[x] = f[x],
         NEW g, IsFold(g, f, S), NEW h, IsFold(h, e, T)
  PROVE  g[T] = h[T]
<1> DEFINE C == {s \in SUBSET T : g[s] # h[s]}
<1>1. IsFiniteSet(T)
  BY FS_Subset
<1>2. C = {}
  <2>1. SUFFICES ASSUME C # {} PROVE FALSE
    OBVIOUS
  <2>2. PICK s \in C : \A x \in s : s \ {x} \notin C
    BY <1>1, <2>1, SmallestPart
  <2>3. g[s] = Step(g, f, s) /\ h[s] = Step(h, e, s)
    <3>1. s \in SUBSET S /\ s \in SUBSET T
      BY <2>2
    <3>2. QED
      BY <3>1 DEF IsFold
  <2>4. CASE s = {}
    BY <2>2, <2>3, <2>4 DEF Step
  <2>5. CASE s # {}
    <3>1. Some(s) \in s
      BY <2>5 DEF Some
    <3>2. s \ {Some(s)} \notin C /\ s \ {Some(s)} \in SUBSET T
      BY <2>2, <3>1
    <3>3. g[s \ {Some(s)}] = h[s \ {Some(s)}]
      BY <3>2
    <3>4. e[Some(s)] = f[Some(s)]
      BY <2>2, <3>1
    <3>5. QED
      BY <2>2, <2>3, <2>5, <3>3, <3>4 DEF Step
  <2>6. QED
    BY <2>4, <2>5
<1>3. QED
  BY <1>2

(* So the sum over a part is what the recursion over the whole gives it.   *)
IsSum(g, f, S) == IsFold(g, f, S) /\ \A T \in SUBSET S : SumOver(f, T) = g[T]

LEMMA SumIsFoldIn ==
  ASSUME NEW V, Summable(V), NEW S, IsFiniteSet(S), NEW f \in [S -> V]
  PROVE  \E g \in [SUBSET S -> V] : IsSum(g, f, S)
<1>1. PICK g \in [SUBSET S -> V] : IsFold(g, f, S)
  BY FoldExistsIn
<1>2. ASSUME NEW T \in SUBSET S PROVE SumOver(f, T) = g[T]
  <2> DEFINE h == CHOOSE k : IsFold(k, f, T)
             e == [x \in T |-> f[x]]
  <2>1. SumOver(f, T) = h[T]
    BY DEF SumOver, MapThenSumSet, MapThenFoldSet, IsFold, Step, Some
  <2>2. IsFiniteSet(T) /\ e \in [T -> V]
    BY FS_Subset
  <2>3. PICK k : IsFold(k, e, T)
    BY <2>2, FoldExistsIn
  <2>4. IsFold(k, f, T)
    <3>1. \A s \in SUBSET T : Step(k, e, s) = Step(k, f, s)
      BY DEF Step, Some
    <3>2. QED
      BY <2>3, <3>1 DEF IsFold
  <2>5. IsFold(h, f, T)
    <3> HIDE DEF e
    <3>1. QED
      BY <2>4
  <2>6. QED
    BY <1>1, <2>1, <2>5, FoldUnique
<1>3. QED
  BY <1>1, <1>2 DEF IsSum

LEMMA SumIsFold ==
  ASSUME NEW S, IsFiniteSet(S), NEW f \in [S -> Nat]
  PROVE  \E g \in [SUBSET S -> Nat] : IsSum(g, f, S)
BY NumbersSummable, SumIsFoldIn

(* A fold over another expression for the same terms is the same sum.      *)
LEMMA FoldIsSum ==
  ASSUME NEW S, IsFiniteSet(S), NEW f \in [S -> Nat], NEW e, \A x \in S : e[x] = f[x]
  PROVE  SumOver(e, S) = SumOver(f, S)
<1>1. PICK g \in [SUBSET S -> Nat] : IsFold(g, f, S) /\ SumOver(f, S) = g[S]
  BY SumIsFold DEF IsSum
<1> DEFINE h == CHOOSE k : IsFold(k, e, S)
<1>2. SumOver(e, S) = h[S]
  BY DEF SumOver, MapThenSumSet, MapThenFoldSet, IsFold, Step, Some
<1>3. IsFold(g, e, S)
  <2>1. \A s \in SUBSET S : Step(g, e, s) = Step(g, f, s)
    BY DEF Step, Some
  <2>2. QED
    BY <1>1, <2>1 DEF IsFold
<1>4. IsFold(h, e, S)
  BY <1>3
<1>5. QED
  BY <1>1, <1>2, <1>4, FoldUnique

(* Whatever satisfies the recursion of the fold computes the sum.          *)
LEMMA FoldComputes ==
  ASSUME NEW S, IsFiniteSet(S), NEW f \in [S -> Nat], NEW T \in SUBSET S,
         NEW e, \A x \in T : e[x] = f[x], NEW h, IsFold(h, e, T)
  PROVE  h[T] = SumOver(f, T)
<1>1. PICK g : IsSum(g, f, S)
  BY SumIsFold
<1>2. SumOver(f, T) = g[T] /\ IsFold(g, f, S)
  BY <1>1 DEF IsSum
<1>3. QED
  BY <1>2, FoldUnique, Z3

LEMMA SumNat ==
  ASSUME NEW S, IsFiniteSet(S), NEW f \in [S -> Nat], NEW T \in SUBSET S
  PROVE  SumOver(f, T) \in Nat
<1>1. PICK g \in [SUBSET S -> Nat] : IsSum(g, f, S)
  BY SumIsFold
<1>2. QED
  BY <1>1 DEF IsSum

LEMMA SumEmpty ==
  ASSUME NEW S, IsFiniteSet(S), NEW f \in [S -> Nat]
  PROVE  SumOver(f, {}) = 0
<1>0. PICK g \in [SUBSET S -> Nat] : IsSum(g, f, S)
  BY SumIsFold
<1>1. IsFold(g, f, S) /\ \A T \in SUBSET S : SumOver(f, T) = g[T]
  BY <1>0 DEF IsSum
<1>2. g[{}] = 0
  BY <1>1 DEF IsFold, Step
<1>3. QED
  BY <1>1, <1>2

(* The same for terms that may be negative.                                *)
LEMMA FoldComputesIn ==
  ASSUME NEW V, Summable(V), NEW S, IsFiniteSet(S), NEW f \in [S -> V],
         NEW e, \A x \in S : e[x] = f[x], NEW h, IsFold(h, e, S)
  PROVE  h[S] = SumOver(f, S)
<1>1. PICK g \in [SUBSET S -> V] : IsSum(g, f, S)
  BY SumIsFoldIn
<1>2. SumOver(f, S) = g[S] /\ IsFold(g, f, S)
  BY <1>1 DEF IsSum
<1>3. S \in SUBSET S
  OBVIOUS
<1>4. g[S] = h[S]
  BY <1>2, <1>3, FoldUnique
<1>5. QED
  BY <1>2, <1>4

SameSum(e, f, T) == SumOver(e, T) = SumOver(f, T)

LEMMA SameSumIn ==
  ASSUME NEW V, Summable(V), NEW S, IsFiniteSet(S), NEW f \in [S -> V],
         NEW T \in SUBSET S, NEW e \in [T -> V], \A x \in T : e[x] = f[x]
  PROVE  SameSum(e, f, T)
<1>1. PICK g \in [SUBSET S -> V] : IsSum(g, f, S)
  BY SumIsFoldIn
<1>2. SumOver(f, T) = g[T] /\ IsFold(g, f, S)
  BY <1>1 DEF IsSum
<1>3. IsFiniteSet(T)
  BY FS_Subset
<1>4. PICK h \in [SUBSET T -> V] : IsSum(h, e, T)
  BY <1>3, SumIsFoldIn
<1>5. T \in SUBSET T
  OBVIOUS
<1>6. SumOver(e, T) = h[T] /\ IsFold(h, e, T)
  BY <1>4, <1>5 DEF IsSum
<1>7. g[T] = h[T]
  BY <1>2, <1>6, FoldUnique
<1>8. QED
  BY <1>2, <1>6, <1>7 DEF SameSum

LEMMA SumIntIs ==
  ASSUME NEW S, IsFiniteSet(S), NEW f \in [S -> Int]
  PROVE  SumOver(f, {}) = 0 /\ \A T \in SUBSET S : SumOver(f, T) \in Int
<1>1. Summable(Int)
  BY NumbersSummable
<1>2. PICK g \in [SUBSET S -> Int] : IsSum(g, f, S)
  BY <1>1, SumIsFoldIn
<1>3. IsFold(g, f, S) /\ \A T \in SUBSET S : SumOver(f, T) = g[T]
  BY <1>2 DEF IsSum
<1>4. g[{}] = 0
  BY <1>3 DEF IsFold, Step
<1>5. QED
  BY <1>3, <1>4

(* Whichever element is taken out of the sum,                              *)
TakesOut(f, S) ==
  \A T \in SUBSET S : \A x \in T : SumOver(f, T) = f[x] + SumOver(f, T \ {x})

LEMMA SumTakeIn ==
  ASSUME NEW V, Summable(V), NEW S, IsFiniteSet(S), NEW f \in [S -> V]
  PROVE  TakesOut(f, S)
<1>0. PICK g \in [SUBSET S -> V] : IsSum(g, f, S)
  BY SumIsFoldIn
<1>1. IsFold(g, f, S) /\ \A T \in SUBSET S : SumOver(f, T) = g[T]
  BY <1>0 DEF IsSum
<1> DEFINE C == {T \in SUBSET S : \E x \in T : g[T] # f[x] + g[T \ {x}]}
<1>2. C = {}
  <2>1. SUFFICES ASSUME C # {} PROVE FALSE
    OBVIOUS
  <2>2. PICK T \in C : \A x \in T : T \ {x} \notin C
    BY <2>1, SmallestPart
  <2>3. PICK x \in T : g[T] # f[x] + g[T \ {x}]
    BY <2>2
  <2> DEFINE c == Some(T)
  <2>4. T \in SUBSET S /\ c \in T
    BY <2>2, <2>3 DEF Some
  <2>5. g[T] = f[c] + g[T \ {c}]
    BY <1>1, <2>4 DEF IsFold, Step
  <2>6. x # c
    BY <2>3, <2>5
  <2>7. /\ T \ {c} \in SUBSET S /\ T \ {c} \notin C /\ x \in T \ {c}
        /\ T \ {x} \in SUBSET S /\ T \ {x} \notin C /\ c \in T \ {x}
    BY <2>2, <2>3, <2>4, <2>6
  <2>8. /\ g[T \ {c}] = f[x] + g[(T \ {c}) \ {x}]
        /\ g[T \ {x}] = f[c] + g[(T \ {x}) \ {c}]
    BY <2>7
  <2>9. (T \ {c}) \ {x} = (T \ {x}) \ {c}
    OBVIOUS
  <2>10. f[x] \in Int /\ f[c] \in Int /\ g[(T \ {x}) \ {c}] \in Int
    BY <2>4, <2>3 DEF Summable
  <2>11. f[c] + (f[x] + g[(T \ {x}) \ {c}]) = f[x] + (f[c] + g[(T \ {x}) \ {c}])
    BY <2>10
  <2>12. g[T] = f[x] + g[T \ {x}]
    BY <2>5, <2>8, <2>9, <2>11, Zenon
  <2>13. QED
    BY <2>3, <2>12, Zenon
<1>3. ASSUME NEW T \in SUBSET S, NEW x \in T
      PROVE  SumOver(f, T) = f[x] + SumOver(f, T \ {x})
  <2>1. g[T] = f[x] + g[T \ {x}]
    BY <1>2
  <2>2. T \ {x} \in SUBSET S
    OBVIOUS
  <2>3. QED
    BY <1>1, <2>1, <2>2
<1>4. QED
  BY <1>3 DEF TakesOut

LEMMA SumTake ==
  ASSUME NEW S, IsFiniteSet(S), NEW f \in [S -> Nat]
  PROVE  \A T \in SUBSET S : \A x \in T : SumOver(f, T) = f[x] + SumOver(f, T \ {x})
<1>1. TakesOut(f, S)
  BY NumbersSummable, SumTakeIn
<1>2. QED
  BY <1>1 DEF TakesOut

(* The last term of a sum over the first numbers.                          *)
LEMMA SumUpTo ==
  ASSUME NEW n \in Nat, NEW f \in [1 .. n -> Nat], NEW i \in 1 .. n
  PROVE  SumOver(f, 1 .. i) = f[i] + SumOver(f, 1 .. (i - 1))
<1> DEFINE V == 1 .. i
           I == 1 .. n
<1>1. V \in SUBSET I /\ i \in V /\ V \ {i} = 1 .. (i - 1)
  OBVIOUS
<1>2. IsFiniteSet(I) /\ f \in [I -> Nat]
  BY FirstNumbers
<1> HIDE DEF V, I
<1>3. SumOver(f, V) = f[i] + SumOver(f, V \ {i})
  BY <1>1, <1>2, SumTake
<1>4. QED
  BY <1>1, <1>3 DEF V

LEMMA SumSingle ==
  ASSUME NEW x, NEW f, f[x] \in Nat
  PROVE  SumOver(f, {x}) = f[x]
<1> DEFINE e == [y \in {x} |-> f[y]]
<1>1. IsFiniteSet({x}) /\ e \in [{x} -> Nat]
  BY FS_Singleton
<1>2. SumOver(f, {x}) = SumOver(e, {x})
  BY <1>1, FoldIsSum
<1>3. SumOver(e, {x}) = e[x] + SumOver(e, {x} \ {x})
  BY <1>1, SumTake
<1>4. {x} \ {x} = {}
  OBVIOUS
<1>5. QED
  BY <1>1, <1>2, <1>3, <1>4, SumEmpty

(* More and larger terms give a larger sum,                                *)
LEMMA SumGrows ==
  ASSUME NEW S, IsFiniteSet(S), NEW f \in [S -> Nat], NEW g \in [S -> Nat],
         NEW T \in SUBSET S, NEW U \in SUBSET S, T \subseteq U,
         \A x \in T : f[x] <= g[x]
  PROVE  SumOver(f, T) <= SumOver(g, U)
<1> DEFINE Bad(V, W) == V \subseteq W /\ ~(SumOver(f, V) <= SumOver(g, W))
           C == {V \in SUBSET T : \E W \in SUBSET S : Bad(V, W)}
<1>1. IsFiniteSet(T)
  BY FS_Subset
<1>2. C = {}
  <2>1. SUFFICES ASSUME C # {} PROVE FALSE
    OBVIOUS
  <2>2. PICK V \in C : \A x \in V : V \ {x} \notin C
    BY <1>1, <2>1, SmallestPart
  <2>3. PICK W \in SUBSET S : Bad(V, W)
    BY <2>2
  <2>4. V \in SUBSET T /\ V \in SUBSET S
    BY <2>2
  <2>5. CASE V = {}
    <3>1. SumOver(f, V) = 0 /\ SumOver(g, W) \in Nat
      BY <2>5, SumEmpty, SumNat
    <3>2. QED
      BY <2>3, <3>1
  <2>6. CASE V # {}
    <3>1. PICK x \in V : TRUE
      BY <2>6
    <3>2. x \in W /\ x \in S /\ x \in T
      BY <2>3, <2>4, <3>1
    <3>3. /\ SumOver(f, V) = f[x] + SumOver(f, V \ {x})
          /\ SumOver(g, W) = g[x] + SumOver(g, W \ {x})
      BY <2>4, <3>1, <3>2, SumTake
    <3>4. /\ V \ {x} \in SUBSET T /\ V \ {x} \in SUBSET S /\ W \ {x} \in SUBSET S
          /\ V \ {x} \subseteq W \ {x}
      BY <2>3, <2>4
    <3>5. SumOver(f, V \ {x}) <= SumOver(g, W \ {x})
      BY <2>2, <3>1, <3>4
    <3>6. /\ SumOver(f, V \ {x}) \in Nat /\ SumOver(g, W \ {x}) \in Nat
          /\ f[x] \in Nat /\ g[x] \in Nat /\ f[x] <= g[x]
      BY <3>2, <3>4, SumNat
    <3>7. QED
      BY <2>3, <3>3, <3>5, <3>6
  <2>7. QED
    BY <2>5, <2>6
<1>3. QED
  BY <1>2

(* and a number added to each term is added as often as there are terms.   *)
LEMMA SumShift ==
  ASSUME NEW S, IsFiniteSet(S), NEW f \in [S -> Nat], NEW c \in Nat
  PROVE  SumOver([x \in S |-> f[x] + c], S) = c * Cardinality(S) + SumOver(f, S)
<1> DEFINE g == [x \in S |-> f[x] + c]
           C == {T \in SUBSET S : SumOver(g, T) # c * Cardinality(T) + SumOver(f, T)}
<1>1. g \in [S -> Nat]
  OBVIOUS
<1>2. C = {}
  <2>1. SUFFICES ASSUME C # {} PROVE FALSE
    OBVIOUS
  <2>2. PICK T \in C : \A x \in T : T \ {x} \notin C
    BY <2>1, SmallestPart
  <2> HIDE DEF g
  <2>3. T \in SUBSET S /\ SumOver(g, T) # c * Cardinality(T) + SumOver(f, T)
    BY <2>2
  <2>4. CASE T = {}
    <3>1. Cardinality(T) = 0 /\ SumOver(f, T) = 0 /\ SumOver(g, T) = 0
      BY <1>1, <2>4, FS_EmptySet, SumEmpty
    <3>2. QED
      BY <2>3, <3>1
  <2>5. CASE T # {}
    <3>1. PICK x \in T : TRUE
      BY <2>5
    <3>2. /\ SumOver(f, T) = f[x] + SumOver(f, T \ {x})
          /\ SumOver(g, T) = g[x] + SumOver(g, T \ {x})
      BY <1>1, <2>3, <3>1, SumTake
    <3>3. T \ {x} \in SUBSET S /\ T \ {x} \notin C
      BY <2>2, <2>3, <3>1
    <3>4. SumOver(g, T \ {x}) = c * Cardinality(T \ {x}) + SumOver(f, T \ {x})
      BY <3>3
    <3>5. /\ Cardinality(T) \in Nat
          /\ Cardinality(T \ {x}) = Cardinality(T) - 1
      BY <2>3, <3>1, FS_Subset, FS_CardinalityType, FS_RemoveElement
    <3>6. c * (Cardinality(T) - 1) = c * Cardinality(T) - c
      BY <3>5
    <3>7. /\ f[x] \in Nat /\ SumOver(f, T \ {x}) \in Nat
          /\ c * Cardinality(T) \in Nat
          /\ g[x] = f[x] + c
      <4>1. g[x] = f[x] + c
        BY <2>3, <3>1 DEF g
      <4>2. QED
        BY <2>3, <3>1, <3>3, <3>5, <4>1, SumNat
    <3>8. SumOver(g, T) = (f[x] + c) + ((c * Cardinality(T) - c) + SumOver(f, T \ {x}))
      BY <3>2, <3>4, <3>5, <3>6, <3>7
    <3>9. QED
      BY <2>3, <3>2, <3>7, <3>8
  <2>6. QED
    BY <2>4, <2>5
<1>3. QED
  BY <1>2

(* The sum over two sets without a common element,                         *)
LEMMA SumUnion ==
  ASSUME NEW S, IsFiniteSet(S), NEW f \in [S -> Nat],
         NEW T \in SUBSET S, NEW U \in SUBSET S, T \cap U = {}
  PROVE  SumOver(f, T \cup U) = SumOver(f, T) + SumOver(f, U)
<1> DEFINE C == {V \in SUBSET T : SumOver(f, V \cup U) # SumOver(f, V) + SumOver(f, U)}
<1>1. IsFiniteSet(T)
  BY FS_Subset
<1>2. C = {}
  <2>1. SUFFICES ASSUME C # {} PROVE FALSE
    OBVIOUS
  <2>2. PICK V \in C : \A x \in V : V \ {x} \notin C
    BY <1>1, <2>1, SmallestPart
  <2>3. V \in SUBSET S /\ V \cup U \in SUBSET S /\ V \subseteq T
    BY <2>2
  <2>4. CASE V = {}
    <3>1. SumOver(f, V) = 0 /\ SumOver(f, U) \in Nat /\ V \cup U = U
      BY <2>4, SumEmpty, SumNat
    <3>2. QED
      BY <2>2, <3>1
  <2>5. CASE V # {}
    <3>1. PICK x \in V : TRUE
      BY <2>5
    <3>2. x \in V \cup U /\ x \in S /\ (V \cup U) \ {x} = (V \ {x}) \cup U
      BY <2>3, <3>1
    <3>3. /\ SumOver(f, V) = f[x] + SumOver(f, V \ {x})
          /\ SumOver(f, V \cup U) = f[x] + SumOver(f, (V \cup U) \ {x})
      BY <2>3, <3>1, <3>2, SumTake
    <3>4. SumOver(f, (V \ {x}) \cup U) = SumOver(f, V \ {x}) + SumOver(f, U)
      BY <2>2, <2>3, <3>1
    <3>5. f[x] \in Nat /\ SumOver(f, V \ {x}) \in Nat /\ SumOver(f, U) \in Nat
      BY <2>3, <3>2, SumNat
    <3>6. SumOver(f, (V \cup U) \ {x}) = SumOver(f, V \ {x}) + SumOver(f, U)
      BY <3>2, <3>4
    <3>7. SumOver(f, V \cup U) = SumOver(f, V) + SumOver(f, U)
      BY <3>3, <3>5, <3>6
    <3>8. QED
      BY <2>2, <3>7
  <2>6. QED
    BY <2>4, <2>5
<1>3. QED
  BY <1>2

(* of functions that agree on the set,                                     *)
LEMMA SumSame ==
  ASSUME NEW S, IsFiniteSet(S), NEW f \in [S -> Nat], NEW g \in [S -> Nat],
         NEW T \in SUBSET S, \A x \in T : f[x] = g[x]
  PROVE  SumOver(f, T) = SumOver(g, T)
<1>1. \A x \in T : f[x] \in Nat /\ f[x] <= g[x] /\ g[x] <= f[x]
  OBVIOUS
<1>2. SumOver(f, T) <= SumOver(g, T) /\ SumOver(g, T) <= SumOver(f, T)
  BY <1>1, SumGrows
<1>3. QED
  BY <1>2, SumNat

(* and of a constant.                                                      *)
LEMMA SumConstant ==
  ASSUME NEW S, IsFiniteSet(S), NEW c \in Nat, NEW f \in [S -> Nat],
         NEW T \in SUBSET S, \A x \in T : f[x] = c
  PROVE  SumOver(f, T) = c * Cardinality(T)
<1> DEFINE C == {V \in SUBSET T : SumOver(f, V) # c * Cardinality(V)}
<1>1. IsFiniteSet(T)
  BY FS_Subset
<1>2. C = {}
  <2>1. SUFFICES ASSUME C # {} PROVE FALSE
    OBVIOUS
  <2>2. PICK V \in C : \A x \in V : V \ {x} \notin C
    BY <1>1, <2>1, SmallestPart
  <2>3. V \in SUBSET S /\ V \subseteq T /\ IsFiniteSet(V)
    BY <1>1, <2>2, FS_Subset
  <2>4. CASE V = {}
    <3>1. SumOver(f, V) = 0 /\ Cardinality(V) = 0
      BY <2>4, SumEmpty, FS_EmptySet
    <3>2. QED
      BY <2>2, <3>1
  <2>5. CASE V # {}
    <3>1. PICK x \in V : TRUE
      BY <2>5
    <3>2. SumOver(f, V) = f[x] + SumOver(f, V \ {x}) /\ f[x] = c
      BY <2>3, <3>1, SumTake
    <3>3. SumOver(f, V \ {x}) = c * Cardinality(V \ {x})
      BY <2>2, <2>3, <3>1
    <3>4. /\ Cardinality(V) \in Nat
          /\ Cardinality(V \ {x}) = Cardinality(V) - 1
      BY <2>3, <3>1, FS_CardinalityType, FS_RemoveElement
    <3>5. c * (Cardinality(V) - 1) = c * Cardinality(V) - c /\ c * Cardinality(V) \in Nat
      BY <3>4
    <3>6. SumOver(f, V) = c * Cardinality(V)
      BY <3>2, <3>3, <3>4, <3>5
    <3>7. QED
      BY <2>2, <3>6
  <2>6. QED
    BY <2>4, <2>5
<1>3. QED
  BY <1>2

(* A sum does not change when its terms are numbered.                      *)
LEMMA SumImage ==
  ASSUME NEW S, IsFiniteSet(S), NEW f \in [S -> Nat],
         NEW I, IsFiniteSet(I), NEW s \in Injection(I, S),
         NEW g \in [I -> Nat], \A i \in I : g[i] = f[s[i]],
         NEW T \in SUBSET I, NEW U, U = {s[i] : i \in T}
  PROVE  SumOver(g, T) = SumOver(f, U)
<1> DEFINE im(V) == {s[i] : i \in V}
           C == {V \in SUBSET I : SumOver(g, V) # SumOver(f, im(V))}
<1>1. /\ s \in [I -> S]
      /\ \A i \in I, j \in I : s[i] = s[j] => i = j
  BY DEF Injection, IsInjective
<1>2. C = {}
  <2>1. SUFFICES ASSUME C # {} PROVE FALSE
    OBVIOUS
  <2>2. PICK V \in C : \A x \in V : V \ {x} \notin C
    <3> HIDE DEF im
    <3>1. C \in SUBSET (SUBSET I)
      OBVIOUS
    <3> HIDE DEF C
    <3>2. QED
      BY <2>1, <3>1, SmallestPart
  <2>3. V # {}
    <3>1. SumOver(f, {}) = 0 /\ SumOver(g, {}) = 0
      BY SumEmpty
    <3>2. im({}) = {}
      OBVIOUS
    <3> HIDE DEF im
    <3>3. QED
      BY <2>2, <3>1, <3>2
  <2>4. PICK x \in V : TRUE
    BY <2>3
  <2>5. /\ im(V) \in SUBSET S /\ s[x] \in im(V) /\ x \in I
        /\ im(V) \ {s[x]} = im(V \ {x})
        /\ g[x] = f[s[x]]
    BY <1>1, <2>2, <2>4
  <2> HIDE DEF im
  <2>6. SumOver(f, im(V)) = f[s[x]] + SumOver(f, im(V) \ {s[x]})
    BY <2>5, SumTake
  <2>7. SumOver(g, V) = g[x] + SumOver(g, V \ {x})
    BY <1>1, <2>2, <2>4, SumTake
  <2>8. SumOver(g, V \ {x}) = SumOver(f, im(V \ {x}))
    BY <2>2, <2>4
  <2>9. QED
    BY <2>2, <2>5, <2>6, <2>7, <2>8
<1> HIDE DEF im
<1>3. SumOver(g, T) = SumOver(f, im(T))
  BY <1>2
<1>4. QED
  BY <1>3 DEF im

(* A part of the terms that are larger by a constant.                      *)
LEMMA SumMore ==
  ASSUME NEW S, IsFiniteSet(S), NEW f \in [S -> Nat], NEW g \in [S -> Nat],
         NEW c \in Nat, NEW T \in SUBSET S, \A x \in T : g[x] = f[x] + c
  PROVE  SumOver(g, T) = c * Cardinality(T) + SumOver(f, T)
<1> DEFINE e == [x \in T |-> f[x]]
           d == [x \in T |-> e[x] + c]
<1>1. IsFiniteSet(T) /\ e \in [T -> Nat]
  BY FS_Subset
<1>2. SumOver(d, T) = c * Cardinality(T) + SumOver(e, T)
  BY <1>1, SumShift
<1>3. d \in [T -> Nat] /\ (\A x \in T : g[x] = d[x]) /\ (\A x \in T : f[x] = e[x])
  OBVIOUS
<1> HIDE DEF d, e
<1>4. SumOver(g, T) = SumOver(d, T)
  BY <1>1, <1>3, FoldIsSum
<1>5. SumOver(f, T) = SumOver(e, T)
  BY <1>1, <1>3, FoldIsSum
<1>6. QED
  BY <1>2, <1>4, <1>5

(* What finitely many sets cover is no larger than their sizes add up to.  *)
LEMMA CoverBound ==
  ASSUME NEW S, IsFiniteSet(S), NEW f \in [S -> Nat], NEW F,
         \A x \in S : IsFiniteSet(F[x]) /\ Cardinality(F[x]) <= f[x],
         NEW T \in SUBSET S, NEW C, \A c \in C : \E x \in T : c \in F[x]
  PROVE  IsFiniteSet(C) /\ Cardinality(C) <= SumOver(f, T)
<1> DEFINE cover(V) == UNION {F[x] : x \in V}
           Right(V) == IsFiniteSet(cover(V)) /\ Cardinality(cover(V)) <= SumOver(f, V)
           D == {V \in SUBSET S : ~Right(V)}
<1>1. D = {}
  <2>1. SUFFICES ASSUME D # {} PROVE FALSE
    OBVIOUS
  <2>2. PICK V \in D : \A x \in V : V \ {x} \notin D
    <3>1. D \in SUBSET (SUBSET S)
      OBVIOUS
    <3> HIDE DEF D
    <3>2. QED
      BY <2>1, <3>1, SmallestPart
  <2>3. V \in SUBSET S /\ ~Right(V)
    BY <2>2
  <2>4. V # {}
    <3>1. cover({}) = {} /\ Cardinality({}) = 0 /\ IsFiniteSet({}) /\ SumOver(f, {}) = 0
      BY FS_EmptySet, SumEmpty
    <3>2. Right({})
      BY <3>1
    <3>3. QED
      BY <2>3, <3>2
  <2>5. PICK x \in V : TRUE
    BY <2>4
  <2>6. cover(V) = cover(V \ {x}) \cup F[x]
    BY <2>5
  <2>7. V \ {x} \in SUBSET S /\ x \in S /\ Right(V \ {x})
    BY <2>2, <2>3, <2>5
  <2>8. SumOver(f, V) = f[x] + SumOver(f, V \ {x})
    BY <2>3, <2>5, SumTake
  <2>9. IsFiniteSet(F[x]) /\ Cardinality(F[x]) <= f[x] /\ f[x] \in Nat
    BY <2>7
  <2>10. SumOver(f, V \ {x}) \in Nat
    BY <2>7, SumNat
  <2> DEFINE A == cover(V \ {x})
             B == F[x]
  <2>11. /\ IsFiniteSet(A) /\ Cardinality(A) <= SumOver(f, V \ {x})
         /\ IsFiniteSet(B) /\ Cardinality(B) <= f[x]
    BY <2>7, <2>9
  <2> HIDE DEF A, B
  <2>12. /\ IsFiniteSet(A \cup B) /\ Cardinality(A) \in Nat /\ Cardinality(B) \in Nat
         /\ Cardinality(A \cap B) \in Nat
         /\ Cardinality(A \cup B) = Cardinality(A) + Cardinality(B) - Cardinality(A \cap B)
    BY <2>11, FS_Union, FS_Intersection, FS_CardinalityType
  <2>13. IsFiniteSet(A \cup B) /\ Cardinality(A \cup B) <= SumOver(f, V)
    BY <2>8, <2>9, <2>10, <2>11, <2>12
  <2>14. Right(V)
    BY <2>6, <2>13 DEF A, B
  <2>15. QED
    BY <2>3, <2>14
<1>2. Right(T)
  BY <1>1
<1>3. C \subseteq cover(T)
  OBVIOUS
<1>4. IsFiniteSet(C) /\ Cardinality(C) <= Cardinality(cover(T))
  <2> HIDE DEF cover
  <2>1. QED
    BY <1>2, <1>3, FS_Subset
<1>5. /\ Cardinality(C) \in Nat /\ Cardinality(cover(T)) \in Nat
      /\ SumOver(f, T) \in Nat /\ Cardinality(cover(T)) <= SumOver(f, T)
  BY <1>2, <1>4, FS_CardinalityType, SumNat
<1>6. QED
  BY <1>4, <1>5
-----------------------------------------------------------------------------
(* The n least members of a finite set of numbers, which is how an index   *)
(* of free cells is read from a running sum of flags.                      *)
Rank(S, c) == Cardinality({d \in S : d <= c})
Least(S, n) == {c \in S : Rank(S, c) <= n}

LEMMA RankIsPlace ==
  ASSUME NEW S \in SUBSET Nat, IsFiniteSet(S), NEW c \in S
  PROVE  /\ Rank(S, c) \in 1 .. Cardinality(S)
         /\ \A d \in S : c < d => Rank(S, c) < Rank(S, d)
<1> DEFINE UpTo(x) == {d \in S : d <= x}
<1>1. /\ Cardinality(S) \in Nat
      /\ \A x \in S : /\ UpTo(x) \in SUBSET S /\ IsFiniteSet(UpTo(x))
                      /\ Cardinality(UpTo(x)) \in Nat
                      /\ Cardinality(UpTo(x)) <= Cardinality(S)
  BY FS_Subset, FS_CardinalityType
<1>2. c \in UpTo(c)
  OBVIOUS
<1>3. Cardinality(UpTo(c)) # 0
  BY <1>1, <1>2, FS_EmptySet
<1>4. ASSUME NEW d \in S, c < d
      PROVE  Cardinality(UpTo(c)) < Cardinality(UpTo(d))
  <2>1. UpTo(c) \subseteq UpTo(d) \ {d} /\ d \in UpTo(d)
    <3>1. ASSUME NEW x \in S, x <= c PROVE x <= d /\ x # d
      <4>1. x \in Nat /\ c \in Nat /\ d \in Nat
        OBVIOUS
      <4>2. QED
        BY <1>4, <3>1, <4>1
    <3>2. d \in S /\ d <= d
      OBVIOUS
    <3>3. QED
      BY <3>1, <3>2
  <2>2. IsFiniteSet(UpTo(d) \ {d}) /\ Cardinality(UpTo(d) \ {d}) = Cardinality(UpTo(d)) - 1
    BY <1>1, <2>1, FS_RemoveElement
  <2>3. Cardinality(UpTo(c)) <= Cardinality(UpTo(d) \ {d})
    BY <2>1, <2>2, FS_Subset
  <2>4. QED
    BY <1>1, <2>2, <2>3
<1>5. \A x \in S : Rank(S, x) = Cardinality(UpTo(x))
  BY DEF Rank
<1> HIDE DEF UpTo
<1>6. QED
  BY <1>1, <1>3, <1>4, <1>5

LEMMA LeastSized ==
  ASSUME NEW S \in SUBSET Nat, IsFiniteSet(S), NEW n \in 0 .. Cardinality(S)
  PROVE  Cardinality(Least(S, n)) = n
<1> DEFINE Bad == {k \in 0 .. Cardinality(S) : Cardinality(Least(S, k)) # k}
<1>1. Cardinality(S) \in Nat
  BY FS_CardinalityType
<1>2. \A c \in S : Rank(S, c) \in 1 .. Cardinality(S)
  BY RankIsPlace
<1>3. \A k : Least(S, k) \in SUBSET S /\ IsFiniteSet(Least(S, k))
  BY FS_Subset DEF Least
<1>4. ASSUME Bad # {}
      PROVE  FALSE
  <2>1. PICK k \in Bad : \A j \in Bad : k <= j
    <3>1. Bad \in SUBSET Nat
      BY <1>1
    <3>2. QED
      BY <1>4, <3>1, LeastNumber
  <2>2. k \in Nat /\ k <= Cardinality(S) /\ Cardinality(Least(S, k)) # k
    BY <1>1, <2>1
  <2>3. k # 0
    <3>1. SUFFICES ASSUME k = 0 PROVE FALSE
      OBVIOUS
    <3>2. ASSUME NEW c \in S PROVE ~(Rank(S, c) <= k)
      <4>1. Rank(S, c) \in 1 .. Cardinality(S)
        BY <1>2
      <4>2. QED
        BY <1>1, <3>1, <4>1
    <3>3. Least(S, k) = {}
      BY <3>2 DEF Least
    <3>4. QED
      BY <2>2, <3>1, <3>3, FS_EmptySet
  <2>4. k - 1 \in 0 .. Cardinality(S) /\ k - 1 < k
    BY <1>1, <2>2, <2>3
  <2>5. Cardinality(Least(S, k - 1)) = k - 1
    BY <2>1, <2>2, <2>4
  <2> DEFINE low == Least(S, k - 1)
  <2>6. S \ low # {}
    <3>1. SUFFICES ASSUME low = S PROVE FALSE
      BY DEF Least
    <3>2. QED
      BY <1>1, <2>2, <2>5, <3>1
  <2>7. PICK m \in S \ low : \A c \in S \ low : m <= c
    <3>1. S \ low \in SUBSET Nat
      OBVIOUS
    <3>2. QED
      BY <2>6, <3>1, LeastNumber
  <2>8. Rank(S, m) > k - 1 /\ Rank(S, m) \in Nat
    BY <1>2, <2>2, <2>7 DEF Least
  <2>9. {d \in S : d <= m} = low \cup {m}
    <3>1. ASSUME NEW d \in S, d <= m PROVE d \in low \cup {m}
      <4>1. d \notin S \ low \/ m <= d
        BY <2>7
      <4>2. d \in Nat /\ m \in Nat
        BY <2>7
      <4>3. QED
        BY <3>1, <4>1, <4>2
    <3>2. ASSUME NEW d \in low PROVE d \in S /\ d <= m
      <4>1. d \in S /\ Rank(S, d) <= k - 1
        BY <3>2 DEF Least
      <4>2. Rank(S, d) \in Nat /\ d \in Nat /\ m \in Nat
        BY <1>2, <2>7, <4>1
      <4>3. m < d => Rank(S, m) < Rank(S, d)
        BY <2>7, <4>1, RankIsPlace
      <4>4. QED
        BY <2>2, <2>8, <4>1, <4>2, <4>3
    <3>3. m \in S /\ m <= m
      BY <2>7
    <3>4. QED
      BY <3>1, <3>2, <3>3
  <2>10. Cardinality(low \cup {m}) = (k - 1) + 1 /\ Cardinality(low \cup {m}) = k
    <3>1. IsFiniteSet(low) /\ Cardinality(low) = k - 1 /\ m \notin low
      BY <1>3, <2>5, <2>7
    <3> HIDE DEF low
    <3>2. Cardinality(low \cup {m}) = Cardinality(low) + 1
      BY <3>1, FS_AddElement
    <3>3. QED
      BY <2>2, <3>1, <3>2
  <2>11. Rank(S, m) = k
    BY <2>9, <2>10 DEF Rank
  <2>12. ASSUME NEW c \in S PROVE Rank(S, c) <= k <=> c \in low \cup {m}
    <3>1. Rank(S, c) \in Nat /\ c \in Nat /\ m \in Nat
      BY <1>2, <2>7
    <3>2. c < m => Rank(S, c) < Rank(S, m)
      BY <2>7, RankIsPlace
    <3>3. m < c => Rank(S, m) < Rank(S, c)
      BY <2>7, RankIsPlace
    <3>4. c \in low <=> Rank(S, c) <= k - 1
      BY DEF Least
    <3> HIDE DEF low
    <3>5. QED
      BY <2>2, <2>11, <3>1, <3>2, <3>3, <3>4
  <2>13. Least(S, k) = low \cup {m}
    <3>1. low \cup {m} \in SUBSET S
      BY <1>3, <2>7
    <3> HIDE DEF low
    <3>2. QED
      BY <2>12, <3>1 DEF Least
  <2>14. QED
    BY <2>2, <2>10, <2>13
<1>5. QED
  BY <1>4

(* The k-th member.                                                        *)
LEMMA RankTaken ==
  ASSUME NEW S \in SUBSET Nat, IsFiniteSet(S), NEW k \in 1 .. Cardinality(S)
  PROVE  \E c \in S : Rank(S, c) = k
<1>1. Cardinality(S) \in Nat
  BY FS_CardinalityType
<1>2. k - 1 \in 0 .. Cardinality(S) /\ k \in 0 .. Cardinality(S)
  BY <1>1
<1>3. Cardinality(Least(S, k)) = k /\ Cardinality(Least(S, k - 1)) = k - 1
  BY <1>2, LeastSized
<1>4. PICK c \in Least(S, k) : c \notin Least(S, k - 1)
  <2>1. ASSUME Least(S, k) \subseteq Least(S, k - 1) PROVE FALSE
    <3>1. IsFiniteSet(Least(S, k - 1))
      BY FS_Subset DEF Least
    <3>2. Cardinality(Least(S, k)) <= Cardinality(Least(S, k - 1))
      BY <2>1, <3>1, FS_Subset
    <3>3. QED
      BY <1>1, <1>3, <3>2
  <2>2. QED
    BY <2>1
<1>5. c \in S /\ Rank(S, c) <= k /\ ~(Rank(S, c) <= k - 1)
  BY <1>4 DEF Least
<1>6. Rank(S, c) \in Nat
  BY <1>5, RankIsPlace
<1>7. QED
  BY <1>1, <1>5, <1>6

LEMMA RankUnique ==
  ASSUME NEW S \in SUBSET Nat, IsFiniteSet(S), NEW c \in S, NEW d \in S,
         Rank(S, c) = Rank(S, d)
  PROVE  c = d
<1>1. /\ c < d => Rank(S, c) < Rank(S, d)
      /\ d < c => Rank(S, d) < Rank(S, c)
      /\ Rank(S, c) \in Nat /\ Rank(S, d) \in Nat
  BY RankIsPlace
<1>2. QED
  BY <1>1

-----------------------------------------------------------------------------
(* The estimate.                                                           *)

(* What a request occupies when its next token has been made and how many  *)
(* it makes after that, when o are the output tokens so far: the entries   *)
(* of cache_len_list, the new one as long as the request has no token.     *)
HasRun(o, r) == IF o[r] = 0 THEN input_len[r] + 1 ELSE input_len[r] + o[r]
LeftOut(o, r) == IF o[r] = 0 THEN max_output_len[r] - 1 ELSE max_output_len[r] - o[r] - 1

(* The cells a batch needs t steps from now, if no request ends early.     *)
Alive(o, B, t) == {r \in B : LeftOut(o, r) >= t}
Peak(o, B, t) == SumOver([r \in Req |-> HasRun(o, r) + t], Alive(o, B, t))

PeaksFit(o, B) == \A t \in Nat : Peak(o, B, t) + AdapterSize(B) < max_total_tokens

LEMMA RunNat ==
  ASSUME NEW o \in [Req -> Nat], NEW r \in Req
  PROVE  /\ input_len[r] \in Nat \ {0} /\ max_output_len[r] \in Nat \ {0}
         /\ o[r] \in Nat
         /\ HasRun(o, r) \in Nat /\ LeftOut(o, r) \in Int
         /\ \A t \in Nat : HasRun(o, r) + t \in Nat
BY RequestAssumption DEF HasRun, LeftOut

LEMMA PartsFinite ==
  ASSUME NEW B \in SUBSET Req
  PROVE  IsFiniteSet(B) /\ Cardinality(B) \in Nat
BY RequestAssumption, FS_Subset, FS_CardinalityType

(* The sums of module Admission are the sums of the first part.            *)
AdaptersOf(B) == {adapter_dir[r] : r \in B}
adapterCells == [c \in AdaptersOf(Req) |-> 4 * lora_rank[c]]

LEMMA DirsFinite ==
  /\ IsFiniteSet(AdaptersOf(Req))
  /\ AdaptersOf(Req) \subseteq Client
  /\ adapterCells \in [AdaptersOf(Req) -> Nat]
<1> DEFINE f == [r \in Req |-> adapter_dir[r]]
<1>1. f \in Surjection(Req, AdaptersOf(Req))
  BY DEF Surjection, AdaptersOf
<1>2. IsFiniteSet(AdaptersOf(Req))
  BY <1>1, RequestAssumption, FS_Surjection
<1>3. AdaptersOf(Req) \subseteq Client
  BY RequestAssumption DEF AdaptersOf
<1>4. \A c \in AdaptersOf(Req) : 4 * lora_rank[c] \in Nat
  BY <1>3, RequestAssumption
<1>5. QED
  BY <1>2, <1>3, <1>4 DEF adapterCells

LEMMA AdapterSizeIsSum ==
  ASSUME NEW B \in SUBSET Req
  PROVE  AdapterSize(B) = SumOver(adapterCells, AdaptersOf(B))
<1> DEFINE T == AdaptersOf(B)
           h == CHOOSE k : k = [s \in SUBSET T |->
                  IF s = {} THEN 0 ELSE 4 * lora_rank[Some(s)] + k[s \ {Some(s)}]]
<1>1. T \in SUBSET AdaptersOf(Req)
  BY DEF AdaptersOf
<1>2. AdapterSize(B) = h[T]
  BY DEF AdapterSize, MapThenSumSet, MapThenFoldSet, Some, AdaptersOf
<1>3. PICK g : IsSum(g, adapterCells, AdaptersOf(Req))
  BY DirsFinite, SumIsFold
<1>4. SumOver(adapterCells, T) = g[T] /\ IsFold(g, adapterCells, AdaptersOf(Req))
  BY <1>1, <1>3 DEF IsSum
<1> DEFINE e == [c \in T |-> adapterCells[c]]
<1>5. IsFiniteSet(T) /\ e \in [T -> Nat]
  BY <1>1, DirsFinite, FS_Subset
<1>6. PICK k : IsFold(k, e, T)
  BY <1>5, FoldExists
<1>7. \A s \in SUBSET T : s # {} => e[Some(s)] = 4 * lora_rank[Some(s)]
  BY <1>1 DEF Some, adapterCells
<1>8. k = [s \in SUBSET T |->
             IF s = {} THEN 0 ELSE 4 * lora_rank[Some(s)] + k[s \ {Some(s)}]]
  BY <1>6, <1>7 DEF IsFold, Step
<1>9. h = [s \in SUBSET T |->
             IF s = {} THEN 0 ELSE 4 * lora_rank[Some(s)] + h[s \ {Some(s)}]]
  BY <1>8
<1> HIDE DEF h
<1>10. IsFold(h, e, T)
  BY <1>7, <1>9 DEF IsFold, Step
<1>11. \A x \in T : e[x] = adapterCells[x]
  OBVIOUS
<1> HIDE DEF e, T
<1>12. g[T] = h[T]
  BY <1>1, <1>4, <1>10, <1>11, DirsFinite, FoldUnique
<1>13. QED
  BY <1>2, <1>4, <1>12 DEF T

LEMMA TokensHeldIsSum ==
  ASSUME NEW o \in [Req -> Nat], NEW B \in SUBSET Req
  PROVE  TokensHeld(B, o) = SumOver([r \in Req |-> input_len[r] + o[r]], B)
<1> DEFINE f == [r \in Req |-> input_len[r] + o[r]]
           h == CHOOSE k : k = [s \in SUBSET B |->
                  IF s = {} THEN 0
                  ELSE input_len[Some(s)] + o[Some(s)] + k[s \ {Some(s)}]]
<1>1. f \in [Req -> Nat] /\ IsFiniteSet(Req) /\ IsFiniteSet(B)
  BY RunNat, RequestAssumption, PartsFinite
<1>2. TokensHeld(B, o) = h[B]
  BY DEF TokensHeld, MapThenSumSet, MapThenFoldSet, Some
<1>3. PICK g : IsSum(g, f, Req)
  BY <1>1, SumIsFold
<1>4. SumOver(f, B) = g[B] /\ IsFold(g, f, Req)
  BY <1>3 DEF IsSum
<1> DEFINE e == [r \in B |-> f[r]]
<1>5. e \in [B -> Nat]
  BY <1>1
<1>6. PICK k : IsFold(k, e, B)
  BY <1>1, <1>5, FoldExists
<1>7. \A s \in SUBSET B : s # {} => e[Some(s)] = input_len[Some(s)] + o[Some(s)]
  BY DEF Some
<1>8. k = [s \in SUBSET B |->
             IF s = {} THEN 0
             ELSE input_len[Some(s)] + o[Some(s)] + k[s \ {Some(s)}]]
  BY <1>6, <1>7 DEF IsFold, Step
<1>9. h = [s \in SUBSET B |->
             IF s = {} THEN 0
             ELSE input_len[Some(s)] + o[Some(s)] + h[s \ {Some(s)}]]
  BY <1>8
<1> HIDE DEF h
<1>10. IsFold(h, e, B)
  BY <1>7, <1>9 DEF IsFold, Step
<1>11. \A x \in B : e[x] = f[x]
  OBVIOUS
<1> HIDE DEF e, f
<1>12. SumOver(f, B) = TokensHeld(B, o)
  BY <1>1, <1>2, <1>4, <1>10, <1>11, FoldUnique
<1>13. QED
  BY <1>12 DEF f

(* Fewer requests have fewer adapters.                                     *)
LEMMA AdapterSizeGrows ==
  ASSUME NEW B \in SUBSET Req, NEW A \in SUBSET B
  PROVE  /\ AdapterSize(A) \in Nat /\ AdapterSize(B) \in Nat
         /\ AdapterSize(A) <= AdapterSize(B)
<1>1. /\ AdaptersOf(A) \in SUBSET AdaptersOf(Req)
      /\ AdaptersOf(B) \in SUBSET AdaptersOf(Req)
      /\ AdaptersOf(A) \subseteq AdaptersOf(B)
  BY DEF AdaptersOf
<1>2. \A c \in AdaptersOf(A) : adapterCells[c] <= adapterCells[c]
  BY <1>1, DirsFinite
<1>3. SumOver(adapterCells, AdaptersOf(A)) <= SumOver(adapterCells, AdaptersOf(B))
  BY <1>1, <1>2, DirsFinite, SumGrows
<1>4. /\ SumOver(adapterCells, AdaptersOf(A)) \in Nat
      /\ SumOver(adapterCells, AdaptersOf(B)) \in Nat
  BY <1>1, DirsFinite, SumNat
<1>5. AdapterSize(A) = SumOver(adapterCells, AdaptersOf(A))
  BY AdapterSizeIsSum
<1>6. AdapterSize(B) = SumOver(adapterCells, AdaptersOf(B))
  BY AdapterSizeIsSum
<1>7. QED
  BY <1>3, <1>4, <1>5, <1>6

LEMMA PeakNat ==
  ASSUME NEW o \in [Req -> Nat], NEW B \in SUBSET Req, NEW t \in Nat
  PROVE  /\ [r \in Req |-> HasRun(o, r) + t] \in [Req -> Nat]
         /\ Alive(o, B, t) \in SUBSET Req
         /\ Peak(o, B, t) \in Nat
<1>1. [r \in Req |-> HasRun(o, r) + t] \in [Req -> Nat]
  BY RunNat
<1>2. Alive(o, B, t) \in SUBSET Req
  BY DEF Alive
<1>3. QED
  BY <1>1, <1>2, RequestAssumption, SumNat DEF Peak

(* A batch that is no earlier in its life than another, request by         *)
(* request, by k steps, needs no more than that one k steps later.         *)
LEMMA PeakShrinks ==
  ASSUME NEW o \in [Req -> Nat], NEW B \in SUBSET Req,
         NEW p \in [Req -> Nat], NEW A \in SUBSET B, NEW k \in Nat, NEW t \in Nat,
         \A r \in A : HasRun(p, r) <= HasRun(o, r) + k /\ LeftOut(p, r) + k <= LeftOut(o, r)
  PROVE  Peak(p, A, t) <= Peak(o, B, t + k)
<1> DEFINE f == [r \in Req |-> HasRun(p, r) + t]
           g == [r \in Req |-> HasRun(o, r) + (t + k)]
           V == Alive(p, A, t)
           W == Alive(o, B, t + k)
<1>1. A \in SUBSET Req /\ t + k \in Nat
  OBVIOUS
<1>2. f \in [Req -> Nat] /\ g \in [Req -> Nat] /\ V \in SUBSET Req /\ W \in SUBSET Req
  BY <1>1, RunNat DEF Alive
<1>3. V \subseteq W
  <2>1. SUFFICES ASSUME NEW r \in A, LeftOut(p, r) >= t PROVE LeftOut(o, r) >= t + k
    BY DEF Alive
  <2>2. r \in Req
    OBVIOUS
  <2>3. LeftOut(p, r) \in Int /\ LeftOut(o, r) \in Int
    BY <2>2, RunNat
  <2>4. QED
    BY <2>1, <2>3
<1>4. ASSUME NEW r \in V PROVE f[r] <= g[r]
  <2>1. r \in A /\ r \in Req
    BY DEF Alive
  <2>2. HasRun(p, r) \in Nat /\ HasRun(o, r) \in Nat
    BY <2>1, RunNat
  <2>3. HasRun(p, r) <= HasRun(o, r) + k
    BY <2>1
  <2>4. QED
    BY <2>1, <2>2, <2>3
<1> HIDE DEF V, W, f, g
<1>5. SumOver(f, V) <= SumOver(g, W)
  BY <1>2, <1>3, <1>4, RequestAssumption, SumGrows
<1>6. Peak(p, A, t) = SumOver(f, V) /\ Peak(o, B, t + k) = SumOver(g, W)
  BY DEF Peak, f, g, V, W
<1>7. QED
  BY <1>5, <1>6

LEMMA PeakMoves ==
  ASSUME NEW o \in [Req -> Nat], NEW B \in SUBSET Req, PeaksFit(o, B),
         NEW p \in [Req -> Nat], NEW A \in SUBSET B, NEW k \in Nat,
         \A r \in A : HasRun(p, r) <= HasRun(o, r) + k /\ LeftOut(p, r) + k <= LeftOut(o, r)
  PROVE  PeaksFit(p, A)
<1> SUFFICES ASSUME NEW t \in Nat
             PROVE  Peak(p, A, t) + AdapterSize(A) < max_total_tokens
  BY DEF PeaksFit
<1>1. A \in SUBSET Req /\ t + k \in Nat
  OBVIOUS
<1>2. Peak(p, A, t) <= Peak(o, B, t + k)
  BY PeakShrinks
<1>3. Peak(o, B, t + k) + AdapterSize(B) < max_total_tokens
  BY <1>1 DEF PeaksFit
<1>4. /\ Peak(p, A, t) \in Nat /\ Peak(o, B, t + k) \in Nat
      /\ AdapterSize(A) \in Nat /\ AdapterSize(B) \in Nat
      /\ AdapterSize(A) <= AdapterSize(B)
  BY <1>1, PeakNat, AdapterSizeGrows
<1>5. QED
  BY <1>2, <1>3, <1>4, LimitAssumption

(* What a batch holds now is at most its peak now.                         *)
LEMMA HeldIsPeak ==
  ASSUME NEW o \in [Req -> Nat], NEW B \in SUBSET Req, PeaksFit(o, B),
         \A r \in B : LeftOut(o, r) >= 0
  PROVE  TokensHeld(B, o) + AdapterSize(B) < max_total_tokens
<1> DEFINE f == [r \in Req |-> input_len[r] + o[r]]
           g == [r \in Req |-> HasRun(o, r) + 0]
<1>1. Alive(o, B, 0) = B
  BY DEF Alive
<1>2. f \in [Req -> Nat] /\ g \in [Req -> Nat]
  BY RunNat
<1>3. ASSUME NEW r \in B PROVE f[r] <= g[r]
  <2>1. r \in Req
    OBVIOUS
  <2>2. input_len[r] \in Nat /\ o[r] \in Nat
    BY <2>1, RunNat
  <2>3. QED
    BY <2>1, <2>2 DEF HasRun
<1> HIDE DEF f, g
<1>4. SumOver(f, B) <= SumOver(g, B)
  BY <1>2, <1>3, RequestAssumption, SumGrows
<1>5. TokensHeld(B, o) = SumOver(f, B)
  BY TokensHeldIsSum DEF f
<1>6. Peak(o, B, 0) = SumOver(g, B)
  BY <1>1 DEF Peak, g
<1>7. Peak(o, B, 0) + AdapterSize(B) < max_total_tokens
  BY DEF PeaksFit
<1>8. SumOver(f, B) \in Nat /\ SumOver(g, B) \in Nat /\ AdapterSize(B) \in Nat
  BY <1>2, RequestAssumption, SumNat, AdapterSizeGrows
<1>9. QED
  BY <1>4, <1>5, <1>6, <1>7, <1>8, LimitAssumption

-----------------------------------------------------------------------------
(* The estimate.  cache is cache_len_list for the batch A.                 *)
IsCacheOf(cache, o, A) ==
  /\ DOMAIN cache = A
  /\ \A x \in A : cache[x].has_run = HasRun(o, x) /\ cache[x].left = LeftOut(o, x)

(* An entry's need is the peak at the moment that request ends.            *)
LEMMA NeedIsPeak ==
  ASSUME NEW o \in [Req -> Nat], NEW A \in SUBSET Req, NEW cache, IsCacheOf(cache, o, A),
         NEW e \in A, LeftOut(o, e) \in Nat
  PROVE  NeedAt(cache, e) = Peak(o, A, LeftOut(o, e))
<1> DEFINE V == Alive(o, A, LeftOut(o, e))
           f == [x \in V |-> HasRun(o, x)]
           h == CHOOSE k : k = [s \in SUBSET V |->
                  IF s = {} THEN 0 ELSE cache[Some(s)].has_run + k[s \ {Some(s)}]]
<1>1. V = {x \in DOMAIN cache : cache[x].left >= cache[e].left}
  BY DEF Alive, IsCacheOf
<1>2. NeedAt(cache, e) = LeftOut(o, e) * Cardinality(V) + h[V]
  <2>1. cache[e].left = LeftOut(o, e)
    BY DEF IsCacheOf
  <2> HIDE DEF V
  <2>2. QED
    BY <1>1, <2>1 DEF NeedAt, MapThenSumSet, MapThenFoldSet, Some
<1>3. V \in SUBSET A /\ V \in SUBSET Req /\ IsFiniteSet(V)
  <2>1. V \in SUBSET A /\ V \in SUBSET Req
    BY DEF Alive
  <2>2. QED
    BY <2>1, PartsFinite
<1>4. f \in [V -> Nat]
  BY <1>3, RunNat
<1>5. \A s \in SUBSET V : s # {} => f[Some(s)] = cache[Some(s)].has_run
  BY <1>3 DEF Some, IsCacheOf
<1> HIDE DEF V
<1>6. h[V] = SumOver(f, V)
  <2>1. PICK g : IsSum(g, f, V)
    BY <1>3, <1>4, SumIsFold
  <2>2. SumOver(f, V) = g[V] /\ IsFold(g, f, V)
    BY <2>1 DEF IsSum
  <2> HIDE DEF f
  <2>3. g = [s \in SUBSET V |->
              IF s = {} THEN 0 ELSE cache[Some(s)].has_run + g[s \ {Some(s)}]]
    BY <1>5, <2>2 DEF IsFold, Step
  <2>4. h = [s \in SUBSET V |->
              IF s = {} THEN 0 ELSE cache[Some(s)].has_run + h[s \ {Some(s)}]]
    BY <2>3
  <2> HIDE DEF h
  <2>5. IsFold(h, f, V)
    BY <1>5, <2>4 DEF IsFold, Step
  <2>6. QED
    BY <1>3, <2>2, <2>5, FoldUnique
<1> DEFINE c == LeftOut(o, e)
           g == [x \in V |-> f[x] + c]
           p == [r \in Req |-> HasRun(o, r) + c]
<1>7. SumOver(g, V) = c * Cardinality(V) + SumOver(f, V)
  <2> HIDE DEF f, c
  <2>1. c \in Nat
    BY DEF c
  <2>2. QED
    BY <1>3, <1>4, <2>1, SumShift
<1>8. SumOver(p, V) = SumOver(g, V)
  <2>1. g \in [V -> Nat]
    BY <1>4
  <2>2. \A x \in V : p[x] = g[x]
    BY <1>3
  <2> HIDE DEF p, g
  <2>3. QED
    BY <1>3, <2>1, <2>2, FoldIsSum
<1>9. Peak(o, A, c) = SumOver(p, V)
  BY DEF Peak, V
<1> HIDE DEF h, f, g, p
<1>10. QED
  BY <1>2, <1>6, <1>7, <1>8, <1>9

(* The estimate is the highest of the peaks: none exceeds it, and it is    *)
(* reached when one of the requests ends.                                  *)
LEMMA EstimateIsHighest ==
  ASSUME NEW o \in [Req -> Nat], NEW A \in SUBSET Req, A # {},
         NEW cache, IsCacheOf(cache, o, A),
         \A x \in A : LeftOut(o, x) \in Nat
  PROVE  /\ NeedMaxTokenNum(cache) \in Nat
         /\ \A t \in Nat : Peak(o, A, t) <= NeedMaxTokenNum(cache)
         /\ \E e \in A : NeedMaxTokenNum(cache) = Peak(o, A, LeftOut(o, e))
<1> DEFINE need == [e \in A |-> NeedAt(cache, e)]
           N == {NeedAt(cache, e) : e \in DOMAIN cache}
<1>1. ASSUME NEW e \in A
      PROVE  NeedAt(cache, e) = Peak(o, A, LeftOut(o, e)) /\ NeedAt(cache, e) \in Nat
  <2>1. LeftOut(o, e) \in Nat
    OBVIOUS
  <2>2. NeedAt(cache, e) = Peak(o, A, LeftOut(o, e))
    BY <2>1, NeedIsPeak
  <2>3. Peak(o, A, LeftOut(o, e)) \in Nat
    BY <2>1, PeakNat
  <2>4. QED
    BY <2>2, <2>3
<1>2. N = {need[e] : e \in A}
  BY DEF IsCacheOf
<1>3. N \in SUBSET Nat /\ N # {} /\ IsFiniteSet(N)
  <2>1. N \in SUBSET Nat /\ N # {}
    BY <1>1, <1>2
  <2>2. need \in Surjection(A, N)
    BY <1>2 DEF Surjection
  <2>3. QED
    BY <2>1, <2>2, PartsFinite, FS_Surjection
<1>4. Max(N) \in Nat /\ \A y \in N : y <= Max(N)
  <2> HIDE DEF N
  <2>1. QED
    BY <1>3, GreatestNumber
<1>5. Max(N) = NeedMaxTokenNum(cache)
  BY DEF NeedMaxTokenNum
<1>6. \A e \in A : Peak(o, A, LeftOut(o, e)) <= Max(N)
  BY <1>1, <1>2, <1>4
<1> HIDE DEF N, need
<1>7. ASSUME NEW t \in Nat
      PROVE  Peak(o, A, t) <= Max(N)
  <2> DEFINE V == Alive(o, A, t)
             L == {LeftOut(o, x) : x \in V}
             f == [r \in Req |-> HasRun(o, r) + t]
  <2>1. V \in SUBSET A /\ V \in SUBSET Req /\ f \in [Req -> Nat] /\ Peak(o, A, t) \in Nat
    BY PeakNat DEF Alive
  <2>2. CASE V = {}
    <3>1. Peak(o, A, t) = 0
      BY <2>1, <2>2, SumEmpty, RequestAssumption DEF Peak
    <3>2. QED
      BY <1>4, <3>1
  <2>3. CASE V # {}
    <3>1. L \in SUBSET Nat /\ L # {}
      BY <2>1, <2>3
    <3>2. PICK n \in L : \A m \in L : n <= m
      <4> HIDE DEF L
      <4>1. QED
        BY <3>1, LeastNumber
    <3>3. PICK e \in V : n = LeftOut(o, e)
      BY <3>2
    <3>4. n \in Nat /\ t <= n
      BY <2>1, <3>1, <3>2, <3>3 DEF Alive
    <3>5. \A x \in V : n <= LeftOut(o, x)
      BY <3>2
    <3>6. Alive(o, A, n) = V
      <4>1. ASSUME NEW x \in A PROVE LeftOut(o, x) >= n <=> LeftOut(o, x) >= t
        <5>1. LeftOut(o, x) \in Nat
          OBVIOUS
        <5>2. LeftOut(o, x) >= t => n <= LeftOut(o, x)
          BY <3>5 DEF Alive
        <5>3. QED
          BY <3>4, <5>1, <5>2
      <4>2. QED
        BY <4>1 DEF Alive
    <3> DEFINE g == [r \in Req |-> HasRun(o, r) + n]
    <3>7. g \in [Req -> Nat]
      BY <3>4, RunNat
    <3>8. ASSUME NEW x \in V PROVE f[x] <= g[x]
      <4>1. x \in Req /\ HasRun(o, x) \in Nat
        BY <2>1, RunNat
      <4>2. QED
        BY <3>4, <4>1
    <3> HIDE DEF f, g, V
    <3>9. SumOver(f, V) <= SumOver(g, V)
      BY <2>1, <3>7, <3>8, RequestAssumption, SumGrows
    <3>10. Peak(o, A, t) = SumOver(f, V) /\ Peak(o, A, n) = SumOver(g, V)
      BY <3>6 DEF Peak, f, g, V
    <3>11. Peak(o, A, n) <= Max(N)
      BY <1>6, <2>1, <3>3
    <3>12. Peak(o, A, n) \in Nat
      BY <3>4, PeakNat
    <3>13. QED
      BY <1>4, <2>1, <3>9, <3>10, <3>11, <3>12
  <2>4. QED
    BY <2>2, <2>3
<1>8. PICK e \in A : Max(N) = NeedAt(cache, e)
  <2>1. Max(N) \in N
    BY <1>3, GreatestNumber
  <2>2. QED
    BY <2>1 DEF N, IsCacheOf
<1>9. QED
  BY <1>1, <1>4, <1>5, <1>7, <1>8

(* What the estimate accepts fits at every later moment.                   *)
LEMMA EstimateCovers ==
  ASSUME NEW o \in [Req -> Nat], NEW A \in SUBSET Req, A # {},
         NEW cache, IsCacheOf(cache, o, A),
         \A x \in A : LeftOut(o, x) \in Nat,
         NeedMaxTokenNum(cache) + AdapterSize(A) < max_total_tokens
  PROVE  PeaksFit(o, A)
<1>1. AdapterSize(A) \in Nat /\ NeedMaxTokenNum(cache) \in Nat
  BY AdapterSizeGrows, EstimateIsHighest
<1>2. ASSUME NEW t \in Nat
      PROVE  Peak(o, A, t) + AdapterSize(A) < max_total_tokens
  <2>1. Peak(o, A, t) \in Nat /\ Peak(o, A, t) <= NeedMaxTokenNum(cache)
    BY EstimateIsHighest, PeakNat
  <2>2. QED
    BY <1>1, <2>1, LimitAssumption
<1>3. QED
  BY <1>2 DEF PeaksFit

(* A peak, counted over the entries of the list.                           *)
LEMMA HeldIsPeakLater ==
  ASSUME NEW o \in [Req -> Nat], NEW B \in SUBSET Req,
         NEW cache, IsCacheOf(cache, o, B), NEW t \in Nat
  PROVE  MapThenSumSet(LAMBDA r : cache[r].has_run + t,
                       {r \in DOMAIN cache : cache[r].left >= t})
           = Peak(o, B, t)
<1> DEFINE V == Alive(o, B, t)
           f == [r \in Req |-> HasRun(o, r) + t]
           e == [r \in V |-> f[r]]
           h == CHOOSE k : k = [s \in SUBSET V |->
                  IF s = {} THEN 0 ELSE cache[Some(s)].has_run + t + k[s \ {Some(s)}]]
<1> DEFINE total == MapThenSumSet(LAMBDA r : cache[r].has_run + t,
                                 {r \in DOMAIN cache : cache[r].left >= t})
<1>1. DOMAIN cache = B
  BY DEF IsCacheOf
<1>2. V = {r \in DOMAIN cache : cache[r].left >= t}
  BY <1>1 DEF Alive, IsCacheOf
<1>3. total = h[V]
  <2> HIDE DEF V
  <2>1. QED
    BY <1>2 DEF MapThenSumSet, MapThenFoldSet, Some
<1>4. V \in SUBSET Req /\ V \in SUBSET B /\ IsFiniteSet(V)
  <2>1. V \in SUBSET Req /\ V \in SUBSET B
    BY <1>1 DEF Alive
  <2>2. QED
    BY <2>1, PartsFinite
<1>5. f \in [Req -> Nat] /\ IsFiniteSet(Req)
  BY <1>1, RunNat, RequestAssumption
<1> HIDE DEF h, total
<1>6. PICK g : IsSum(g, f, Req)
  <2> HIDE DEF f
  <2>1. QED
    BY <1>5, SumIsFold
<1>7. SumOver(f, V) = g[V] /\ IsFold(g, f, Req)
  BY <1>4, <1>6 DEF IsSum
<1> HIDE DEF V
<1>8. e \in [V -> Nat]
  BY <1>4, <1>5
<1>9. PICK k : IsFold(k, e, V)
  BY <1>4, <1>8, FoldExists
<1>10. \A s \in SUBSET V : s # {} => e[Some(s)] = cache[Some(s)].has_run + t
  BY <1>1, <1>4 DEF Some, IsCacheOf
<1>11. k = [s \in SUBSET V |->
              IF s = {} THEN 0 ELSE cache[Some(s)].has_run + t + k[s \ {Some(s)}]]
  BY <1>9, <1>10 DEF IsFold, Step
<1>12. h = [s \in SUBSET V |->
              IF s = {} THEN 0 ELSE cache[Some(s)].has_run + t + h[s \ {Some(s)}]]
  BY <1>11 DEF h
<1>13. IsFold(h, e, V)
  BY <1>10, <1>12 DEF IsFold, Step
<1>14. \A x \in V : e[x] = f[x]
  OBVIOUS
<1> HIDE DEF e, f
<1>15. g[V] = h[V]
  BY <1>4, <1>5, <1>7, <1>13, <1>14, FoldUnique
<1>16. Peak(o, B, t) = SumOver(f, V)
  BY DEF Peak, V, f
<1>17. QED
  BY <1>3, <1>7, <1>15, <1>16 DEF total

(* The largest of numbers that are bounded by one of them.                 *)
LEMMA LargestIs ==
  ASSUME NEW N \in SUBSET Nat, NEW m \in N, \A y \in N : y <= m
  PROVE  Max(N) = m
<1>1. \E x \in N : \A y \in N : y <= x
  OBVIOUS
<1>2. Max(N) \in N /\ \A y \in N : y <= Max(N)
  BY <1>1, Zenon DEF Max
<1>3. m \in Nat /\ Max(N) \in Nat /\ m <= Max(N) /\ Max(N) <= m
  BY <1>2
<1>4. QED
  BY <1>3

(* So it is the largest of the peaks up to the end of the longest request. *)
LEMMA EstimateIsLargest ==
  ASSUME NEW o \in [Req -> Nat], NEW A \in SUBSET Req, A # {},
         NEW cache, IsCacheOf(cache, o, A),
         \A x \in A : LeftOut(o, x) \in Nat
  PROVE  NeedMaxTokenNum(cache)
           = Max({Peak(o, A, t) : t \in 0 .. Max({LeftOut(o, x) : x \in A})})
<1> DEFINE L == {LeftOut(o, x) : x \in A}
           last == Max(L)
           P == {Peak(o, A, t) : t \in 0 .. last}
<1>1. L \in SUBSET Nat /\ L # {} /\ IsFiniteSet(L)
  <2> DEFINE f == [x \in A |-> LeftOut(o, x)]
  <2>1. f \in Surjection(A, L)
    BY DEF Surjection
  <2>2. QED
    BY <2>1, PartsFinite, FS_Surjection
<1>2. last \in L /\ \A y \in L : y <= last
  <2> HIDE DEF L
  <2>1. QED
    BY <1>1, GreatestNumber
<1>3. PICK e \in A : NeedMaxTokenNum(cache) = Peak(o, A, LeftOut(o, e))
  BY EstimateIsHighest
<1>4. LeftOut(o, e) \in 0 .. last
  <2>1. LeftOut(o, e) \in L /\ LeftOut(o, e) \in Nat
    OBVIOUS
  <2> HIDE DEF last, L
  <2>2. QED
    BY <1>1, <1>2, <2>1
<1>5. last \in Nat
  <2> HIDE DEF last, L
  <2>1. QED
    BY <1>1, <1>2
<1> HIDE DEF last
<1>6. NeedMaxTokenNum(cache) \in P
  BY <1>3, <1>4
<1>7. P \in SUBSET Nat
  <2>1. ASSUME NEW t \in 0 .. last PROVE Peak(o, A, t) \in Nat
    <3>1. t \in Nat
      BY <1>5
    <3>2. QED
      BY <3>1, PeakNat
  <2>2. QED
    BY <2>1
<1>8. \A y \in P : y <= NeedMaxTokenNum(cache)
  <2>1. ASSUME NEW t \in 0 .. last PROVE Peak(o, A, t) <= NeedMaxTokenNum(cache)
    <3>1. t \in Nat
      BY <1>5
    <3>2. QED
      BY <3>1, EstimateIsHighest
  <2>2. QED
    BY <2>1
<1> HIDE DEF P
<1>9. NeedMaxTokenNum(cache) = Max(P)
  BY <1>6, <1>7, <1>8, LargestIs
<1>10. QED
  BY <1>9 DEF P, last, L

(* A batch that is later in its life by k steps needs no more.             *)
LEMMA EstimateShrinks ==
  ASSUME NEW o \in [Req -> Nat], NEW B \in SUBSET Req,
         NEW cache, IsCacheOf(cache, o, B), \A x \in B : LeftOut(o, x) \in Nat,
         NEW p \in [Req -> Nat], NEW A \in SUBSET B, A # {},
         NEW later, IsCacheOf(later, p, A), \A x \in A : LeftOut(p, x) \in Nat,
         NEW k \in Nat,
         \A r \in A : HasRun(p, r) <= HasRun(o, r) + k /\ LeftOut(p, r) + k <= LeftOut(o, r)
  PROVE  NeedMaxTokenNum(later) <= NeedMaxTokenNum(cache)
<1>1. A \in SUBSET Req /\ B # {}
  OBVIOUS
<1>2. PICK e \in A : NeedMaxTokenNum(later) = Peak(p, A, LeftOut(p, e))
  BY <1>1, EstimateIsHighest
<1>3. LeftOut(p, e) \in Nat /\ LeftOut(p, e) + k \in Nat
  OBVIOUS
<1>4. Peak(p, A, LeftOut(p, e)) <= Peak(o, B, LeftOut(p, e) + k)
  BY <1>3, PeakShrinks
<1>5. /\ NeedMaxTokenNum(cache) \in Nat
      /\ Peak(o, B, LeftOut(p, e) + k) <= NeedMaxTokenNum(cache)
  BY <1>1, <1>3, EstimateIsHighest
<1>6. /\ Peak(p, A, LeftOut(p, e)) \in Nat
      /\ Peak(o, B, LeftOut(p, e) + k) \in Nat
  BY <1>1, <1>3, PeakNat
<1>7. QED
  BY <1>2, <1>4, <1>5, <1>6

-----------------------------------------------------------------------------
(* The list of the code.  s lists the requests of A, each once, by         *)
(* decreasing tokens left; k requests into it, the code has need(k).       *)
Lists(A) == {s \in [1 .. Cardinality(A) -> A] :
               \A i, j \in 1 .. Cardinality(A) : i # j => s[i] # s[j]}
ByLeft(s, o, n) == \A i \in 2 .. n : LeftOut(o, s[i - 1]) >= LeftOut(o, s[i])
RunUpTo(o, s, n, k) == SumOver([i \in 1 .. n |-> HasRun(o, s[i])], 1 .. k)
NeedUpTo(o, s, n, k) == LeftOut(o, s[k]) * k + RunUpTo(o, s, n, k)

(* Sorted neighbour by neighbour is sorted.                                *)
LEMMA SortedThroughout ==
  ASSUME NEW o, NEW n \in Nat, NEW s, ByLeft(s, o, n),
         \A i \in 1 .. n : LeftOut(o, s[i]) \in Nat,
         NEW i \in 1 .. n, NEW j \in 1 .. n, i <= j
  PROVE  LeftOut(o, s[i]) >= LeftOut(o, s[j])
<1> DEFINE Bad == {b \in 1 .. n : i <= b /\ ~(LeftOut(o, s[i]) >= LeftOut(o, s[b]))}
<1>1. SUFFICES ASSUME Bad # {} PROVE FALSE
  OBVIOUS
<1>2. Bad \in SUBSET Nat
  OBVIOUS
<1>3. PICK b \in Bad : \A c \in Bad : b <= c
  <2> HIDE DEF Bad
  <2>1. QED
    BY <1>1, <1>2, LeastNumber
<1>4. b # i
  BY <1>3
<1>5. b - 1 \in 1 .. n /\ i <= b - 1 /\ b \in 2 .. n
  BY <1>3, <1>4
<1>6. LeftOut(o, s[i]) >= LeftOut(o, s[b - 1])
  BY <1>3, <1>5
<1>7. LeftOut(o, s[b - 1]) >= LeftOut(o, s[b])
  BY <1>5 DEF ByLeft
<1>8. /\ LeftOut(o, s[i]) \in Nat /\ LeftOut(o, s[b - 1]) \in Nat
      /\ LeftOut(o, s[b]) \in Nat
  BY <1>5
<1>9. QED
  BY <1>3, <1>6, <1>7, <1>8

(* A list without repetitions that is as long as the set has it all.       *)
LEMMA ListsAll ==
  ASSUME NEW A \in SUBSET Req, NEW s \in Lists(A)
  PROVE  /\ s \in Injection(1 .. Cardinality(A), A)
         /\ \A x \in A : \E i \in 1 .. Cardinality(A) : s[i] = x
<1> DEFINE n == Cardinality(A)
<1>1. n \in Nat /\ IsFiniteSet(A)
  BY PartsFinite
<1>2. s \in Injection(1 .. n, A)
  BY DEF Lists, Injection, IsInjective
<1>3. Cardinality(1 .. n) = n /\ IsFiniteSet(1 .. n)
  <2> HIDE DEF n
  <2>1. QED
    BY <1>1, FS_Interval
<1>4. s \in Surjection(1 .. n, A)
  BY <1>1, <1>2, <1>3, FS_Injection
<1>5. QED
  BY <1>2, <1>4 DEF Surjection

(* The requests with at least as much left as the k-th are the first so    *)
(* many of the list, up to the last with as much; there the list's figure  *)
(* is the entry's need, and before it, among equals, it is smaller.        *)
LEMMA NeedIsInList ==
  ASSUME NEW o \in [Req -> Nat], NEW A \in SUBSET Req,
         NEW cache, IsCacheOf(cache, o, A),
         \A x \in A : LeftOut(o, x) \in Nat,
         NEW s \in Lists(A), ByLeft(s, o, Cardinality(A)),
         NEW k \in 1 .. Cardinality(A)
  PROVE  \E m \in 1 .. Cardinality(A) :
           /\ NeedAt(cache, s[k]) = NeedUpTo(o, s, Cardinality(A), m)
           /\ NeedUpTo(o, s, Cardinality(A), k) <= NeedUpTo(o, s, Cardinality(A), m)
           /\ NeedUpTo(o, s, Cardinality(A), m) \in Nat
           /\ NeedUpTo(o, s, Cardinality(A), k) \in Nat
<1> DEFINE n == Cardinality(A)
           c == LeftOut(o, s[k])
           ahead == {i \in 1 .. n : LeftOut(o, s[i]) >= c}
           f == [r \in Req |-> HasRun(o, r)]
           run == [i \in 1 .. n |-> HasRun(o, s[i])]
<1>1. /\ n \in Nat /\ IsFiniteSet(A)
      /\ s \in [1 .. n -> A] /\ s \in Injection(1 .. n, A)
      /\ \A i \in 1 .. n : s[i] \in A /\ LeftOut(o, s[i]) \in Nat
      /\ \A x \in A : \E i \in 1 .. n : s[i] = x
  BY PartsFinite, ListsAll DEF Lists
<1>2. \A i, j \in 1 .. n : i <= j => LeftOut(o, s[i]) >= LeftOut(o, s[j])
  <2> HIDE DEF n
  <2>1. ByLeft(s, o, n)
    BY DEF n
  <2>2. QED
    BY <1>1, <2>1, SortedThroughout
<1>3. f \in [Req -> Nat] /\ run \in [1 .. n -> Nat]
  BY <1>1, RunNat
<1>4. c \in Nat /\ k \in ahead
  BY <1>1
<1> HIDE DEF n
<1>5. k \in 1 .. n /\ IsFiniteSet(1 .. n)
  BY <1>1, FirstNumbers DEF n
<1>6. ahead \in SUBSET Nat /\ IsFiniteSet(ahead)
  <2>1. ahead \in SUBSET (1 .. n)
    OBVIOUS
  <2> HIDE DEF ahead
  <2>2. QED
    <3>1. IsFiniteSet(ahead)
      BY <1>5, <2>1, FS_Subset
    <3>2. QED
      BY <2>1, <3>1
<1>7. PICK m \in ahead : \A i \in ahead : i <= m
  <2> HIDE DEF ahead
  <2>1. QED
    BY <1>4, <1>6, GreatestNumber
<1>8. m \in 1 .. n /\ m \in Nat /\ k <= m
  BY <1>4, <1>7
<1>9. ahead = 1 .. m
  <2>1. ASSUME NEW i \in 1 .. m PROVE i \in ahead
    <3>1. i \in 1 .. n /\ i <= m
      BY <1>1, <1>8
    <3>2. LeftOut(o, s[i]) >= LeftOut(o, s[m]) /\ LeftOut(o, s[m]) >= c
      BY <1>2, <1>7, <1>8, <3>1
    <3>3. QED
      BY <1>1, <1>4, <1>8, <3>1, <3>2
  <2>2. QED
    BY <1>7, <2>1
<1>10. LeftOut(o, s[m]) = c
  BY <1>1, <1>2, <1>4, <1>5, <1>7, <1>8
<1>11. Alive(o, A, c) = {s[i] : i \in 1 .. m}
  <2>1. ASSUME NEW x \in A PROVE LeftOut(o, x) >= c <=> \E i \in 1 .. m : x = s[i]
    <3>1. PICK j \in 1 .. n : s[j] = x
      BY <1>1
    <3>2. LeftOut(o, x) >= c => j \in 1 .. m
      BY <1>9, <3>1
    <3>3. ASSUME NEW i \in 1 .. m, x = s[i] PROVE LeftOut(o, x) >= c
      BY <1>9, <3>3
    <3>4. QED
      BY <3>1, <3>2, <3>3
  <2>2. \A i \in 1 .. m : s[i] \in A
    BY <1>1, <1>8
  <2>3. QED
    BY <2>1, <2>2 DEF Alive
<1>12. IsFiniteSet(1 .. m) /\ Cardinality(1 .. m) = m
  BY <1>8, FirstNumbers
<1>13. Cardinality(Alive(o, A, c)) = m
  <2> DEFINE b == [i \in 1 .. m |-> s[i]]
             V == {s[i] : i \in 1 .. m}
  <2>1. b \in Surjection(1 .. m, V)
    BY DEF Surjection
  <2>2. b \in Injection(1 .. m, V)
    <3>1. \A i, j \in 1 .. m : s[i] = s[j] => i = j
      BY <1>1, <1>8 DEF Injection, IsInjective
    <3>2. QED
      BY <3>1 DEF Injection, IsInjective
  <2> HIDE DEF b, V
  <2>3. Cardinality(V) = m
    BY <1>12, <2>1, <2>2, FS_Surjection
  <2>4. QED
    BY <1>11, <2>3 DEF V
<1>14. SumOver(run, 1 .. m) = SumOver(f, Alive(o, A, c))
  <2> DEFINE g == [x \in A |-> f[x]]
  <2>1. g \in [A -> Nat]
    BY <1>3
  <2>2. 1 .. m \in SUBSET (1 .. n)
    BY <1>1, <1>8
  <2>3. \A i \in 1 .. n : run[i] = g[s[i]]
    BY <1>1
  <2> HIDE DEF run, g, c, f, ahead
  <2>4. SumOver(run, 1 .. m) = SumOver(g, Alive(o, A, c))
    <3> DEFINE I == 1 .. n
               T == 1 .. m
               U == Alive(o, A, c)
    <3>1. /\ IsFiniteSet(A) /\ IsFiniteSet(I) /\ s \in Injection(I, A)
          /\ run \in [I -> Nat] /\ \A i \in I : run[i] = g[s[i]]
          /\ T \in SUBSET I /\ U = {s[i] : i \in T}
      BY <1>1, <1>3, <1>5, <1>11, <2>2, <2>3
    <3> HIDE DEF I, T, U
    <3>2. SumOver(run, T) = SumOver(g, U)
      BY <2>1, <3>1, SumImage
    <3>3. QED
      BY <3>2 DEF T, U
  <2>5. SumOver(g, Alive(o, A, c)) = SumOver(f, Alive(o, A, c))
    <3>1. Alive(o, A, c) \in SUBSET A /\ Alive(o, A, c) \in SUBSET Req
      BY DEF Alive
    <3>2. IsFiniteSet(Alive(o, A, c))
      BY <3>1, PartsFinite
    <3> DEFINE V == Alive(o, A, c)
               h == [x \in V |-> f[x]]
    <3>3. h \in [V -> Nat] /\ (\A x \in V : f[x] = h[x]) /\ \A x \in V : g[x] = h[x]
      BY <1>3, <3>1 DEF g
    <3> HIDE DEF V, h
    <3>4. SumOver(f, V) = SumOver(h, V) /\ SumOver(g, V) = SumOver(h, V)
      BY <3>2, <3>3, FoldIsSum DEF V
    <3>5. QED
      BY <3>4 DEF V
  <2>6. QED
    BY <2>4, <2>5
<1>15. NeedAt(cache, s[k]) = Peak(o, A, c)
  <2>1. s[k] \in A /\ LeftOut(o, s[k]) \in Nat
    BY <1>1, <1>5
  <2>2. QED
    BY <2>1, NeedIsPeak
<1>16. Peak(o, A, c) = c * m + SumOver(f, Alive(o, A, c))
  <2> DEFINE p == [r \in Req |-> HasRun(o, r) + c]
  <2>1. p \in [Req -> Nat] /\ Alive(o, A, c) \in SUBSET Req
    BY <1>4, RunNat DEF Alive
  <2>2. \A x \in Alive(o, A, c) : p[x] = f[x] + c
    BY <2>1
  <2> HIDE DEF p, f, c
  <2>3. IsFiniteSet(Req)
    BY RequestAssumption
  <2>4. SumOver(p, Alive(o, A, c)) = c * m + SumOver(f, Alive(o, A, c))
    BY <1>3, <1>4, <1>13, <2>1, <2>2, <2>3, SumMore
  <2>5. QED
    BY <2>4 DEF Peak, p
<1> DEFINE need(j) == NeedUpTo(o, s, n, j)
<1>17. need(m) = c * m + SumOver(run, 1 .. m) /\ need(k) = c * k + SumOver(run, 1 .. k)
  BY <1>10 DEF NeedUpTo, RunUpTo
<1>18. NeedAt(cache, s[k]) = need(m)
  <2> HIDE DEF need, run, f, c
  <2>1. QED
    BY <1>14, <1>15, <1>16, <1>17
<1>19. /\ SumOver(run, 1 .. k) \in Nat /\ SumOver(run, 1 .. m) \in Nat
       /\ SumOver(run, 1 .. k) <= SumOver(run, 1 .. m)
  <2>1. /\ 1 .. k \in SUBSET (1 .. n) /\ 1 .. m \in SUBSET (1 .. n)
        /\ 1 .. k \subseteq 1 .. m
    BY <1>1, <1>5, <1>8
  <2>2. \A i \in 1 .. k : run[i] \in Nat /\ run[i] <= run[i]
    BY <1>3, <2>1
  <2> HIDE DEF run
  <2>3. QED
    BY <1>3, <1>5, <2>1, <2>2, SumNat, SumGrows
<1>20. c * k <= c * m /\ c * k \in Nat /\ c * m \in Nat
  <2> HIDE DEF c
  <2>1. k \in Nat
    BY <1>1, <1>5
  <2>2. QED
    BY <1>4, <1>8, <2>1, ProductGrows, ProductNat
<1> HIDE DEF need, run, c
<1>21. /\ need(k) <= need(m) /\ need(m) \in Nat /\ need(k) \in Nat
  BY <1>17, <1>19, <1>20
<1>22. QED
  BY <1>8, <1>18, <1>21 DEF need, n

(* The largest figure of the list is the estimate.                         *)
LEMMA ListNeedIsEstimate ==
  ASSUME NEW o \in [Req -> Nat], NEW A \in SUBSET Req, A # {},
         NEW cache, IsCacheOf(cache, o, A),
         \A x \in A : LeftOut(o, x) \in Nat,
         NEW s \in Lists(A), ByLeft(s, o, Cardinality(A))
  PROVE  NeedMaxTokenNum(cache)
           = Max({NeedUpTo(o, s, Cardinality(A), k) : k \in 1 .. Cardinality(A)})
<1> DEFINE n == Cardinality(A)
           need(k) == NeedUpTo(o, s, n, k)
           N == {need(k) : k \in 1 .. n}
<1>1. /\ s \in [1 .. n -> A] /\ \A x \in A : \E i \in 1 .. n : s[i] = x
      /\ n \in Nat
  BY ListsAll, PartsFinite DEF Lists
<1>2. ASSUME NEW k \in 1 .. n
      PROVE  \E m \in 1 .. n : /\ NeedAt(cache, s[k]) = need(m)
                               /\ need(k) <= need(m)
                               /\ need(m) \in Nat /\ need(k) \in Nat
  BY NeedIsInList
<1>3. ASSUME NEW e \in A
      PROVE  NeedAt(cache, e) = Peak(o, A, LeftOut(o, e))
  <2>1. LeftOut(o, e) \in Nat
    OBVIOUS
  <2>2. QED
    BY <2>1, NeedIsPeak
<1>4. /\ NeedMaxTokenNum(cache) \in Nat
      /\ \A e \in A : NeedAt(cache, e) <= NeedMaxTokenNum(cache)
      /\ \E e \in A : NeedMaxTokenNum(cache) = NeedAt(cache, e)
  BY <1>3, EstimateIsHighest
<1> HIDE DEF need, n
<1>5. N \in SUBSET Nat
  BY <1>2
<1>6. NeedMaxTokenNum(cache) \in N
  <2>1. PICK e \in A : NeedMaxTokenNum(cache) = NeedAt(cache, e)
    BY <1>4
  <2>2. PICK k \in 1 .. n : s[k] = e
    BY <1>1
  <2>3. PICK m \in 1 .. n : NeedAt(cache, s[k]) = need(m)
    BY <1>2
  <2>4. QED
    BY <2>1, <2>2, <2>3
<1>7. \A y \in N : y <= NeedMaxTokenNum(cache)
  <2>1. ASSUME NEW k \in 1 .. n PROVE need(k) <= NeedMaxTokenNum(cache)
    <3>1. PICK m \in 1 .. n : /\ NeedAt(cache, s[k]) = need(m)
                              /\ need(k) <= need(m)
                              /\ need(m) \in Nat /\ need(k) \in Nat
      BY <1>2
    <3>2. s[k] \in A
      BY <1>1
    <3>3. NeedAt(cache, s[k]) <= NeedMaxTokenNum(cache)
      BY <1>4, <3>2
    <3>4. QED
      BY <1>4, <3>1, <3>3
  <2>2. QED
    BY <2>1
<1> HIDE DEF N
<1>8. NeedMaxTokenNum(cache) = Max(N)
  BY <1>5, <1>6, <1>7, LargestIs
<1>9. QED
  BY <1>8 DEF N, need, n

(* The code's sum over the first k entries.                                *)
CumFold(cache, s, V) ==
  CHOOSE g : g = [t \in SUBSET V |->
                    IF t = {} THEN 0 ELSE cache[s[Some(t)]].has_run + g[t \ {Some(t)}]]

LEMMA CumIsRunUpTo ==
  ASSUME NEW o \in [Req -> Nat], NEW A \in SUBSET Req,
         NEW cache, IsCacheOf(cache, o, A),
         NEW n \in Nat, NEW s \in [1 .. n -> A], NEW k \in 1 .. n
  PROVE  CumFold(cache, s, 1 .. k)[1 .. k] = RunUpTo(o, s, n, k)
<1> DEFINE V == 1 .. k
           I == 1 .. n
           f == [i \in I |-> HasRun(o, s[i])]
           e == [i \in V |-> f[i]]
           h == CumFold(cache, s, V)
<1>1. V \in SUBSET I /\ IsFiniteSet(V) /\ IsFiniteSet(I)
  <2>1. k \in Nat /\ V \in SUBSET I
    OBVIOUS
  <2>2. QED
    BY <2>1, FirstNumbers
<1>2. f \in [I -> Nat] /\ \A i \in I : f[i] = cache[s[i]].has_run
  BY RunNat DEF IsCacheOf
<1> HIDE DEF V, I, h
<1>3. e \in [V -> Nat] /\ \A i \in V : e[i] = f[i]
  BY <1>1, <1>2
<1>4. \A t \in SUBSET V : t # {} => e[Some(t)] = cache[s[Some(t)]].has_run
  BY <1>1, <1>2 DEF Some
<1> HIDE DEF e, f
<1>5. PICK c : IsFold(c, e, V)
  BY <1>1, <1>3, FoldExists
<1>6. c = [t \in SUBSET V |->
             IF t = {} THEN 0 ELSE cache[s[Some(t)]].has_run + c[t \ {Some(t)}]]
  BY <1>4, <1>5 DEF IsFold, Step
<1>7. h = [t \in SUBSET V |->
             IF t = {} THEN 0 ELSE cache[s[Some(t)]].has_run + h[t \ {Some(t)}]]
  BY <1>6 DEF h, CumFold
<1>8. IsFold(h, e, V)
  BY <1>4, <1>7 DEF IsFold, Step
<1>9. h[V] = SumOver(f, V)
  <2>1. /\ IsFiniteSet(I) /\ f \in [I -> Nat] /\ V \in SUBSET I
        /\ \A i \in V : e[i] = f[i]
        /\ IsFold(h, e, V)
    BY <1>1, <1>2, <1>3, <1>8
  <2>2. QED
    BY <2>1, FoldComputes, SMTT(60)
<1>10. RunUpTo(o, s, n, k) = SumOver(f, V)
  BY DEF RunUpTo, f, V, I
<1>11. QED
  BY <1>9, <1>10 DEF h, V

-----------------------------------------------------------------------------
(* What fits goes on fitting.  First tokens: the requests had entries of   *)
(* their own in the estimate, as if they had them already.                 *)
LEMMA FirstTokensFit ==
  ASSUME NEW o \in [Req -> Nat], NEW B \in SUBSET Req, PeaksFit(o, B),
         NEW p \in [Req -> Nat], NEW A \in SUBSET B,
         \A r \in A : p[r] = o[r] \/ (o[r] = 0 /\ p[r] = 1)
  PROVE  PeaksFit(p, A)
<1>1. ASSUME NEW r \in A
      PROVE  HasRun(p, r) <= HasRun(o, r) + 0 /\ LeftOut(p, r) + 0 <= LeftOut(o, r)
  <2>1. r \in Req
    OBVIOUS
  <2>2. input_len[r] \in Nat /\ max_output_len[r] \in Nat /\ o[r] \in Nat
    BY <2>1, RunNat
  <2>3. CASE p[r] = o[r]
    BY <2>2, <2>3 DEF HasRun, LeftOut
  <2>4. CASE o[r] = 0 /\ p[r] = 1
    BY <2>2, <2>4 DEF HasRun, LeftOut
  <2>5. QED
    BY <2>3, <2>4
<1>2. QED
  BY <1>1, PeakMoves

(* Next tokens: everyone is a moment later in the same peaks.              *)
LEMMA NextTokensFit ==
  ASSUME NEW o \in [Req -> Nat], NEW B \in SUBSET Req, PeaksFit(o, B),
         NEW p \in [Req -> Nat], NEW A \in SUBSET B,
         \A r \in A : o[r] # 0 /\ p[r] = o[r] + 1
  PROVE  PeaksFit(p, A)
<1>1. ASSUME NEW r \in A
      PROVE  HasRun(p, r) <= HasRun(o, r) + 1 /\ LeftOut(p, r) + 1 <= LeftOut(o, r)
  <2>1. r \in Req
    OBVIOUS
  <2>2. input_len[r] \in Nat /\ max_output_len[r] \in Nat /\ o[r] \in Nat
    BY <2>1, RunNat
  <2>3. p[r] = o[r] + 1 /\ o[r] # 0
    OBVIOUS
  <2>4. QED
    BY <2>2, <2>3 DEF HasRun, LeftOut
<1>2. QED
  BY <1>1, PeakMoves

(* A server that accepts a request has room for an empty batch.            *)
LEMMA NobodyFits ==
  ASSUME Req # {}, NEW o \in [Req -> Nat]
  PROVE  PeaksFit(o, {})
<1>1. max_total_tokens > 0
  <2>1. PICK r \in Req : TRUE
    OBVIOUS
  <2>2. input_len[r] + max_output_len[r] + 1 <= max_total_tokens
    BY RequestAssumption DEF HttpAccepts
  <2>3. input_len[r] \in Nat /\ max_output_len[r] \in Nat
    BY RequestAssumption
  <2>4. QED
    BY <2>2, <2>3, LimitAssumption
<1>2. AdapterSize({}) = 0
  <2>1. AdaptersOf({}) = {}
    BY DEF AdaptersOf
  <2>2. AdapterSize({}) = SumOver(adapterCells, {})
    BY <2>1, AdapterSizeIsSum
  <2>3. QED
    BY <2>2, DirsFinite, SumEmpty
<1>3. ASSUME NEW t \in Nat PROVE Peak(o, {}, t) = 0
  <2>1. Alive(o, {}, t) = {}
    BY DEF Alive
  <2>2. [r \in Req |-> HasRun(o, r) + t] \in [Req -> Nat]
    BY RunNat
  <2>3. QED
    BY <2>1, <2>2, RequestAssumption, SumEmpty DEF Peak
<1>4. QED
  BY <1>1, <1>2, <1>3, LimitAssumption DEF PeaksFit

-----------------------------------------------------------------------------
(* A list in which requests may be twice.  D are its entries.              *)
IsEntries(cache, D) ==
  /\ DOMAIN cache = D
  /\ \A d \in D : cache[d].has_run \in Nat /\ cache[d].left \in Nat

LEMMA NeedIsSum ==
  ASSUME NEW D, IsFiniteSet(D), NEW cache, IsEntries(cache, D), NEW e \in D
  PROVE  NeedAt(cache, e)
           = SumOver([d \in D |-> cache[d].has_run + cache[e].left],
                     {d \in D : cache[d].left >= cache[e].left})
<1> DEFINE c == cache[e].left
           V == {d \in D : cache[d].left >= c}
           f == [d \in D |-> cache[d].has_run]
           g == [d \in D |-> cache[d].has_run + c]
           v == [d \in V |-> f[d]]
           h == CHOOSE k : k = [s \in SUBSET V |->
                  IF s = {} THEN 0 ELSE cache[Some(s)].has_run + k[s \ {Some(s)}]]
<1>1. c \in Nat /\ f \in [D -> Nat] /\ g \in [D -> Nat]
  BY DEF IsEntries
<1>2. V \in SUBSET D /\ IsFiniteSet(V)
  <2>1. V \in SUBSET D
    OBVIOUS
  <2>2. QED
    BY <2>1, FS_Subset
<1>3. V = {d \in DOMAIN cache : cache[d].left >= c}
  BY DEF IsEntries
<1> HIDE DEF V
<1>4. NeedAt(cache, e) = c * Cardinality(V) + h[V]
  BY <1>3 DEF NeedAt, MapThenSumSet, MapThenFoldSet, Some
<1>5. v \in [V -> Nat]
  BY <1>1, <1>2
<1>6. \A s \in SUBSET V : s # {} => v[Some(s)] = cache[Some(s)].has_run
  BY <1>2 DEF Some
<1>7. h[V] = SumOver(f, V)
  <2>1. PICK k : IsFold(k, v, V)
    BY <1>2, <1>5, FoldExists
  <2>2. k = [s \in SUBSET V |->
              IF s = {} THEN 0 ELSE cache[Some(s)].has_run + k[s \ {Some(s)}]]
    BY <1>6, <2>1 DEF IsFold, Step
  <2>3. h = [s \in SUBSET V |->
              IF s = {} THEN 0 ELSE cache[Some(s)].has_run + h[s \ {Some(s)}]]
    BY <2>2
  <2> HIDE DEF h
  <2>4. IsFold(h, v, V)
    BY <1>6, <2>3 DEF IsFold, Step
  <2>5. \A d \in V : v[d] = f[d]
    OBVIOUS
  <2> HIDE DEF v, f
  <2>6. QED
    BY <1>1, <1>2, <2>4, <2>5, FoldComputes
<1>8. SumOver(g, V) = c * Cardinality(V) + SumOver(f, V)
  <2>1. \A d \in V : g[d] = f[d] + c
    BY <1>2
  <2> HIDE DEF g, f, c
  <2>2. QED
    BY <1>1, <1>2, <2>1, SumMore
<1> HIDE DEF h, f, c
<1>9. NeedAt(cache, e) = SumOver(g, V)
  BY <1>4, <1>7, <1>8
<1>10. QED
  BY <1>9 DEF V, g, c

(* The list needs as much as a batch whose requests have entries of their  *)
(* own in it, whatever else is in it.  own finds a request's entry.        *)
LEMMA EntriesCover ==
  ASSUME NEW o \in [Req -> Nat], NEW A \in SUBSET Req, A # {},
         \A x \in A : LeftOut(o, x) \in Nat,
         NEW D, IsFiniteSet(D), NEW cache, IsEntries(cache, D),
         NEW own \in Injection(A, D),
         \A x \in A : /\ cache[own[x]].has_run = HasRun(o, x)
                      /\ cache[own[x]].left = LeftOut(o, x)
  PROVE  /\ NeedMaxTokenNum(cache) \in Nat
         /\ \A t \in Nat : Peak(o, A, t) <= NeedMaxTokenNum(cache)
         /\ Cardinality(A) <= Cardinality(D)
<1> DEFINE single == [x \in A |-> [has_run |-> HasRun(o, x), left |-> LeftOut(o, x)]]
           N == {NeedAt(cache, d) : d \in DOMAIN cache}
           need == [d \in D |-> NeedAt(cache, d)]
<1>1. /\ own \in [A -> D]
      /\ \A x, y \in A : own[x] = own[y] => x = y
  BY DEF Injection, IsInjective
<1>2. Cardinality(A) <= Cardinality(D)
  BY <1>1, PartsFinite, FS_Injection
<1>3. ASSUME NEW d \in D
      PROVE  NeedAt(cache, d) \in Nat
  <2> DEFINE g == [x \in D |-> cache[x].has_run + cache[d].left]
             V == {x \in D : cache[x].left >= cache[d].left}
  <2>1. g \in [D -> Nat] /\ V \in SUBSET D
    BY DEF IsEntries
  <2>2. NeedAt(cache, d) = SumOver(g, V)
    BY NeedIsSum
  <2> HIDE DEF g, V
  <2>3. SumOver(g, V) \in Nat
    BY <2>1, SumNat
  <2>4. QED
    BY <2>2, <2>3
<1>4. N \in SUBSET Nat /\ N # {} /\ IsFiniteSet(N)
  <2>1. DOMAIN cache = D
    BY DEF IsEntries
  <2>2. N \in SUBSET Nat /\ N # {}
    BY <1>1, <1>3, <2>1
  <2>3. need \in Surjection(D, N)
    BY <2>1 DEF Surjection
  <2>4. QED
    BY <2>2, <2>3, FS_Surjection
<1>5. /\ NeedMaxTokenNum(cache) \in Nat
      /\ \A d \in D : NeedAt(cache, d) <= NeedMaxTokenNum(cache)
  <2>1. NeedMaxTokenNum(cache) = Max(N) /\ \A d \in D : NeedAt(cache, d) \in N
    BY DEF NeedMaxTokenNum, IsEntries
  <2> HIDE DEF N
  <2>2. Max(N) \in N /\ \A y \in N : y <= Max(N)
    BY <1>4, GreatestNumber
  <2>3. QED
    BY <1>4, <2>1, <2>2
<1>6. IsCacheOf(single, o, A)
  BY DEF IsCacheOf
<1> HIDE DEF single, N, need
<1>7. PICK e \in A : /\ NeedMaxTokenNum(single) = Peak(o, A, LeftOut(o, e))
                     /\ \A t \in Nat : Peak(o, A, t) <= NeedMaxTokenNum(single)
  BY <1>6, EstimateIsHighest
<1> DEFINE c == LeftOut(o, e)
           V == Alive(o, A, c)
           W == {d \in D : cache[d].left >= c}
           U == {own[x] : x \in V}
           f == [r \in Req |-> HasRun(o, r) + c]
           g == [x \in A |-> f[x]]
           h == [d \in D |-> cache[d].has_run + c]
<1>8. c \in Nat
  OBVIOUS
<1>9. NeedAt(cache, own[e]) = SumOver(h, W)
  <2>1. own[e] \in D /\ cache[own[e]].left = c
    BY <1>1
  <2>2. NeedAt(cache, own[e])
          = SumOver([d \in D |-> cache[d].has_run + cache[own[e]].left],
                    {d \in D : cache[d].left >= cache[own[e]].left})
    BY <2>1, NeedIsSum
  <2> HIDE DEF c
  <2>3. QED
    BY <2>1, <2>2
<1> HIDE DEF c
<1>10. /\ f \in [Req -> Nat] /\ g \in [A -> Nat] /\ h \in [D -> Nat]
       /\ V \in SUBSET A /\ V \in SUBSET Req
       /\ \A x \in V : f[x] = g[x]
       /\ \A x \in A : g[x] = h[own[x]]
  BY <1>1, <1>8, RunNat DEF Alive, IsEntries
<1>11. U \in SUBSET D /\ W \in SUBSET D /\ U \subseteq W
  BY <1>1 DEF Alive
<1>12. Peak(o, A, c) = SumOver(f, V)
  BY DEF Peak
<1>13. IsFiniteSet(V) /\ IsFiniteSet(A)
  BY <1>10, PartsFinite
<1>14. SumOver(f, V) = SumOver(g, V)
  <2> DEFINE k == [x \in V |-> f[x]]
  <2>1. k \in [V -> Nat] /\ (\A x \in V : f[x] = k[x]) /\ (\A x \in V : g[x] = k[x])
    BY <1>10
  <2> HIDE DEF k, f, g, V
  <2>2. SumOver(f, V) = SumOver(k, V) /\ SumOver(g, V) = SumOver(k, V)
    BY <1>13, <2>1, FoldIsSum
  <2>3. QED
    BY <2>2
<1>15. U = {own[x] : x \in V}
  OBVIOUS
<1> HIDE DEF V, W, U, f, g, h
<1>16. SumOver(g, V) = SumOver(h, U)
  BY <1>10, <1>13, <1>15, SumImage
<1>17. \A d \in U : h[d] <= h[d]
  BY <1>10, <1>11
<1>18. SumOver(h, U) <= SumOver(h, W)
  BY <1>10, <1>11, <1>17, SumGrows
<1>19. NeedAt(cache, own[e]) <= NeedMaxTokenNum(cache)
  BY <1>1, <1>5
<1>20. SumOver(h, U) \in Nat /\ SumOver(h, W) \in Nat
  BY <1>10, <1>11, SumNat
<1>21. Peak(o, A, c) <= NeedMaxTokenNum(cache)
  BY <1>5, <1>9, <1>12, <1>14, <1>16, <1>18, <1>19, <1>20
<1>22. ASSUME NEW t \in Nat PROVE Peak(o, A, t) <= NeedMaxTokenNum(cache)
  <2>1. Peak(o, A, t) <= Peak(o, A, c) /\ Peak(o, A, t) \in Nat /\ Peak(o, A, c) \in Nat
    BY <1>7, <1>8, PeakNat DEF c
  <2>2. QED
    BY <1>5, <1>21, <2>1
<1>23. QED
  BY <1>2, <1>5, <1>22
=============================================================================
