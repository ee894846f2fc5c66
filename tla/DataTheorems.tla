----------------------------- MODULE DataTheorems -----------------------------
(***************************************************************************)
(* Facts about sets of integers that the searches through key frames and   *)
(* ranges rest on, about the folds that sums over finite sets are, and     *)
(* about the paths of a graph.                                             *)
(* They are stated about values, a fold by the function that goes from one *)
(* subset to the next, as no installed prover takes an operator for one.   *)
(* A module without a graph takes this one with no vertices and no calls.  *)
(***************************************************************************)
EXTENDS Integers, Sequences, FiniteSets, FiniteSetTheorems, SequenceTheorems,
        WellFoundedInduction, NaturalsInduction, TLAPS

CONSTANTS
  Vertex,       \* the nodes of the graphs that the facts about paths are about
  CallFrame      \* the calls on the stack of a walk through a graph

(* Every non-empty set of integers in an interval has a greatest element.  *)
LEMMA GreatestExists ==
  ASSUME NEW lo \in Int, NEW hi \in Int, NEW S \in SUBSET (lo .. hi), S # {}
  PROVE  \E i \in S : \A j \in S : j <= i
<1> DEFINE Distances == {hi - i : i \in S}
<1>1. Distances \subseteq Nat
  OBVIOUS
<1>2. Distances # {}
  <2>1. PICK i \in S : TRUE
    OBVIOUS
  <2>2. hi - i \in Distances
    BY <2>1
  <2> QED
    BY <2>2
<1>3. PICK d \in Distances : \A k \in Distances : <<k, d>> \notin OpToRel(<, Nat)
  BY <1>1, <1>2, WFMin, NatLessThanWellFounded, Zenon
<1>4. \A k \in Distances : ~ (k < d)
  BY <1>1, <1>3, Zenon DEF OpToRel
<1>5. PICK i \in S : d = hi - i
  OBVIOUS
<1>6. ASSUME NEW j \in S
      PROVE  j <= i
  <2>1. i \in Int /\ j \in Int
    OBVIOUS
  <2>2. hi - j \in Distances
    OBVIOUS
  <2>3. ~ (hi - j < d)
    BY <1>4, <2>2
  <2> HIDE DEF Distances
  <2> QED
    BY <1>5, <2>1, <2>2, <2>3
<1> QED
  BY <1>6

(***************************************************************************)
(* Induction                                                               *)
(***************************************************************************)
(* Every non-empty set of natural numbers has a smallest element.          *)
LEMMA LeastExists ==
  ASSUME NEW S \in SUBSET Nat, S # {}
  PROVE  \E n \in S : \A k \in S : n <= k
<1>0. S \subseteq Nat
  OBVIOUS
<1>1. PICK m \in S : \A k \in S : <<k, m>> \notin OpToRel(<, Nat)
  BY <1>0, WFMin, NatLessThanWellFounded, Zenon
<1>2. \A k \in S : ~ (k < m)
  BY <1>0, <1>1, Zenon DEF OpToRel
<1>3. ASSUME NEW k \in S
      PROVE  m <= k
  <2>1. m \in Nat /\ k \in Nat /\ ~ (k < m)
    BY <1>2
  <2> QED
    BY <2>1
<1> QED
  BY <1>1, <1>3

(* What holds of 0, and of the number after each it holds of, holds up to  *)
(* n.                                                                      *)
LEMMA CountingUp ==
  ASSUME NEW n \in Nat, NEW G, 0 \in G, \A k \in 0 .. n - 1 : k \in G => k + 1 \in G
  PROVE  \A k \in 0 .. n : k \in G
<1> DEFINE Bad == {k \in 0 .. n : k \notin G}
<1> SUFFICES ASSUME Bad # {}
             PROVE  FALSE
  OBVIOUS
<1>1. PICK k \in Bad : \A j \in Bad : k <= j
  <2>1. Bad \in SUBSET Nat
    OBVIOUS
  <2> HIDE DEF Bad
  <2> QED
    BY <2>1, LeastExists
<1>2. k \in 1 .. n /\ k - 1 \in 0 .. n - 1 /\ k - 1 + 1 = k
  OBVIOUS
<1>3. k - 1 \in G
  BY <1>1, <1>2
<1> QED
  BY <1>1, <1>2, <1>3

(* Every non-empty set of subsets of a finite set has a minimal element.   *)
LEMMA MinimalSubset ==
  ASSUME NEW S, IsFiniteSet(S), NEW B \in SUBSET SUBSET S, B # {}
  PROVE  \E s \in B : \A t \in B : t \subseteq s => t = s
<1>1. B \subseteq FiniteSubsetsOf(S)
  BY FS_FiniteSubsetsOfFinite
<1>2. PICK s \in B : \A t \in B : <<t, s>> \notin StrictSubsetOrdering(S)
  BY <1>1, WFMin, FS_StrictSubsetOrderingWellFounded, Zenon
<1> QED
  BY <1>2 DEF StrictSubsetOrdering

(***************************************************************************)
(* Folds over the subsets of a finite set                                  *)
(***************************************************************************)
(* What MapThenFoldSet asks of the function it takes the result from.      *)
IsFold(it, S, base, pick, step) ==
  it = [s \in SUBSET S |-> IF s = {} THEN base ELSE step[<<pick[s], it[s \ {pick[s]}]>>]]

(* A function of which it can be taken exists.                             *)
LEMMA FoldExists ==
  ASSUME NEW S, IsFiniteSet(S), NEW V, NEW base \in V,
         NEW pick, \A s \in SUBSET S : s # {} => pick[s] \in s,
         NEW step \in [S \X V -> V]
  PROVE  \E it \in [SUBSET S -> V] : IsFold(it, S, base, pick, step)
<1> DEFINE Next(g)  == [s \in SUBSET S |-> IF s = {} THEN base ELSE step[<<pick[s], g[s \ {pick[s]}]>>]]
           Upto(n)  == {s \in SUBSET S : Cardinality(s) <= n}
           Holds(g, n) == g \in [SUBSET S -> V] /\ \A s \in Upto(n) : g[s] = Next(g)[s]
           Bad      == {n \in Nat : ~ \E g : Holds(g, n)}
<1>1. \A s \in SUBSET S : IsFiniteSet(s) /\ Cardinality(s) \in Nat /\ Cardinality(s) <= Cardinality(S)
  BY FS_Subset, FS_CardinalityType
<1>2. ASSUME NEW g \in [SUBSET S -> V]
      PROVE  Next(g) \in [SUBSET S -> V]
  <2>1. ASSUME NEW s \in SUBSET S, s # {}
        PROVE  step[<<pick[s], g[s \ {pick[s]}]>>] \in V
    <3>1. pick[s] \in S /\ s \ {pick[s]} \in SUBSET S
      BY <2>1
    <3> QED
      BY <3>1
  <2> QED
    BY <2>1
<1>3. ASSUME NEW n \in Nat, NEW g, Holds(g, n)
      PROVE  Holds(Next(g), n + 1)
  <2>1. Next(g) \in [SUBSET S -> V]
    BY <1>2, <1>3
  <2>2. ASSUME NEW s \in Upto(n + 1)
        PROVE  Next(g)[s] = Next(Next(g))[s]
    <3>1. CASE s = {}
      BY <3>1
    <3>2. CASE s # {}
      <4> DEFINE t == s \ {pick[s]}
      <4>1. pick[s] \in s /\ t \in SUBSET S
        BY <3>2
      <4>2. Cardinality(t) = Cardinality(s) - 1
        BY <1>1, <4>1, FS_RemoveElement
      <4>3. t \in Upto(n)
        BY <1>1, <4>1, <4>2
      <4>4. g[t] = Next(g)[t]
        BY <1>3, <4>3
      <4> QED
        BY <3>2, <4>1, <4>4
    <3> QED
      BY <3>1, <3>2
  <2> QED
    BY <2>1, <2>2
<1>4. Holds([s \in SUBSET S |-> base], 0)
  <2> DEFINE g == [s \in SUBSET S |-> base]
  <2>1. g \in [SUBSET S -> V]
    OBVIOUS
  <2>2. ASSUME NEW s \in Upto(0)
        PROVE  g[s] = Next(g)[s]
    <3>1. s = {}
      BY <1>1, FS_EmptySet
    <3> QED
      BY <3>1
  <2> QED
    BY <2>1, <2>2
<1>5. Bad = {}
  <2> SUFFICES ASSUME Bad # {}
               PROVE  FALSE
    OBVIOUS
  <2> HIDE DEF Holds, Next
  <2>1. Bad \in SUBSET Nat
    OBVIOUS
  <2>2. PICK n \in Bad : \A k \in Bad : n <= k
    BY <2>1, LeastExists
  <2>3. n \in Nat /\ n # 0
    BY <1>4
  <2>4. n - 1 \in Nat /\ n - 1 \notin Bad
    <3> HIDE DEF Bad
    <3> QED
      BY <2>1, <2>2, <2>3
  <2>5. PICK g : Holds(g, n - 1)
    BY <2>4
  <2>6. Holds(Next(g), n)
    <3>1. Holds(Next(g), n - 1 + 1) /\ n - 1 + 1 = n
      BY <1>3, <2>3, <2>4, <2>5
    <3> QED
      BY <3>1
  <2> QED
    BY <2>6
<1>6. PICK g : Holds(g, Cardinality(S))
  BY <1>1, <1>5
<1>7. g = Next(g)
  <2>1. \A s \in SUBSET S : s \in Upto(Cardinality(S))
    BY <1>1
  <2>2. \A s \in SUBSET S : g[s] = Next(g)[s]
    BY <1>6, <2>1
  <2> QED
    BY <1>2, <1>6, <2>2
<1> QED
  BY <1>6, <1>7 DEF IsFold

(***************************************************************************)
(* Folds over a sequence, from the left                                    *)
(***************************************************************************)
LastIn(s) == CHOOSE x \in s : \A y \in s : x >= y

(* The last of the first k + 1 positions, and those before it.             *)
LEMMA LastOfFirst ==
  ASSUME NEW k \in Nat
  PROVE  LastIn(1 .. k + 1) = k + 1 /\ (1 .. k + 1) \ {k + 1} = 1 .. k /\ 1 .. k + 1 # {}
<1>1. k + 1 \in 1 .. k + 1 /\ \A y \in 1 .. k + 1 : k + 1 >= y
  OBVIOUS
<1>2. \A x \in 1 .. k + 1 : (\A y \in 1 .. k + 1 : x >= y) => x = k + 1
  OBVIOUS
<1>3. LastIn(1 .. k + 1) = k + 1
  BY <1>1, <1>2 DEF LastIn
<1> QED
  BY <1>1, <1>3

LEMMA LastIsIn ==
  ASSUME NEW n \in Nat, NEW s \in SUBSET (1 .. n), s # {}
  PROVE  LastIn(s) \in s
<1>1. \E x \in s : \A y \in s : y <= x
  <2>1. s \in SUBSET (1 .. n) /\ 1 \in Int /\ n \in Int
    OBVIOUS
  <2> QED
    BY <2>1, GreatestExists, Zenon
<1>2. \A x, y \in s : y <= x <=> x >= y
  OBVIOUS
<1> QED
  BY <1>1, <1>2 DEF LastIn

(* What FoldLeft asks of the function it takes the result from.            *)
IsLeftFold(it, seq, base, step) ==
  \A s \in SUBSET DOMAIN seq : it[s] = IF s = {} THEN base ELSE step[<<it[s \ {LastIn(s)}], seq[LastIn(s)]>>]

LEMMA LeftFoldExists ==
  ASSUME NEW T, NEW seq \in Seq(T), NEW V, NEW base \in V, NEW step \in [V \X T -> V]
  PROVE  \E it \in [SUBSET DOMAIN seq -> V] : IsLeftFold(it, seq, base, step)
<1> DEFINE S == DOMAIN seq
           pick == [s \in SUBSET S |-> LastIn(s)]
           byPosition == [p \in S \X V |-> step[<<p[2], seq[p[1]]>>]]
<1>1. S = 1 .. Len(seq) /\ Len(seq) \in Nat /\ IsFiniteSet(S) /\ \A i \in S : seq[i] \in T
  BY FS_Interval
<1>2. ASSUME NEW s \in SUBSET S, s # {}
      PROVE  pick[s] \in s
  BY <1>1, <1>2, LastIsIn
<1>3. byPosition \in [S \X V -> V]
  <2>1. ASSUME NEW p \in S \X V
        PROVE  step[<<p[2], seq[p[1]]>>] \in V
    BY <1>1
  <2> QED
    BY <2>1
<1>4. PICK it \in [SUBSET S -> V] : IsFold(it, S, base, pick, byPosition)
  <2> HIDE DEF pick, byPosition, S
  <2> QED
    BY <1>1, <1>2, <1>3, FoldExists, Zenon
<1>5. ASSUME NEW s \in SUBSET S
      PROVE  it[s] = IF s = {} THEN base ELSE step[<<it[s \ {LastIn(s)}], seq[LastIn(s)]>>]
  <2>1. it[s] = IF s = {} THEN base ELSE byPosition[<<pick[s], it[s \ {pick[s]}]>>]
    <3> HIDE DEF pick, byPosition
    <3> QED
      BY <1>4 DEF IsFold
  <2>2. CASE s # {}
    <3>1. pick[s] = LastIn(s) /\ pick[s] \in S /\ it[s \ {pick[s]}] \in V
      BY <1>2, <1>4, <2>2
    <3>2. byPosition[<<pick[s], it[s \ {pick[s]}]>>] = step[<<it[s \ {LastIn(s)}], seq[LastIn(s)]>>]
      <4> HIDE DEF pick
      <4> QED
        BY <3>1
    <3> QED
      BY <2>1, <2>2, <3>2
  <2> QED
    BY <2>1, <2>2
<1> QED
  BY <1>4, <1>5 DEF IsLeftFold

(* The results of the steps, one after the other, for a function that takes *)
(* the step wherever it has a value to take it from.                       *)
TakesSteps(f, seq, V, base, step) ==
  /\ f[{}] = base
  /\ \A s \in SUBSET DOMAIN seq :
       s # {} /\ f[s \ {LastIn(s)}] \in V => f[s] = step[<<f[s \ {LastIn(s)}], seq[LastIn(s)]>>]

IsStepwise(g, seq, base, step, result) ==
  /\ g[0] = base /\ g[Len(seq)] = result
  /\ \A k \in 0 .. Len(seq) - 1 : g[k + 1] = step[<<g[k], seq[k + 1]>>]

LEMMA LeftFoldSteps ==
  ASSUME NEW T, NEW seq \in Seq(T), NEW V, NEW base \in V, NEW step \in [V \X T -> V],
         NEW f, TakesSteps(f, seq, V, base, step)
  PROVE  \E g \in [0 .. Len(seq) -> V] : IsStepwise(g, seq, base, step, f[DOMAIN seq])
<1> DEFINE g == [k \in 0 .. Len(seq) |-> f[1 .. k]]
<1>1. Len(seq) \in Nat /\ DOMAIN seq = 1 .. Len(seq) /\ \A i \in DOMAIN seq : seq[i] \in T
  OBVIOUS
<1>2. ASSUME NEW k \in 0 .. Len(seq) - 1, g[k] \in V
      PROVE  g[k + 1] = step[<<g[k], seq[k + 1]>>] /\ g[k + 1] \in V
  <2>1. k \in Nat /\ k + 1 \in 0 .. Len(seq) /\ k \in 0 .. Len(seq) /\ 1 .. k + 1 \in SUBSET DOMAIN seq
    BY <1>1
  <2>2. LastIn(1 .. k + 1) = k + 1 /\ (1 .. k + 1) \ {k + 1} = 1 .. k /\ 1 .. k + 1 # {}
    BY <2>1, LastOfFirst
  <2>3. f[1 .. k] \in V /\ g[k] = f[1 .. k] /\ g[k + 1] = f[1 .. k + 1]
    BY <1>2, <2>1
  <2>4. f[1 .. k + 1] = step[<<f[1 .. k], seq[k + 1]>>]
    BY <2>1, <2>2, <2>3 DEF TakesSteps
  <2>5. seq[k + 1] \in T
    BY <1>1
  <2> HIDE DEF g
  <2> QED
    BY <2>3, <2>4, <2>5
<1>3. g[0] = base /\ g[Len(seq)] = f[DOMAIN seq]
  <2>1. 0 \in 0 .. Len(seq) /\ Len(seq) \in 0 .. Len(seq) /\ 1 .. 0 = {} /\ 1 .. Len(seq) = DOMAIN seq
    BY <1>1
  <2>2. g[0] = f[1 .. 0] /\ g[Len(seq)] = f[1 .. Len(seq)]
    BY <2>1
  <2> HIDE DEF g
  <2> QED
    BY <2>1, <2>2 DEF TakesSteps
<1>4. \A k \in 0 .. Len(seq) : g[k] \in V
  <2> DEFINE G == {k \in 0 .. Len(seq) : g[k] \in V}
  <2>1. 0 \in G /\ \A k \in 0 .. Len(seq) - 1 : k \in G => k + 1 \in G
    <3>1. 0 \in 0 .. Len(seq) /\ \A k \in 0 .. Len(seq) - 1 : k + 1 \in 0 .. Len(seq)
      BY <1>1
    <3> HIDE DEF g
    <3> QED
      BY <1>2, <1>3, <3>1
  <2>2. \A k \in 0 .. Len(seq) : k \in G
    <3> HIDE DEF G
    <3> QED
      BY <1>1, <2>1, CountingUp
  <2> QED
    BY <2>2
<1>5. g \in [0 .. Len(seq) -> V]
  BY <1>4
<1>6. \A k \in 0 .. Len(seq) - 1 : k \in 0 .. Len(seq)
  BY <1>1
<1> HIDE DEF g
<1> QED
  BY <1>2, <1>3, <1>4, <1>5, <1>6 DEF IsStepwise

(***************************************************************************)
(* Walks: functions of where one is, that go on from the next place        *)
(***************************************************************************)
(* The function of the places of S that is base at the stop, and a step    *)
(* from what it is at the next place elsewhere.                            *)
IsWalk(f, S, stop, base, next, step) ==
  f = [x \in S |-> IF x = stop THEN base ELSE step[<<x, f[next[x]]>>]]

(* When every step brings the stop nearer it exists.                       *)
LEMMA WalkExists ==
  ASSUME NEW S, NEW stop \in S, NEW V, NEW base \in V,
         NEW next \in [S \ {stop} -> S], NEW step \in [(S \ {stop}) \X V -> V],
         NEW rank \in [S -> Nat], \A x \in S \ {stop} : rank[next[x]] < rank[x],
         NEW N \in Nat, \A x \in S : rank[x] <= N
  PROVE  \E f \in [S -> V] : IsWalk(f, S, stop, base, next, step)
<1> DEFINE Next(g)  == [x \in S |-> IF x = stop THEN base ELSE step[<<x, g[next[x]]>>]]
           Upto(n)  == {x \in S : rank[x] <= n}
           Holds(g, n) == g \in [S -> V] /\ \A x \in Upto(n) : g[x] = Next(g)[x]
           G        == {n \in Nat : \E g : Holds(g, n)}
<1>1. ASSUME NEW g \in [S -> V]
      PROVE  Next(g) \in [S -> V]
  <2>1. ASSUME NEW x \in S, x # stop
        PROVE  step[<<x, g[next[x]]>>] \in V
    <3>1. next[x] \in S
      BY <2>1
    <3> QED
      BY <2>1, <3>1
  <2> QED
    BY <2>1
<1>2. ASSUME NEW n \in Nat, NEW g, Holds(g, n)
      PROVE  Holds(Next(g), n + 1)
  <2>1. Next(g) \in [S -> V]
    BY <1>1, <1>2
  <2>2. ASSUME NEW x \in Upto(n + 1)
        PROVE  Next(g)[x] = Next(Next(g))[x]
    <3>1. CASE x = stop
      BY <3>1
    <3>2. CASE x # stop
      <4>1. next[x] \in S /\ rank[next[x]] < rank[x] /\ rank[x] \in Nat /\ rank[next[x]] \in Nat
        BY <3>2
      <4>2. next[x] \in Upto(n)
        BY <4>1
      <4>3. g[next[x]] = Next(g)[next[x]]
        BY <1>2, <4>2
      <4> QED
        BY <3>2, <4>1, <4>3
    <3> QED
      BY <3>1, <3>2
  <2> QED
    BY <2>1, <2>2
<1>3. Holds(Next([x \in S |-> base]), 0)
  <2> DEFINE g == [x \in S |-> base]
  <2>1. Next(g) \in [S -> V]
    <3>1. g \in [S -> V]
      OBVIOUS
    <3> QED
      BY <1>1, <3>1
  <2>2. ASSUME NEW x \in Upto(0)
        PROVE  Next(g)[x] = Next(Next(g))[x]
    <3>1. x = stop
      OBVIOUS
    <3> QED
      BY <3>1
  <2> QED
    BY <2>1, <2>2
<1>4. \A n \in 0 .. N : n \in G
  <2> HIDE DEF Holds, Next
  <2>1. 0 \in G
    BY <1>3
  <2>2. \A n \in 0 .. N - 1 : n \in G => n + 1 \in G
    BY <1>2
  <2> HIDE DEF G
  <2> QED
    BY <2>1, <2>2, CountingUp
<1>5. PICK g : Holds(g, N)
  BY <1>4
<1>6. \A x \in S : x \in Upto(N)
  OBVIOUS
<1>7. g = Next(g) /\ g \in [S -> V]
  BY <1>1, <1>5, <1>6
<1> QED
  BY <1>7 DEF IsWalk

(***************************************************************************)
(* Sums over the subsets of a finite set                                   *)
(***************************************************************************)
(* What MapThenSumSet asks of the function it takes the result from, for   *)
(* the values f[x] of the elements.                                        *)
IsSum(it, f, S) ==
  it = [s \in SUBSET S |-> IF s = {} THEN 0 ELSE f[CHOOSE x \in s : TRUE] + it[s \ {CHOOSE x \in s : TRUE}]]

(* Integers have a sum.                                                    *)
LEMMA SumExists ==
  ASSUME NEW S, IsFiniteSet(S), NEW f \in [S -> Int]
  PROVE  \E it : IsSum(it, f, S)
<1> DEFINE pick == [s \in SUBSET S |-> CHOOSE x \in s : TRUE]
           step == [p \in S \X Int |-> f[p[1]] + p[2]]
<1>1. \A s \in SUBSET S : s # {} => pick[s] \in s
  OBVIOUS
<1>2. step \in [S \X Int -> Int]
  OBVIOUS
<1>3. PICK it \in [SUBSET S -> Int] : IsFold(it, S, 0, pick, step)
  <2> HIDE DEF pick, step
  <2> QED
    BY <1>1, <1>2, 0 \in Int, FoldExists, Zenon
<1>4. ASSUME NEW s \in SUBSET S, s # {}
      PROVE  step[<<pick[s], it[s \ {pick[s]}]>>] = f[CHOOSE x \in s : TRUE] + it[s \ {CHOOSE x \in s : TRUE}]
  <2>1. pick[s] \in S /\ s \ {pick[s]} \in SUBSET S /\ pick[s] = CHOOSE x \in s : TRUE
    BY <1>1, <1>4
  <2>2. it[s \ {pick[s]}] \in Int
    BY <1>3, <2>1
  <2> HIDE DEF pick
  <2> QED
    BY <2>1, <2>2
<1>5. IsSum(it, f, S)
  <2> HIDE DEF pick, step
  <2> QED
    BY <1>3, <1>4 DEF IsFold, IsSum
<1> QED
  BY <1>5

(* A sum is an integer.                                                    *)
LEMMA SumType ==
  ASSUME NEW S, IsFiniteSet(S), NEW f \in [S -> Int], NEW it, IsSum(it, f, S)
  PROVE  \A s \in SUBSET S : it[s] \in Int
<1> DEFINE Bad == {s \in SUBSET S : it[s] \notin Int}
<1> SUFFICES ASSUME Bad # {}
             PROVE  FALSE
  OBVIOUS
<1>1. PICK s \in Bad : \A t \in Bad : t \subseteq s => t = s
  <2>1. Bad \in SUBSET SUBSET S
    OBVIOUS
  <2> HIDE DEF Bad
  <2> QED
    BY <2>1, MinimalSubset
<1>2. s # {}
  BY DEF IsSum
<1> DEFINE x == CHOOSE x \in s : TRUE
<1>3. x \in s /\ x \in S /\ it[s] = f[x] + it[s \ {x}]
  BY <1>2 DEF IsSum
<1> HIDE DEF x
<1>4. s \ {x} \in SUBSET S /\ s \ {x} \notin Bad
  BY <1>1, <1>3
<1> QED
  BY <1>3, <1>4

(* When one value changes the sum changes by the difference.               *)
LEMMA SumChanges ==
  ASSUME NEW S, IsFiniteSet(S), NEW f \in [S -> Int], NEW g \in [S -> Int],
         NEW i, IsSum(i, f, S), NEW j, IsSum(j, g, S),
         NEW z \in S, \A y \in S \ {z} : g[y] = f[y]
  PROVE  \A s \in SUBSET S : j[s] = i[s] + (IF z \in s THEN g[z] - f[z] ELSE 0)
<1> DEFINE Change(s) == IF z \in s THEN g[z] - f[z] ELSE 0
           Bad == {s \in SUBSET S : j[s] # i[s] + Change(s)}
<1> SUFFICES ASSUME Bad # {}
             PROVE  FALSE
  OBVIOUS
<1>1. PICK s \in Bad : \A t \in Bad : t \subseteq s => t = s
  <2>1. Bad \in SUBSET SUBSET S
    OBVIOUS
  <2> HIDE DEF Bad
  <2> QED
    BY <2>1, MinimalSubset
<1>2. s # {}
  <2>1. i[{}] = 0 /\ j[{}] = 0
    BY DEF IsSum
  <2> QED
    BY <2>1
<1> DEFINE x == CHOOSE x \in s : TRUE
<1>3. x \in s /\ x \in S /\ i[s] = f[x] + i[s \ {x}] /\ j[s] = g[x] + j[s \ {x}]
  BY <1>2 DEF IsSum
<1> HIDE DEF x
<1>4. j[s \ {x}] = i[s \ {x}] + Change(s \ {x})
  BY <1>1, <1>3
<1>5. i[s \ {x}] \in Int /\ j[s \ {x}] \in Int /\ f[x] \in Int /\ g[x] \in Int /\ f[z] \in Int /\ g[z] \in Int
  BY <1>3, SumType
<1>6. j[s] = i[s] + Change(s)
  <2>1. CASE x = z
    BY <1>3, <1>4, <1>5, <2>1
  <2>2. CASE x # z
    <3>1. Change(s \ {x}) = Change(s) /\ g[x] = f[x] /\ Change(s) \in Int
      BY <1>3, <1>5, <2>2
    <3> HIDE DEF Change
    <3> QED
      BY <1>3, <1>4, <1>5, <3>1
  <2> QED
    BY <2>1, <2>2
<1> QED
  BY <1>6

(* Equal values have equal sums.                                           *)
LEMMA SumOfEquals ==
  ASSUME NEW S, IsFiniteSet(S), NEW f \in [S -> Int],
         NEW i, IsSum(i, f, S), NEW j, IsSum(j, f, S)
  PROVE  i[S] = j[S]
<1>1. CASE S = {}
  BY <1>1 DEF IsSum
<1>2. CASE S # {}
  <2>1. PICK z : z \in S
    BY <1>2
  <2>2. i[S] \in Int /\ j[S] = i[S] + (f[z] - f[z]) /\ f[z] \in Int
    BY <2>1, SumChanges, SumType
  <2> QED
    BY <2>2
<1> QED
  BY <1>1, <1>2

(* A sum of zeros is zero.                                                 *)
LEMMA SumOfZeros ==
  ASSUME NEW S, IsFiniteSet(S), NEW f \in [S -> Int], \A x \in S : f[x] = 0, NEW it, IsSum(it, f, S)
  PROVE  it[S] = 0
<1> DEFINE Bad == {s \in SUBSET S : it[s] # 0}
<1>1. Bad = {}
  <2> SUFFICES ASSUME Bad # {}
               PROVE  FALSE
    OBVIOUS
  <2>1. PICK s \in Bad : \A t \in Bad : t \subseteq s => t = s
    <3>1. Bad \in SUBSET SUBSET S
      OBVIOUS
    <3> HIDE DEF Bad
    <3> QED
      BY <3>1, MinimalSubset
  <2>2. s # {}
    BY DEF IsSum
  <2> DEFINE x == CHOOSE x \in s : TRUE
  <2>3. x \in s /\ x \in S /\ it[s] = f[x] + it[s \ {x}]
    BY <2>2 DEF IsSum
  <2> HIDE DEF x
  <2>4. s \ {x} \in SUBSET S /\ s \ {x} \notin Bad
    BY <2>1, <2>3
  <2> QED
    BY <2>3, <2>4
<1> QED
  BY <1>1


(* The sum of natural numbers is at least each of them.                    *)
LEMMA SumOfNaturals ==
  ASSUME NEW S, IsFiniteSet(S), NEW f \in [S -> Nat], NEW it, IsSum(it, f, S)
  PROVE  it[S] \in Nat /\ \A x \in S : it[S] >= f[x]
<1>1. ASSUME NEW g \in [S -> Nat], NEW i, IsSum(i, g, S)
      PROVE  i[S] \in Nat
  <2> DEFINE Bad == {s \in SUBSET S : i[s] \notin Nat}
  <2>1. CASE Bad = {}
    BY <2>1
  <2>2. CASE Bad # {}
    <3>1. PICK s \in Bad : \A t \in Bad : t \subseteq s => t = s
      <4>1. Bad \in SUBSET SUBSET S
        OBVIOUS
      <4> HIDE DEF Bad
      <4> QED
        BY <2>2, <4>1, MinimalSubset
    <3>2. s # {}
      BY <1>1 DEF IsSum
    <3> DEFINE x == CHOOSE x \in s : TRUE
    <3>3. x \in s /\ x \in S /\ i[s] = g[x] + i[s \ {x}]
      BY <1>1, <3>2 DEF IsSum
    <3> HIDE DEF x
    <3>4. s \ {x} \in SUBSET S /\ s \ {x} \notin Bad
      BY <3>1, <3>3
    <3> QED
      BY <3>3, <3>4
  <2> QED
    BY <2>1, <2>2
<1>2. ASSUME NEW x \in S
      PROVE  it[S] >= f[x]
  <2> DEFINE g == [f EXCEPT ![x] = 0]
  <2>1. g \in [S -> Nat] /\ g[x] = 0 /\ \A y \in S \ {x} : f[y] = g[y]
    OBVIOUS
  <2> HIDE DEF g
  <2>2. PICK i : IsSum(i, g, S)
    BY <2>1, SumExists
  <2>3. it[S] = i[S] + (f[x] - g[x])
    <3>1. f \in [S -> Int] /\ g \in [S -> Int]
      BY <2>1
    <3>2. \A s \in SUBSET S : it[s] = i[s] + (IF x \in s THEN f[x] - g[x] ELSE 0)
      BY <2>1, <2>2, <3>1, SumChanges
    <3> QED
      BY <3>2
  <2>4. i[S] \in Nat
    BY <1>1, <2>1, <2>2
  <2> QED
    BY <2>1, <2>3, <2>4
<1> QED
  BY <1>1, <1>2

(***************************************************************************)
(* Sizes                                                                   *)
(***************************************************************************)
(* The values of a function on a finite set are finitely many.             *)
LEMMA ImageIsFinite ==
  ASSUME NEW S, IsFiniteSet(S), NEW f
  PROVE  IsFiniteSet({f[x] : x \in S})
<1> DEFINE T == {f[x] : x \in S}
           h == [x \in S |-> f[x]]
<1>1. h \in Surjection(S, T)
  BY DEF Surjection
<1> HIDE DEF h, T
<1> QED
  BY <1>1, FS_Surjection DEF T

(* The sets F[x] have the sizes f[x] and nothing in common.                *)
HaveSizes(F, f, S) ==
  /\ \A x \in S : IsFiniteSet(F[x]) /\ f[x] = Cardinality(F[x])
  /\ \A x, y \in S : x # y => F[x] \intersect F[y] = {}
AllOf(F, S) == UNION {F[x] : x \in S}

(* A sum of sizes is the size of the union.                                *)
LEMMA SumOfSizes ==
  ASSUME NEW S, IsFiniteSet(S), NEW F, NEW f \in [S -> Int], HaveSizes(F, f, S),
         NEW it, IsSum(it, f, S)
  PROVE  IsFiniteSet(AllOf(F, S)) /\ it[S] = Cardinality(AllOf(F, S))
<1> USE DEF HaveSizes, AllOf
<1> DEFINE U(s) == UNION {F[x] : x \in s}
           Bad  == {s \in SUBSET S : ~(IsFiniteSet(U(s)) /\ it[s] = Cardinality(U(s)))}
<1>1. Bad = {}
  <2> SUFFICES ASSUME Bad # {}
               PROVE  FALSE
    OBVIOUS
  <2>1. PICK s \in Bad : \A t \in Bad : t \subseteq s => t = s
    <3>1. Bad \in SUBSET SUBSET S
      OBVIOUS
    <3> HIDE DEF Bad
    <3> QED
      BY <3>1, MinimalSubset
  <2>2. s # {}
    <3>1. U({}) = {} /\ it[{}] = 0
      BY DEF IsSum
    <3> QED
      BY <2>1, <3>1, FS_EmptySet
  <2> DEFINE x == CHOOSE x \in s : TRUE
             r == s \ {x}
  <2>3. x \in s /\ x \in S /\ it[s] = f[x] + it[r]
    BY <2>2 DEF IsSum
  <2> HIDE DEF x
  <2>4. r \in SUBSET S /\ r \notin Bad
    BY <2>1, <2>3
  <2>5. IsFiniteSet(U(r)) /\ it[r] = Cardinality(U(r))
    BY <2>4
  <2>6. U(s) = F[x] \union U(r)
    BY <2>3
  <2>7. F[x] \intersect U(r) = {}
    BY <2>3, <2>4
  <2> HIDE DEF U, r
  <2>8. IsFiniteSet(F[x]) /\ f[x] = Cardinality(F[x])
    BY <2>3
  <2>9. IsFiniteSet(U(s)) /\ Cardinality(U(s)) = Cardinality(F[x]) + Cardinality(U(r))
    <3>1. Cardinality({}) = 0 /\ Cardinality(F[x]) \in Int /\ Cardinality(U(r)) \in Int
      BY <2>5, <2>8, FS_EmptySet, FS_CardinalityType
    <3> DEFINE A == F[x]
               B == U(r)
    <3>2. IsFiniteSet(A) /\ IsFiniteSet(B) /\ A \intersect B = {}
      BY <2>5, <2>7, <2>8
    <3> HIDE DEF A, B
    <3>3. IsFiniteSet(A \union B)
          /\ Cardinality(A \union B) = Cardinality(A) + Cardinality(B) - Cardinality(A \intersect B)
      BY <3>2, FS_Union
    <3>4. Cardinality(A \intersect B) = 0 /\ Cardinality(A) \in Int /\ Cardinality(B) \in Int
      BY <3>1, <3>2 DEF A, B
    <3>5. Cardinality(A \union B) = Cardinality(A) + Cardinality(B)
      BY <3>3, <3>4
    <3> QED
      BY <2>6, <3>3, <3>5 DEF A, B
  <2>10. it[s] = Cardinality(U(s))
    BY <2>3, <2>5, <2>8, <2>9
  <2> QED
    BY <2>1, <2>9, <2>10
<1>2. S \notin Bad
  BY <1>1
<1> QED
  BY <1>2

(* A set and its image under an injection have the same size.              *)
LEMMA ImageSize ==
  ASSUME NEW S, IsFiniteSet(S), NEW f, \A x, y \in S : f[x] = f[y] => x = y
  PROVE  IsFiniteSet({f[x] : x \in S}) /\ Cardinality({f[x] : x \in S}) = Cardinality(S)
<1> DEFINE T == {f[x] : x \in S}
           h == [x \in S |-> f[x]]
<1>1. h \in [S -> T] /\ (\A x, y \in S : h[x] = h[y] => x = y) /\ \A t \in T : \E x \in S : h[x] = t
  OBVIOUS
<1>2. h \in Bijection(S, T)
  BY <1>1 DEF Bijection, Injection, Surjection, IsInjective
<1> HIDE DEF h, T
<1>3. ExistsBijection(S, T)
  BY <1>2 DEF ExistsBijection
<1> QED
  BY <1>3, FS_Bijection DEF T


(***************************************************************************)
(* Paths of a graph                                                        *)
(*                                                                         *)
(* A path goes from a node to one of its children at each step, and says   *)
(* which child it is.  Below, g stands for the children of the nodes.      *)
(***************************************************************************)
Paths == Seq(Vertex \X Nat) \ {<<>>}
End(s) == s[Len(s)][1]

Valid(g, s) ==
  \A m \in 1 .. Len(s) - 1 :
    /\ s[m + 1][2] \in 1 .. Len(g[s[m][1]])
    /\ s[m + 1][1] = g[s[m][1]][s[m + 1][2]]

PathsFrom(g, n) == {s \in Paths : s[1] = <<n, 0>> /\ Valid(g, s)}

Longer(g, s, i) == Append(s, <<g[End(s)][i], i>>)

(* The paths in the order of a walk that takes a node after its children:  *)
(* b comes sooner than s when it goes on from s, or leaves it for a child  *)
(* with a smaller index.                                                   *)
Agrees(b, s, l) == \A m \in 1 .. l : b[m] = s[m]
Extends(b, s) == Len(b) >= Len(s) /\ Agrees(b, s, Len(s))
Branches(b, s) == \E m \in 2 .. Len(s) : m <= Len(b) /\ Agrees(b, s, m - 1) /\ b[m][2] < s[m][2]
Sooner(b, s) == Extends(b, s) \/ Branches(b, s)

(* For a walk that stands at the path t and whose next child is x: the     *)
(* paths it has gone through to the end, and those it has yet to enter.    *)
Past(t, x, b) ==
  \/ Branches(b, t)
  \/ Extends(b, t) /\ Len(b) > Len(t) /\ b[Len(t) + 1][2] < x
Pend(t, x, b) ==
  \/ Branches(t, b)
  \/ Extends(b, t) /\ (x > 0 => Len(b) > Len(t) /\ b[Len(t) + 1][2] >= x)

LEMMA PathsType ==
  ASSUME NEW s \in Paths
  PROVE  /\ Len(s) \in Nat \ {0} /\ s \in Seq(Vertex \X Nat)
         /\ \A m \in 1 .. Len(s) : s[m] \in Vertex \X Nat /\ s[m][1] \in Vertex /\ s[m][2] \in Nat
         /\ End(s) \in Vertex
<1>1. s \in Seq(Vertex \X Nat) /\ s # <<>>
  BY DEF Paths
<1>2. Len(s) \in Nat \ {0}
  BY <1>1, EmptySeq
<1>3. \A m \in 1 .. Len(s) : s[m] \in Vertex \X Nat
  BY <1>1
<1> QED
  BY <1>1, <1>2, <1>3 DEF End

LEMMA SamePath ==
  ASSUME NEW s \in Paths, NEW b \in Paths, Len(b) = Len(s), Agrees(b, s, Len(s))
  PROVE  b = s
<1>1. s \in Seq(Vertex \X Nat) /\ b \in Seq(Vertex \X Nat)
  BY DEF Paths
<1> QED
  BY <1>1, SeqEqual DEF Agrees

LEMMA GraphType ==
  ASSUME NEW g \in [Vertex -> Seq(Vertex)], NEW m \in Vertex
  PROVE  Len(g[m]) \in Nat /\ \A i \in 1 .. Len(g[m]) : i \in Nat /\ i >= 1 /\ g[m][i] \in Vertex
<1>1. g[m] \in Seq(Vertex)
  OBVIOUS
<1> QED
  BY <1>1

LEMMA LongerPath ==
  ASSUME NEW g \in [Vertex -> Seq(Vertex)], NEW n \in Vertex, NEW s \in PathsFrom(g, n),
         NEW i \in 1 .. Len(g[End(s)])
  PROVE  /\ Longer(g, s, i) \in PathsFrom(g, n)
         /\ Len(Longer(g, s, i)) = Len(s) + 1
         /\ Agrees(Longer(g, s, i), s, Len(s))
         /\ Longer(g, s, i)[Len(s) + 1] \in Vertex \X Nat
         /\ Longer(g, s, i)[Len(s) + 1][1] = g[End(s)][i]
         /\ Longer(g, s, i)[Len(s) + 1][2] = i
         /\ End(Longer(g, s, i)) = g[End(s)][i]
<1> DEFINE e == <<g[End(s)][i], i>>
           k == Len(s)
           t == Append(s, e)
<1>1. s \in Paths /\ s[1] = <<n, 0>> /\ Valid(g, s)
  BY DEF PathsFrom
<1>2. k \in Nat \ {0} /\ s \in Seq(Vertex \X Nat) /\ End(s) \in Vertex
  BY <1>1, PathsType
<1>3. e \in Vertex \X Nat /\ e[1] = g[End(s)][i] /\ e[2] = i
  BY <1>2, GraphType
<1> HIDE DEF e
<1>4. /\ t \in Seq(Vertex \X Nat) /\ Len(t) = k + 1
      /\ \A m \in 1 .. k : t[m] = s[m]
      /\ t[k + 1] = e
  BY <1>2, <1>3, AppendProperties
<1> HIDE DEF t
<1>5. t \in Paths
  <2>1. t # <<>>
    BY <1>2, <1>4, EmptySeq
  <2> QED
    BY <1>4, <2>1 DEF Paths
<1>6. Valid(g, t)
  <2> SUFFICES ASSUME NEW m \in 1 .. k
               PROVE  /\ t[m + 1][2] \in 1 .. Len(g[t[m][1]])
                      /\ t[m + 1][1] = g[t[m][1]][t[m + 1][2]]
    BY <1>2, <1>4 DEF Valid
  <2>1. CASE m = k
    BY <1>2, <1>3, <1>4, <2>1 DEF End
  <2>2. CASE m # k
    <3>1. m \in 1 .. Len(s) - 1 /\ m + 1 \in 1 .. k
      BY <1>2, <2>2
    <3>2. t[m] = s[m] /\ t[m + 1] = s[m + 1]
      BY <1>4, <3>1
    <3> QED
      BY <1>1, <3>1, <3>2 DEF Valid
  <2> QED
    BY <2>1, <2>2
<1>7. t[1] = <<n, 0>>
  <2>1. 1 \in 1 .. k
    BY <1>2
  <2> QED
    BY <1>1, <1>4, <2>1
<1>8. End(t) = e[1]
  BY <1>2, <1>4 DEF End
<1>9. t = Longer(g, s, i)
  BY DEF t, e, Longer
<1> QED
  BY <1>3, <1>4, <1>5, <1>6, <1>7, <1>8, <1>9 DEF PathsFrom, Agrees, k

(* How a path compares with one that is a step longer than another one.    *)
LEMMA CompareLonger ==
  ASSUME NEW s, Len(s) \in Nat, NEW t, Len(t) \in Nat \ {0}, NEW u, Len(u) = Len(t) + 1,
         Agrees(u, t, Len(t))
  PROVE  /\ Branches(s, u)
               <=> \/ Branches(s, t)
                   \/ Extends(s, t) /\ Len(s) > Len(t) /\ s[Len(t) + 1][2] < u[Len(t) + 1][2]
         /\ Branches(u, s)
               <=> \/ Branches(t, s)
                   \/ Extends(s, t) /\ Len(s) > Len(t) /\ u[Len(t) + 1][2] < s[Len(t) + 1][2]
         /\ Extends(s, u) <=> (Extends(s, t) /\ Len(s) > Len(t) /\ s[Len(t) + 1] = u[Len(t) + 1])
<1> DEFINE k == Len(t)
<1>0. k \in Nat \ {0} /\ Len(t) = k /\ Len(u) = k + 1 /\ \A m \in 1 .. k : u[m] = t[m]
  BY DEF Agrees
<1> HIDE DEF k
<1> DEFINE Below(m) == Agrees(s, t, m - 1) /\ s[m][2] < t[m][2]
           Above(m) == Agrees(t, s, m - 1) /\ t[m][2] < s[m][2]
<1>1. \A m \in 0 .. k : (Agrees(s, u, m) <=> Agrees(s, t, m)) /\ (Agrees(u, s, m) <=> Agrees(t, s, m))
                        /\ (Agrees(t, s, m) <=> Agrees(s, t, m))
  BY <1>0 DEF Agrees
<1>2. ASSUME NEW m \in 2 .. k
      PROVE  /\ m - 1 \in 0 .. k /\ u[m] = t[m]
             /\ Agrees(s, u, m - 1) <=> Agrees(s, t, m - 1)
             /\ Agrees(u, s, m - 1) <=> Agrees(t, s, m - 1)
  BY <1>0, <1>1
<1>3. Extends(s, t) /\ Len(s) > k <=> Len(s) >= k + 1 /\ Agrees(s, t, k)
  BY <1>0 DEF Extends
<1>4. k + 1 - 1 = k /\ k \in 0 .. k /\ k + 1 \in 2 .. Len(u)
  BY <1>0
<1>5. Branches(s, u) <=> (Branches(s, t) \/ (Extends(s, t) /\ Len(s) > k /\ s[k + 1][2] < u[k + 1][2]))
  <2>1. ASSUME Branches(s, u)
        PROVE  Branches(s, t) \/ (Extends(s, t) /\ Len(s) > k /\ s[k + 1][2] < u[k + 1][2])
    <3>1. PICK m \in 2 .. k + 1 : m <= Len(s) /\ Agrees(s, u, m - 1) /\ s[m][2] < u[m][2]
      BY <1>0, <2>1 DEF Branches
    <3>2. CASE m = k + 1
      BY <1>0, <1>1, <1>3, <1>4, <3>1, <3>2
    <3>3. CASE m # k + 1
      <4>1. m \in 2 .. k
        BY <1>0, <3>3
      <4> QED
        BY <1>0, <1>2, <3>1, <4>1 DEF Branches
    <3> QED
      BY <1>0, <3>2, <3>3
  <2>2. ASSUME Branches(s, t)
        PROVE  Branches(s, u)
    <3>1. PICK m \in 2 .. k : m <= Len(s) /\ Agrees(s, t, m - 1) /\ s[m][2] < t[m][2]
      BY <1>0, <2>2 DEF Branches
    <3>2. m \in 2 .. Len(u)
      BY <1>0
    <3> QED
      BY <1>0, <1>2, <3>1, <3>2 DEF Branches
  <2>3. ASSUME Extends(s, t), Len(s) > k, s[k + 1][2] < u[k + 1][2]
        PROVE  Branches(s, u)
    BY <1>0, <1>1, <1>3, <1>4, <2>3 DEF Branches
  <2> QED
    BY <1>0, <2>1, <2>2, <2>3
<1>6. Branches(u, s) <=> (Branches(t, s) \/ (Extends(s, t) /\ Len(s) > k /\ u[k + 1][2] < s[k + 1][2]))
  <2>1. ASSUME Branches(u, s)
        PROVE  Branches(t, s) \/ (Extends(s, t) /\ Len(s) > k /\ u[k + 1][2] < s[k + 1][2])
    <3>1. PICK m \in 2 .. Len(s) : m <= k + 1 /\ Agrees(u, s, m - 1) /\ u[m][2] < s[m][2]
      BY <1>0, <2>1 DEF Branches
    <3>2. CASE m = k + 1
      BY <1>0, <1>1, <1>3, <1>4, <3>1, <3>2
    <3>3. CASE m # k + 1
      <4>1. m \in 2 .. k
        BY <1>0, <3>1, <3>3
      <4> QED
        BY <1>0, <1>2, <3>1, <4>1 DEF Branches
    <3> QED
      BY <1>0, <3>2, <3>3
  <2>2. ASSUME Branches(t, s)
        PROVE  Branches(u, s)
    <3>1. PICK m \in 2 .. Len(s) : m <= k /\ Agrees(t, s, m - 1) /\ t[m][2] < s[m][2]
      BY <1>0, <2>2 DEF Branches
    <3>2. m \in 2 .. k /\ m <= Len(u)
      BY <1>0, <3>1
    <3> QED
      BY <1>0, <1>2, <3>1, <3>2 DEF Branches
  <2>3. ASSUME Extends(s, t), Len(s) > k, u[k + 1][2] < s[k + 1][2]
        PROVE  Branches(u, s)
    <3>1. k + 1 \in 2 .. Len(s) /\ k + 1 <= Len(u)
      BY <1>0, <2>3
    <3>2. Agrees(u, s, k + 1 - 1)
      BY <1>0, <1>1, <1>3, <1>4, <2>3
    <3> QED
      BY <1>0, <2>3, <3>1, <3>2 DEF Branches
  <2> QED
    BY <1>0, <2>1, <2>2, <2>3
<1>7. Extends(s, u) <=> (Extends(s, t) /\ Len(s) > k /\ s[k + 1] = u[k + 1])
  <2>1. Agrees(s, u, k + 1) <=> (Agrees(s, t, k) /\ s[k + 1] = u[k + 1])
    BY <1>0 DEF Agrees
  <2> QED
    BY <1>0, <1>3, <2>1 DEF Extends
<1> QED
  BY <1>5, <1>6, <1>7 DEF k

(* The path s goes on from t by its i-th child.                            *)
Takes(s, t, i) == Extends(s, t) /\ Len(s) > Len(t) /\ s[Len(t) + 1][2] = i

LEMMA ExtendsLonger ==
  ASSUME NEW g \in [Vertex -> Seq(Vertex)], NEW n \in Vertex,
         NEW t \in PathsFrom(g, n), NEW i \in 1 .. Len(g[End(t)]), NEW s \in PathsFrom(g, n)
  PROVE  Extends(s, Longer(g, t, i)) <=> Takes(s, t, i)
<1> DEFINE u == Longer(g, t, i)
           k == Len(t)
<1>1. s \in Paths /\ t \in Paths /\ Valid(g, s)
  BY DEF PathsFrom
<1>2. Len(s) \in Nat /\ k \in Nat \ {0}
  BY <1>1, PathsType
<1>3. /\ Len(u) = k + 1 /\ Agrees(u, t, k)
      /\ u[k + 1] \in Vertex \X Nat /\ u[k + 1][1] = g[End(t)][i] /\ u[k + 1][2] = i
  BY LongerPath
<1> HIDE DEF u
<1>4. ASSUME Extends(s, t), Len(s) > k, s[k + 1][2] = i
      PROVE  s[k + 1] = u[k + 1]
  <2>1. k \in 1 .. Len(s) - 1 /\ k \in 1 .. k
    BY <1>2, <1>4
  <2>2. s[k] = t[k]
    BY <1>4, <2>1 DEF Extends, Agrees
  <2>3. s[k + 1][1] = g[End(t)][i]
    BY <1>1, <1>4, <2>1, <2>2 DEF Valid, End
  <2>4. s[k + 1] \in Vertex \X Nat
    BY <1>1, <1>2, <2>1, PathsType
  <2>5. \A p \in Vertex \X Nat : p = <<p[1], p[2]>>
    OBVIOUS
  <2> QED
    BY <1>3, <1>4, <2>3, <2>4, <2>5, ZenonT(60)
<1>5. Extends(s, u) <=> (Extends(s, t) /\ Len(s) > k /\ s[k + 1] = u[k + 1])
  <2>1. /\ Len(s) \in Nat /\ Len(t) \in Nat \ {0}
        /\ Len(u) = Len(t) + 1 /\ Agrees(u, t, Len(t))
    BY <1>2, <1>3 DEF k
  <2>2. Extends(s, u)
          <=> (Extends(s, t) /\ Len(s) > Len(t) /\ s[Len(t) + 1] = u[Len(t) + 1])
    BY <2>1, CompareLonger, SMTT(30)
  <2> QED
    BY <2>2 DEF k
<1>6. Extends(s, u) <=> (Extends(s, t) /\ Len(s) > k /\ s[k + 1][2] = i)
  BY <1>3, <1>4, <1>5
<1> QED
  BY <1>6 DEF u, k, Takes

(* A path that goes on from another one takes one of its children next.    *)
LEMMA NextStep ==
  ASSUME NEW g \in [Vertex -> Seq(Vertex)], NEW n \in Vertex,
         NEW t \in PathsFrom(g, n), NEW s \in PathsFrom(g, n), Extends(s, t)
  PROVE  s = t \/ (Len(s) > Len(t) /\ s[Len(t) + 1][2] \in 1 .. Len(g[End(t)]))
<1>1. s \in Paths /\ t \in Paths /\ Valid(g, s)
  BY DEF PathsFrom
<1>2. Len(s) \in Nat /\ Len(t) \in Nat \ {0}
  BY <1>1, PathsType
<1>3. CASE Len(s) = Len(t)
  BY <1>1, <1>3, SamePath DEF Extends
<1>4. CASE Len(s) # Len(t)
  <2>1. Len(s) > Len(t) /\ Len(t) \in 1 .. Len(s) - 1 /\ Len(t) \in 1 .. Len(t)
    BY <1>2, <1>4 DEF Extends
  <2>2. s[Len(t)] = t[Len(t)]
    BY <2>1 DEF Extends, Agrees
  <2> QED
    BY <1>1, <2>1, <2>2 DEF Valid, End
<1> QED
  BY <1>3, <1>4

(* Moves of an attaching walk.                                             *)
LEMMA PastEnter ==
  ASSUME NEW g \in [Vertex -> Seq(Vertex)], NEW n \in Vertex,
         NEW t \in PathsFrom(g, n), NEW s \in PathsFrom(g, n)
  PROVE  Past(t, 1, s) <=> Past(t, 0, s)
<1>1. s \in Paths /\ Valid(g, s) /\ t \in Paths
  BY DEF PathsFrom
<1>2. Len(s) \in Nat /\ Len(t) \in Nat \ {0} /\ \A m \in 1 .. Len(s) : s[m][2] \in Nat
  BY <1>1, PathsType
<1>3. Len(s) > Len(t) => s[Len(t) + 1][2] >= 1
  BY <1>1, <1>2 DEF Valid
<1> QED
  BY <1>2, <1>3 DEF Past

LEMMA PastCall ==
  ASSUME NEW g \in [Vertex -> Seq(Vertex)], NEW n \in Vertex,
         NEW t \in PathsFrom(g, n), NEW i \in 1 .. Len(g[End(t)]), NEW s \in PathsFrom(g, n)
  PROVE  Past(Longer(g, t, i), 0, s) <=> Past(t, i, s)
<1> DEFINE u == Longer(g, t, i)
           k == Len(t)
<1>1. s \in Paths /\ t \in Paths
  BY DEF PathsFrom
<1>2. Len(s) \in Nat /\ k \in Nat \ {0} /\ \A m \in 1 .. Len(s) : s[m][2] \in Nat
  BY <1>1, PathsType
<1>3. Len(u) = k + 1 /\ Agrees(u, t, k) /\ u[k + 1][2] = i
  BY LongerPath
<1> HIDE DEF u, k
<1>4. Past(u, 0, s) <=> Branches(s, u)
  <2>1. Len(s) > Len(u) => s[Len(u) + 1][2] \in Nat
    BY <1>2, <1>3
  <2> QED
    BY <2>1 DEF Past
<1>5. Branches(s, u) <=> (Branches(s, t) \/ (Extends(s, t) /\ Len(s) > k /\ s[k + 1][2] < i))
  <2>1. Len(t) = k
    BY DEF k
  <2> QED
    BY <1>2, <1>3, <2>1, CompareLonger
<1> QED
  BY <1>4, <1>5 DEF Past, u, k

LEMMA PastReturn ==
  ASSUME NEW g \in [Vertex -> Seq(Vertex)], NEW n \in Vertex,
         NEW t \in PathsFrom(g, n), NEW i \in 1 .. Len(g[End(t)]), NEW s \in PathsFrom(g, n)
  PROVE  Past(t, i + 1, s)
           <=> (Past(Longer(g, t, i), Len(g[End(Longer(g, t, i))]) + 1, s) \/ s = Longer(g, t, i))
<1>0. Extends(s, Longer(g, t, i)) <=> Takes(s, t, i)
  BY ExtendsLonger
<1> DEFINE u == Longer(g, t, i)
           k == Len(t)
           x == Len(g[End(u)])
<1>1. s \in Paths /\ t \in Paths /\ u \in Paths /\ u \in PathsFrom(g, n)
  BY LongerPath DEF PathsFrom
<1>2. /\ Len(s) \in Nat /\ k \in Nat \ {0} /\ \A m \in 1 .. Len(s) : s[m][2] \in Nat
      /\ x \in Nat
  BY <1>1, PathsType, GraphType
<1>3. Len(u) = k + 1 /\ Agrees(u, t, k) /\ u[k + 1][2] = i
  BY LongerPath
<1>4. i \in Nat
  BY <1>1, PathsType, GraphType
<1>5. Extends(s, u) <=> (Extends(s, t) /\ Len(s) > k /\ s[k + 1][2] = i)
  BY <1>0 DEF Takes
<1> HIDE DEF u, k
<1>6. Len(t) = k
  BY DEF k
<1>7. Branches(s, u) <=> (Branches(s, t) \/ (Extends(s, t) /\ Len(s) > k /\ s[k + 1][2] < i))
  BY <1>2, <1>3, <1>6, CompareLonger
<1>8. (Past(u, x + 1, s) \/ s = u) <=> (Branches(s, u) \/ Extends(s, u))
  <2>1. ASSUME Extends(s, u), s # u
        PROVE  Len(s) > Len(u) /\ s[Len(u) + 1][2] < x + 1
    <3>1. Len(s) > Len(u) /\ s[Len(u) + 1][2] \in 1 .. x
      BY <1>1, <2>1, NextStep
    <3> QED
      BY <1>2, <3>1
  <2>2. Extends(u, u)
    BY <1>2, <1>3 DEF Extends, Agrees
  <2> QED
    BY <2>1, <2>2 DEF Past
<1>9. Past(t, i + 1, s) <=> (Branches(s, t) \/ (Extends(s, t) /\ Len(s) > k /\ s[k + 1][2] < i + 1))
  BY <1>6 DEF Past
<1>10. Len(s) > k => (s[k + 1][2] < i + 1 <=> (s[k + 1][2] < i \/ s[k + 1][2] = i))
  <2>1. Len(s) > k => s[k + 1][2] \in Nat
    BY <1>2
  <2> QED
    BY <1>4, <2>1
<1>11. Past(t, i + 1, s) <=> (Past(u, x + 1, s) \/ s = u)
  BY <1>5, <1>7, <1>8, <1>9, <1>10
<1> QED
  BY <1>11 DEF u

(* The path the walk stands at is not done.                                *)
LEMMA NotPast ==
  ASSUME NEW t \in Paths, NEW x
  PROVE  ~Past(t, x, t)
<1>1. Len(t) \in Nat \ {0} /\ \A m \in 1 .. Len(t) : t[m][2] \in Nat
  BY PathsType
<1>2. ~Branches(t, t)
  <2>1. \A m \in 2 .. Len(t) : t[m][2] \in Nat
    BY <1>1
  <2> QED
    BY <2>1 DEF Branches
<1> QED
  BY <1>1, <1>2 DEF Past

(* Moves of a detaching walk.                                              *)
LEMMA PendEnter ==
  ASSUME NEW g \in [Vertex -> Seq(Vertex)], NEW n \in Vertex,
         NEW t \in PathsFrom(g, n), NEW s \in PathsFrom(g, n)
  PROVE  Pend(t, 1, s) <=> Pend(t, 0, s) /\ s # t
<1>1. s \in Paths /\ t \in Paths /\ Valid(g, s)
  BY DEF PathsFrom
<1>2. Len(s) \in Nat /\ Len(t) \in Nat \ {0} /\ \A m \in 1 .. Len(t) : t[m][2] \in Nat
  BY <1>1, PathsType
<1>3. ~Branches(t, t)
  <2>1. \A m \in 2 .. Len(t) : t[m][2] \in Nat
    BY <1>2
  <2> QED
    BY <2>1 DEF Branches
<1>4. Extends(s, t) => s = t \/ (Len(s) > Len(t) /\ s[Len(t) + 1][2] >= 1)
  <2>1. Len(g[End(t)]) \in Nat
    BY <1>1, PathsType, GraphType
  <2>2. Extends(s, t) => s = t \/ (Len(s) > Len(t) /\ s[Len(t) + 1][2] \in 1 .. Len(g[End(t)]))
    BY NextStep
  <2> QED
    BY <2>1, <2>2
<1>5. ~ Len(t) > Len(t)
  BY <1>2
<1> QED
  BY <1>3, <1>4, <1>5 DEF Pend

LEMMA PendCall ==
  ASSUME NEW g \in [Vertex -> Seq(Vertex)], NEW n \in Vertex,
         NEW t \in PathsFrom(g, n), NEW i \in 1 .. Len(g[End(t)]), NEW s \in PathsFrom(g, n)
  PROVE  Pend(Longer(g, t, i), 0, s) <=> Pend(t, i, s)
<1>0. Extends(s, Longer(g, t, i)) <=> Takes(s, t, i)
  BY ExtendsLonger
<1> DEFINE u == Longer(g, t, i)
           k == Len(t)
<1>1. s \in Paths /\ t \in Paths
  BY DEF PathsFrom
<1>2. Len(s) \in Nat /\ k \in Nat \ {0} /\ (\A m \in 1 .. Len(s) : s[m][2] \in Nat) /\ i \in Nat \ {0}
  BY <1>1, PathsType, GraphType, SMTT(30)
<1>3. Len(u) = k + 1 /\ Agrees(u, t, k) /\ u[k + 1][2] = i
  BY LongerPath
<1>4. Extends(s, u) <=> (Extends(s, t) /\ Len(s) > k /\ s[k + 1][2] = i)
  BY <1>0 DEF Takes
<1> HIDE DEF u, k
<1>5. Len(t) = k
  BY DEF k
<1>6. Branches(u, s) <=> (Branches(t, s) \/ (Extends(s, t) /\ Len(s) > k /\ i < s[k + 1][2]))
  BY <1>2, <1>3, <1>5, CompareLonger
<1>7. Len(s) > k => (s[k + 1][2] >= i <=> (i < s[k + 1][2] \/ s[k + 1][2] = i))
  <2>1. Len(s) > k => s[k + 1][2] \in Nat
    BY <1>2
  <2> QED
    BY <1>2, <2>1
<1>8. Pend(u, 0, s) <=> Branches(u, s) \/ Extends(s, u)
  BY DEF Pend
<1>9. Pend(t, i, s) <=> (Branches(t, s) \/ (Extends(s, t) /\ Len(s) > k /\ s[k + 1][2] >= i))
  BY <1>2, <1>5 DEF Pend
<1>10. Pend(u, 0, s) <=> Pend(t, i, s)
  BY <1>4, <1>6, <1>7, <1>8, <1>9
<1> QED
  BY <1>10 DEF u

LEMMA PendReturn ==
  ASSUME NEW g \in [Vertex -> Seq(Vertex)], NEW n \in Vertex,
         NEW t \in PathsFrom(g, n), NEW i \in 1 .. Len(g[End(t)]), NEW s \in PathsFrom(g, n)
  PROVE  /\ Pend(t, i + 1, s)
               <=> Pend(Longer(g, t, i), Len(g[End(Longer(g, t, i))]) + 1, s)
         /\ Pend(t, i + 1, s) \/ Extends(s, Longer(g, t, i)) <=> Pend(Longer(g, t, i), 0, s)
<1> DEFINE u == Longer(g, t, i)
           k == Len(t)
           x == Len(g[End(u)])
<1>1. s \in Paths /\ t \in Paths /\ u \in Paths /\ u \in PathsFrom(g, n)
  BY LongerPath DEF PathsFrom
<1>2. /\ Len(s) \in Nat /\ k \in Nat \ {0} /\ \A m \in 1 .. Len(s) : s[m][2] \in Nat
      /\ x \in Nat /\ i \in Nat \ {0}
  <2>1. End(t) \in Vertex /\ End(u) \in Vertex
    BY <1>1, PathsType
  <2>2. x \in Nat /\ i \in Nat \ {0}
    BY <2>1, GraphType
  <2> QED
    BY <1>1, <2>2, PathsType
<1>3. Len(u) = k + 1 /\ Agrees(u, t, k) /\ u[k + 1][2] = i
  BY LongerPath
<1> HIDE DEF u, k
<1>4. Len(t) = k
  BY DEF k
<1>5. Branches(u, s) <=> (Branches(t, s) \/ (Extends(s, t) /\ Len(s) > k /\ i < s[k + 1][2]))
  BY <1>2, <1>3, <1>4, CompareLonger
<1>6. Len(s) > k => (s[k + 1][2] >= i + 1 <=> i < s[k + 1][2])
  <2>1. Len(s) > k => s[k + 1][2] \in Nat
    BY <1>2
  <2> QED
    BY <1>2, <2>1
<1>7. Pend(u, x + 1, s) <=> Branches(u, s)
  <2>1. ~(Extends(s, u) /\ Len(s) > Len(u) /\ s[Len(u) + 1][2] >= x + 1)
    <3> SUFFICES ASSUME Extends(s, u), Len(s) > Len(u), s[Len(u) + 1][2] >= x + 1
                 PROVE  FALSE
      OBVIOUS
    <3>1. s # u
      BY <1>2, <1>3
    <3>2. s[Len(u) + 1][2] \in 1 .. x
      BY <1>1, <3>1, NextStep
    <3> QED
      BY <1>2, <3>2
  <2> QED
    BY <1>2, <2>1 DEF Pend
<1>8. Pend(t, i + 1, s) <=> (Branches(t, s) \/ (Extends(s, t) /\ Len(s) > k /\ s[k + 1][2] >= i + 1))
  BY <1>2, <1>4 DEF Pend
<1>9. Pend(t, i + 1, s) <=> Branches(u, s)
  BY <1>5, <1>6, <1>8
<1>10. Pend(u, 0, s) <=> Branches(u, s) \/ Extends(s, u)
  BY DEF Pend
<1> QED
  BY <1>7, <1>9, <1>10 DEF u

(* Once the walk is through with the children of the root, or stands at    *)
(* it, every other path is done.                                           *)
LEMMA FromRoot ==
  ASSUME NEW g \in [Vertex -> Seq(Vertex)], NEW n \in Vertex,
         NEW t \in PathsFrom(g, n), Len(t) = 1, NEW s \in PathsFrom(g, n)
  PROVE  /\ End(t) = n /\ Extends(s, t) /\ Pend(t, 0, s)
         /\ Past(t, Len(g[n]) + 1, s) \/ s = t
         /\ ~Past(t, 0, s) /\ ~Pend(t, Len(g[n]) + 1, s)
<1>1. s \in Paths /\ t \in Paths /\ Valid(g, s) /\ s[1] = <<n, 0>> /\ t[1] = <<n, 0>>
  BY DEF PathsFrom
<1>2. /\ Len(s) \in Nat \ {0} /\ \A m \in 1 .. Len(s) : s[m][2] \in Nat
      /\ Len(g[n]) \in Nat
  BY <1>1, PathsType
<1>3. End(t) = n
  BY <1>1 DEF End
<1>4. Extends(s, t)
  <2>1. s[1] = t[1] /\ Len(s) >= Len(t)
    BY <1>1, <1>2
  <2> QED
    BY <2>1 DEF Extends, Agrees
<1>5. s # t => Len(s) > 1
  BY <1>3, <1>4, NextStep
<1>6. Len(s) > 1 => s[2][2] \in 1 .. Len(g[n]) /\ s[2][2] \in Nat
  <2>1. Len(s) > 1 => s # t
    BY <1>2
  <2>2. Len(t) + 1 = 2
    OBVIOUS
  <2>3. Len(s) > 1 => s[2][2] \in 1 .. Len(g[n])
    BY <1>3, <1>4, <2>1, <2>2, NextStep
  <2> QED
    BY <1>2, <2>3
<1>7. ~Branches(s, t)
  BY DEF Branches
<1>8. ~Branches(t, s)
  BY <1>2 DEF Branches
<1> QED
  BY <1>2, <1>3, <1>4, <1>5, <1>6, <1>7, <1>8 DEF Past, Pend

(***************************************************************************)
(* What the walks leave attached                                           *)
(*                                                                         *)
(* Q is a set of paths from n in the graph g.  An attaching walk has taken *)
(* the paths it is done with.  What is left of an attachment that failed   *)
(* has every path that comes sooner than one of its own, and so has what a *)
(* detaching walk has yet to enter.                                        *)
(***************************************************************************)
Attaching(g, n, t, x, Q) == Q = {s \in PathsFrom(g, n) : Past(t, x, s)}

Refusable(g, n, Q) ==
  /\ Q \subseteq PathsFrom(g, n)
  /\ \A s \in Q, b \in PathsFrom(g, n) : Sooner(b, s) => b \in Q

Detaching(g, n, t, x, Q) ==
  /\ Q \subseteq {s \in PathsFrom(g, n) : Pend(t, x, s)}
  /\ \A s \in Q, b \in PathsFrom(g, n) : Pend(t, x, b) /\ Sooner(b, s) => b \in Q

(* An attachment goes through the graph.                                   *)
LEMMA AttachingStarts ==
  ASSUME NEW g \in [Vertex -> Seq(Vertex)], NEW n \in Vertex,
         NEW t \in PathsFrom(g, n), Len(t) = 1
  PROVE  Attaching(g, n, t, 0, {})
  BY FromRoot DEF Attaching

LEMMA AttachingEnters ==
  ASSUME NEW g \in [Vertex -> Seq(Vertex)], NEW n \in Vertex, NEW t \in PathsFrom(g, n),
         NEW Q, Attaching(g, n, t, 0, Q)
  PROVE  Attaching(g, n, t, 1, Q)
  BY PastEnter DEF Attaching

LEMMA AttachingCalls ==
  ASSUME NEW g \in [Vertex -> Seq(Vertex)], NEW n \in Vertex, NEW t \in PathsFrom(g, n),
         NEW i \in 1 .. Len(g[End(t)]), NEW Q, Attaching(g, n, t, i, Q)
  PROVE  Attaching(g, n, Longer(g, t, i), 0, Q)
  BY PastCall DEF Attaching

LEMMA AttachingReturns ==
  ASSUME NEW g \in [Vertex -> Seq(Vertex)], NEW n \in Vertex, NEW t \in PathsFrom(g, n),
         NEW i \in 1 .. Len(g[End(t)]), NEW Q,
         Attaching(g, n, Longer(g, t, i), Len(g[End(Longer(g, t, i))]) + 1, Q)
  PROVE  Attaching(g, n, t, i + 1, Q \union {Longer(g, t, i)})
<1> DEFINE u == Longer(g, t, i)
           x == Len(g[End(u)]) + 1
<1>1. u \in PathsFrom(g, n)
  BY LongerPath
<1>2. \A s \in PathsFrom(g, n) : Past(t, i + 1, s) <=> (Past(u, x, s) \/ s = u)
  BY PastReturn
<1>3. Q = {s \in PathsFrom(g, n) : Past(u, x, s)}
  BY DEF Attaching
<1> HIDE DEF u, x
<1>4. Q \union {u} = {s \in PathsFrom(g, n) : Past(t, i + 1, s)}
  BY <1>1, <1>2, <1>3
<1> QED
  BY <1>4 DEF Attaching, u

LEMMA AttachingEnds ==
  ASSUME NEW g \in [Vertex -> Seq(Vertex)], NEW n \in Vertex, NEW t \in PathsFrom(g, n), Len(t) = 1,
         NEW Q, Attaching(g, n, t, Len(g[End(t)]) + 1, Q)
  PROVE  Q \union {t} = PathsFrom(g, n)
<1>1. End(t) = n
  BY FromRoot
<1> QED
  BY <1>1, FromRoot DEF Attaching

(* One that fails leaves what a detachment takes back.                     *)
LEMMA AttachingFails ==
  ASSUME NEW g \in [Vertex -> Seq(Vertex)], NEW n \in Vertex, NEW t \in PathsFrom(g, n),
         NEW x \in Nat, NEW Q, Attaching(g, n, t, x, Q)
  PROVE  Refusable(g, n, Q)
<1> SUFFICES ASSUME NEW s \in PathsFrom(g, n), Past(t, x, s), NEW b \in PathsFrom(g, n), Sooner(b, s)
             PROVE  Past(t, x, b)
  BY DEF Attaching, Refusable
<1>1. s \in Paths /\ t \in Paths /\ b \in Paths /\ b[1] = s[1]
  BY DEF PathsFrom
<1>2. /\ Len(s) \in Nat \ {0} /\ Len(t) \in Nat \ {0} /\ Len(b) \in Nat \ {0}
      /\ \A m \in 1 .. Len(s) : s[m][2] \in Nat
      /\ \A m \in 1 .. Len(t) : t[m][2] \in Nat
      /\ \A m \in 1 .. Len(b) : b[m][2] \in Nat
  BY <1>1, PathsType
<1>3. ASSUME Branches(s, t)
      PROVE  Branches(b, t)
  <2>1. PICK m \in 2 .. Len(t) : m <= Len(s) /\ Agrees(s, t, m - 1) /\ s[m][2] < t[m][2]
    BY <1>3 DEF Branches
  <2>2. CASE Extends(b, s)
    <3>1. Len(b) >= Len(s) /\ \A j \in 1 .. Len(s) : b[j] = s[j]
      BY <2>2 DEF Extends, Agrees
    <3>2. m \in 1 .. Len(s) /\ m <= Len(b) /\ \A j \in 1 .. m - 1 : j \in 1 .. Len(s)
      BY <1>2, <2>1, <3>1
    <3>3. \A j \in 1 .. m - 1 : b[j] = t[j]
      BY <2>1, <3>1, <3>2 DEF Agrees
    <3> QED
      BY <2>1, <3>1, <3>2, <3>3 DEF Branches, Agrees
  <2>3. CASE Branches(b, s)
    <3>1. PICK l \in 2 .. Len(s) : l <= Len(b) /\ Agrees(b, s, l - 1) /\ b[l][2] < s[l][2]
      BY <2>3 DEF Branches
    <3>2. CASE l < m
      <4>1. Agrees(b, t, l - 1) /\ s[l] = t[l] /\ l \in 2 .. Len(t)
        BY <1>2, <2>1, <3>1, <3>2 DEF Agrees
      <4> QED
        BY <3>1, <4>1 DEF Branches
    <3>3. CASE l = m
      <4>1. Agrees(b, t, m - 1)
        BY <1>2, <2>1, <3>1, <3>3 DEF Agrees
      <4>2. b[m][2] \in Nat /\ s[m][2] \in Nat /\ t[m][2] \in Nat
        BY <1>2, <2>1, <3>1, <3>3
      <4>3. b[m][2] < t[m][2]
        BY <2>1, <3>1, <3>3, <4>2
      <4> QED
        BY <3>1, <3>3, <4>1, <4>3 DEF Branches
    <3>4. CASE l > m
      <4>1. Agrees(b, t, m - 1) /\ b[m] = s[m] /\ m <= Len(b)
        BY <1>2, <2>1, <3>1, <3>4 DEF Agrees
      <4> QED
        BY <2>1, <4>1 DEF Branches
    <3> QED
      BY <3>2, <3>3, <3>4
  <2> QED
    BY <2>2, <2>3 DEF Sooner
<1>4. ASSUME Extends(s, t), Len(s) > Len(t), s[Len(t) + 1][2] < x
      PROVE  Past(t, x, b)
  <2> DEFINE m == Len(t) + 1
  <2>1. m \in 2 .. Len(s) /\ m - 1 = Len(t) /\ m \in Nat /\ \A j \in 1 .. m - 1 : s[j] = t[j]
    <3>1. m \in 2 .. Len(s) /\ m - 1 = Len(t) /\ m \in Nat
      BY <1>2, <1>4
    <3>2. \A j \in 1 .. Len(t) : s[j] = t[j]
      BY <1>4 DEF Extends, Agrees
    <3> QED
      BY <3>1, <3>2
  <2> HIDE DEF m
  <2>2. CASE Extends(b, s)
    <3>1. Len(b) >= Len(s) /\ \A j \in 1 .. Len(s) : b[j] = s[j]
      BY <2>2 DEF Extends, Agrees
    <3>2. Len(b) > Len(t) /\ \A j \in 1 .. Len(t) : j \in 1 .. Len(s) /\ j \in 1 .. m - 1
      BY <1>2, <2>1, <3>1
    <3>3. b[m] = s[m] /\ \A j \in 1 .. Len(t) : b[j] = t[j]
      BY <1>2, <2>1, <3>1, <3>2
    <3>4. Extends(b, t)
      BY <1>2, <3>2, <3>3 DEF Extends, Agrees
    <3> QED
      BY <1>4, <3>2, <3>3, <3>4 DEF Past, m
  <2>3. CASE Branches(b, s)
    <3>1. PICK l \in 2 .. Len(s) : l <= Len(b) /\ Agrees(b, s, l - 1) /\ b[l][2] < s[l][2]
      BY <2>3 DEF Branches
    <3>2. CASE l < m
      <4>1. Agrees(b, t, l - 1) /\ s[l] = t[l] /\ l \in 2 .. Len(t)
        BY <1>2, <2>1, <3>1, <3>2 DEF Agrees
      <4>2. Branches(b, t)
        BY <3>1, <4>1 DEF Branches
      <4> QED
        BY <4>2 DEF Past
    <3>3. CASE l = m
      <4>1. Extends(b, t) /\ Len(b) > Len(t)
        BY <1>2, <2>1, <3>1, <3>3 DEF Agrees, Extends
      <4>2. b[m][2] \in Nat /\ s[m][2] \in Nat
        BY <1>2, <2>1, <3>1, <3>3
      <4>3. b[m][2] < x
        BY <1>4, <3>1, <3>3, <4>2 DEF m
      <4> QED
        BY <4>1, <4>3 DEF Past, m
    <3>4. CASE l > m
      <4>1. Extends(b, t) /\ b[m] = s[m] /\ Len(b) > Len(t)
        BY <1>2, <2>1, <3>1, <3>4 DEF Agrees, Extends
      <4> QED
        BY <1>4, <4>1 DEF Past, m
    <3> QED
      BY <1>2, <2>1, <3>2, <3>3, <3>4
  <2> QED
    BY <2>2, <2>3 DEF Sooner
<1> QED
  BY <1>3, <1>4 DEF Past

LEMMA AllIsRefusable ==
  ASSUME NEW g, NEW n
  PROVE  Refusable(g, n, PathsFrom(g, n)) /\ Refusable(g, n, {})
  BY DEF Refusable

(* A detachment goes through the graph.                                    *)
LEMMA DetachingStarts ==
  ASSUME NEW g \in [Vertex -> Seq(Vertex)], NEW n \in Vertex,
         NEW t \in PathsFrom(g, n), Len(t) = 1, NEW Q, Refusable(g, n, Q)
  PROVE  Detaching(g, n, t, 0, Q)
  BY FromRoot DEF Detaching, Refusable

LEMMA DetachingEnters ==
  ASSUME NEW g \in [Vertex -> Seq(Vertex)], NEW n \in Vertex, NEW t \in PathsFrom(g, n),
         NEW Q, Detaching(g, n, t, 0, Q)
  PROVE  Detaching(g, n, t, 1, Q \ {t})
  BY PendEnter DEF Detaching

LEMMA DetachingCalls ==
  ASSUME NEW g \in [Vertex -> Seq(Vertex)], NEW n \in Vertex, NEW t \in PathsFrom(g, n),
         NEW i \in 1 .. Len(g[End(t)]), NEW Q, Detaching(g, n, t, i, Q)
  PROVE  Detaching(g, n, Longer(g, t, i), 0, Q)
  BY PendCall DEF Detaching

LEMMA DetachingReturns ==
  ASSUME NEW g \in [Vertex -> Seq(Vertex)], NEW n \in Vertex, NEW t \in PathsFrom(g, n),
         NEW i \in 1 .. Len(g[End(t)]), NEW Q,
         Detaching(g, n, Longer(g, t, i), Len(g[End(Longer(g, t, i))]) + 1, Q)
  PROVE  Detaching(g, n, t, i + 1, Q)
  BY PendReturn DEF Detaching

LEMMA DetachingSkips ==
  ASSUME NEW g \in [Vertex -> Seq(Vertex)], NEW n \in Vertex, NEW t \in PathsFrom(g, n),
         NEW i \in 1 .. Len(g[End(t)]), NEW Q,
         Detaching(g, n, Longer(g, t, i), 0, Q), \A s \in Q : ~Extends(s, Longer(g, t, i))
  PROVE  Detaching(g, n, t, i + 1, Q)
  BY PendReturn DEF Detaching

LEMMA DetachingEnds ==
  ASSUME NEW g \in [Vertex -> Seq(Vertex)], NEW n \in Vertex, NEW t \in PathsFrom(g, n), Len(t) = 1,
         NEW Q
  PROVE  /\ Detaching(g, n, t, Len(g[End(t)]) + 1, Q) => Q = {}
         /\ Detaching(g, n, t, 0, Q) /\ (\A s \in Q : ~Extends(s, t)) => Q = {}
<1>1. End(t) = n
  BY FromRoot
<1> QED
  BY <1>1, FromRoot DEF Detaching

Carried(g, Q) == \A s \in Q : \A i \in 1 .. Len(g[End(s)]) : Longer(g, s, i) \in Q

LEMMA PendExtends ==
  ASSUME NEW t \in Paths, NEW x \in Nat, NEW s \in Paths, NEW b \in Paths,
         Pend(t, x, s), Extends(b, s)
  PROVE  Pend(t, x, b)
<1>1. Len(s) \in Nat \ {0} /\ Len(t) \in Nat \ {0} /\ Len(b) \in Nat \ {0}
  BY PathsType
<1>2. Len(b) >= Len(s) /\ \A m \in 1 .. Len(s) : b[m] = s[m]
  BY DEF Extends, Agrees
<1>3. CASE Branches(t, s)
  <2>1. PICK m \in 2 .. Len(s) : m <= Len(t) /\ Agrees(t, s, m - 1) /\ t[m][2] < s[m][2]
    BY <1>3 DEF Branches
  <2>2. m \in 2 .. Len(b) /\ Agrees(t, b, m - 1) /\ b[m] = s[m]
    BY <1>1, <1>2, <2>1 DEF Agrees
  <2> QED
    BY <2>1, <2>2 DEF Branches, Pend
<1>4. CASE Extends(s, t) /\ (x > 0 => Len(s) > Len(t) /\ s[Len(t) + 1][2] >= x)
  <2>1. Len(s) >= Len(t) /\ \A m \in 1 .. Len(t) : s[m] = t[m]
    BY <1>4 DEF Extends, Agrees
  <2>2. Extends(b, t)
    BY <1>1, <1>2, <2>1 DEF Extends, Agrees
  <2>3. Len(s) > Len(t) => Len(b) > Len(t) /\ b[Len(t) + 1] = s[Len(t) + 1]
    BY <1>1, <1>2
  <2> QED
    BY <1>4, <2>2, <2>3 DEF Pend
<1> QED
  BY <1>3, <1>4 DEF Pend

LEMMA LeftIsClosed ==
  ASSUME NEW g \in [Vertex -> Seq(Vertex)], NEW n, NEW t \in Paths, NEW x \in Nat, NEW Q
  PROVE  /\ Refusable(g, n, Q) => Carried(g, Q)
         /\ Detaching(g, n, t, x, Q) => Carried(g, Q)
<1>1. ASSUME NEW s \in PathsFrom(g, n), NEW i \in 1 .. Len(g[End(s)])
      PROVE  LET u == Longer(g, s, i)
             IN  u \in PathsFrom(g, n) /\ Extends(u, s) /\ s \in Paths /\ u \in Paths
  <2>1. s \in Paths /\ s[1] = <<n, 0>>
    BY DEF PathsFrom
  <2>2. Len(s) \in Nat \ {0} /\ 1 \in 1 .. Len(s)
    BY <2>1, PathsType
  <2>3. s[1][1] \in Vertex
    BY <2>1, <2>2, PathsType
  <2>4. n \in Vertex
    BY <2>1, <2>3
  <2>5. /\ Longer(g, s, i) \in PathsFrom(g, n) /\ Len(Longer(g, s, i)) = Len(s) + 1
        /\ Agrees(Longer(g, s, i), s, Len(s))
    BY <2>4, LongerPath
  <2> QED
    BY <2>1, <2>2, <2>5 DEF Extends, PathsFrom
<1>2. ASSUME Refusable(g, n, Q), NEW s \in Q, NEW i \in 1 .. Len(g[End(s)])
      PROVE  Longer(g, s, i) \in Q
  <2>1. s \in PathsFrom(g, n)
    BY <1>2 DEF Refusable
  <2>2. Longer(g, s, i) \in PathsFrom(g, n) /\ Extends(Longer(g, s, i), s)
    BY <1>1, <2>1
  <2> QED
    BY <1>2, <2>1, <2>2 DEF Refusable, Sooner
<1>3. ASSUME Detaching(g, n, t, x, Q), NEW s \in Q, NEW i \in 1 .. Len(g[End(s)])
      PROVE  Longer(g, s, i) \in Q
  <2>1. s \in PathsFrom(g, n) /\ Pend(t, x, s)
    BY <1>3 DEF Detaching
  <2> DEFINE u == Longer(g, s, i)
  <2>2. u \in PathsFrom(g, n) /\ Extends(u, s) /\ s \in Paths /\ u \in Paths
    BY <1>1, <2>1
  <2> HIDE DEF u
  <2>3. Pend(t, x, u)
    BY <2>1, <2>2, PendExtends
  <2>4. u \in Q
    BY <1>3, <2>2, <2>3 DEF Detaching, Sooner
  <2> QED
    BY <2>4 DEF u
<1> QED
  BY <1>2, <1>3 DEF Carried

LEMMA LongestExists ==
  ASSUME NEW S, IsFiniteSet(S), S # {}, \A s \in S : Len(s) \in Nat
  PROVE  \E a \in S : \A b \in S : Len(b) <= Len(a)
<1> DEFINE After(a) == {b \in S : Len(b) > Len(a)}
           B == {After(a) : a \in S}
<1>1. B \in SUBSET SUBSET S /\ B # {}
  OBVIOUS
<1>2. PICK s \in B : \A t \in B : t \subseteq s => t = s
  <2> HIDE DEF B
  <2> QED
    BY <1>1, MinimalSubset
<1>3. PICK a \in S : s = After(a)
  BY <1>2
<1>4. ASSUME NEW b \in S, Len(b) > Len(a)
      PROVE  FALSE
  <2>1. After(b) \in B /\ b \in After(a) /\ b \notin After(b)
    BY <1>4
  <2>2. After(b) \subseteq After(a)
    BY <1>4
  <2> HIDE DEF B, After
  <2> QED
    BY <1>2, <1>3, <2>1, <2>2
<1> QED
  BY <1>4

(* A detaching walk that enters a node some path of Q ends at stands at a  *)
(* path of Q itself: it meets the paths in the order of the attachment.    *)
LEMMA DetachingFinds ==
  ASSUME NEW g \in [Vertex -> Seq(Vertex)], NEW n \in Vertex, NEW t \in PathsFrom(g, n),
         NEW Q, Detaching(g, n, t, 0, Q), IsFiniteSet(Q), \E a \in Q : End(a) = End(t)
  PROVE  t \in Q
<1> DEFINE S == {a \in Q : End(a) = End(t)}
           k == Len(t)
<1>1. t \in Paths /\ Q \subseteq PathsFrom(g, n) /\ Q \subseteq Paths
  BY DEF Detaching, PathsFrom
<1>2. \A s \in Q : Len(s) \in Nat \ {0}
  BY <1>1, PathsType
<1>3. PICK a \in S : \A b \in S : Len(b) <= Len(a)
  <2>1. IsFiniteSet(S) /\ S # {} /\ \A s \in S : Len(s) \in Nat
    BY <1>2, FS_Subset
  <2> HIDE DEF S
  <2> QED
    BY <2>1, LongestExists
<1>4. a \in Q /\ End(a) = End(t) /\ a \in PathsFrom(g, n) /\ a \in Paths /\ Pend(t, 0, a)
      /\ Len(a) \in Nat \ {0} /\ k \in Nat \ {0}
  BY <1>1, <1>2, <1>3, PathsType DEF Detaching
<1>5. CASE Branches(t, a)
  <2>1. Pend(t, 0, t)
    BY <1>4 DEF Pend, Extends, Agrees
  <2> QED
    BY <1>4, <1>5, <2>1 DEF Detaching, Sooner
<1>6. CASE Extends(a, t) /\ Len(a) = k
  BY <1>1, <1>4, <1>6, SamePath DEF Extends
<1>7. CASE Extends(a, t) /\ Len(a) > k
  <2> DEFINE l == Len(a)
             d == l + l - k
             b == [m \in 1 .. d |-> IF m <= l THEN a[m] ELSE a[m - l + k]]
  <2>1. l \in Nat /\ l > k /\ a \in Seq(Vertex \X Nat)
    BY <1>4, <1>7, PathsType
  <2>2. \A m \in 1 .. l : a[m] \in Vertex \X Nat
    BY <1>4, PathsType
  <2> HIDE DEF k, l
  <2>0. d \in Nat /\ d > l /\ d = l + l - k
    BY <1>4, <2>1
  <2> HIDE DEF d
  <2>3. \A m \in 1 .. d : (m <= l => m \in 1 .. l) /\ (m > l => m - l + k \in 1 .. l)
    BY <1>4, <2>0, <2>1
  <2>4. b \in [1 .. d -> Vertex \X Nat]
    <3>1. ASSUME NEW m \in 1 .. d
          PROVE  (IF m <= l THEN a[m] ELSE a[m - l + k]) \in Vertex \X Nat
      BY <2>0, <2>1, <2>2, <2>3
    <3> QED
      BY <3>1
  <2>5. b \in Seq(Vertex \X Nat) /\ Len(b) = d
    <3> HIDE DEF b
    <3> QED
      BY <2>0, <2>4
  <2>6. b \in Paths
    <3> HIDE DEF b
    <3>1. b # <<>>
      BY <2>0, <2>1, <2>5, EmptySeq
    <3> QED
      BY <2>5, <3>1 DEF Paths
  <2>7. \A m \in 1 .. l : b[m] = a[m]
    BY <1>4, <2>0, <2>1
  <2>8. \A m \in l + 1 .. d : b[m] = a[m - l + k]
    BY <1>4, <2>0, <2>1
  <2> HIDE DEF b
  <2>9. Len(a) = l /\ Len(t) = k
    BY DEF l, k
  <2>10. a[k] = t[k] /\ a[l][1] = t[k][1] /\ k \in 1 .. l
    <3>1. k \in 1 .. k
      BY <1>4
    <3> QED
      BY <1>4, <1>7, <2>1, <2>9, <3>1 DEF Extends, Agrees, End
  <2>11. Valid(g, b)
    <3> SUFFICES ASSUME NEW m \in 1 .. d - 1
                 PROVE  /\ b[m + 1][2] \in 1 .. Len(g[b[m][1]])
                        /\ b[m + 1][1] = g[b[m][1]][b[m + 1][2]]
      BY <2>0, <2>5 DEF Valid
    <3>1. Valid(g, a)
      BY <1>4 DEF PathsFrom
    <3>2. CASE m < l
      <4>1. m \in 1 .. l - 1 /\ m \in 1 .. l /\ m + 1 \in 1 .. l
        BY <1>4, <2>0, <2>1, <3>2
      <4> QED
        BY <2>7, <2>9, <3>1, <4>1 DEF Valid
    <3>3. CASE m = l
      <4>1. m \in 1 .. l /\ m + 1 \in l + 1 .. d /\ m + 1 - l + k = k + 1 /\ k \in 1 .. l - 1
        BY <1>4, <2>0, <2>1, <3>3
      <4>2. b[m] = a[l] /\ b[m + 1] = a[k + 1]
        BY <2>7, <2>8, <3>3, <4>1
      <4>3. b[m][1] = a[k][1]
        BY <2>10, <4>2
      <4> QED
        BY <2>9, <3>1, <4>1, <4>2, <4>3 DEF Valid
    <3>4. CASE m > l
      <4>0. m \in Int /\ l \in Int /\ k \in Int /\ 1 <= m /\ m <= d - 1 /\ m > l
            /\ l > k /\ k >= 1 /\ d = l + l - k
        BY <1>4, <2>0, <2>1, <3>4
      <4> DEFINE j == m - l + k
      <4>1. m \in l + 1 .. d /\ m + 1 \in l + 1 .. d /\ m + 1 - l + k = j + 1
            /\ j \in 1 .. l - 1
        BY <4>0
      <4>2. b[m] = a[j] /\ b[m + 1] = a[j + 1]
        <5>1. b[m] = a[j]
          BY <2>8, <4>1
        <5>2. PICK p \in l + 1 .. d : p = m + 1
          BY <4>1
        <5>3. b[p] = a[p - l + k]
          BY <2>8
        <5>4. p - l + k = j + 1
          BY <4>0, <5>2
        <5> QED
          BY <5>1, <5>2, <5>3, <5>4
      <4> HIDE DEF j
      <4> QED
        BY <2>9, <3>1, <4>1, <4>2 DEF Valid
    <3> QED
      BY <2>0, <2>1, <3>2, <3>3, <3>4
  <2>12. Extends(b, a)
    BY <1>4, <2>0, <2>1, <2>5, <2>7, <2>9 DEF Extends, Agrees
  <2>13. b \in Q
    <3>1. 1 \in 1 .. l
      BY <2>1, <1>4
    <3>2. b \in PathsFrom(g, n)
      BY <1>4, <2>6, <2>7, <2>11, <3>1 DEF PathsFrom
    <3>3. Pend(t, 0, b)
      BY <1>1, <1>4, <2>6, <2>12, PendExtends
    <3> QED
      BY <1>4, <2>12, <3>2, <3>3 DEF Detaching, Sooner
  <2>14. End(b) = End(t)
    <3>1. d \in l + 1 .. d /\ d - l + k = l
      BY <1>4, <2>0, <2>1
    <3>2. b[Len(b)] = a[l]
      BY <2>5, <2>8, <3>1
    <3> QED
      BY <1>4, <2>9, <3>2 DEF End
  <2>15. Len(b) <= Len(a)
    BY <1>3, <2>13, <2>14
  <2> QED
    BY <1>4, <2>0, <2>1, <2>5, <2>9, <2>15
<1> QED
  BY <1>4, <1>5, <1>6, <1>7 DEF Pend, Extends

(***************************************************************************)
(* The call stack                                                          *)
(***************************************************************************)
Calls(s) == {s[i] : i \in DOMAIN s}

(* The running call, and what returning from it leaves on the stack.       *)
LEMMA StackTop ==
  ASSUME NEW s \in Seq(CallFrame), s # <<>>
  PROVE  /\ Head(s) \in CallFrame /\ Head(s) \in Calls(s)
         /\ Tail(s) \in Seq(CallFrame) /\ Calls(Tail(s)) \subseteq Calls(s)
<1>1. /\ Len(s) \in Nat \ {0}
      /\ Head(s) = s[1] /\ Head(s) \in CallFrame
      /\ Tail(s) \in Seq(CallFrame) /\ Len(Tail(s)) = Len(s) - 1
      /\ \A i \in 1 .. Len(s) - 1 : Tail(s)[i] = s[i + 1]
  BY HeadTailProperties, EmptySeq
<1>2. DOMAIN s = 1 .. Len(s) /\ DOMAIN Tail(s) = 1 .. Len(s) - 1
  BY <1>1
<1>3. Head(s) \in Calls(s) /\ Calls(Tail(s)) \subseteq Calls(s)
  <2>1. s[1] \in Calls(s)
    BY <1>1, <1>2 DEF Calls
  <2>2. \A i \in 1 .. Len(s) - 1 : Tail(s)[i] \in Calls(s)
    BY <1>1, <1>2 DEF Calls
  <2> QED
    BY <1>1, <1>2, <2>1, <2>2 DEF Calls
<1> QED
  BY <1>1, <1>3

(* What going on with the running call and calling a child leave there.    *)
LEMMA StackOperations ==
  ASSUME NEW s \in Seq(CallFrame), s # <<>>, NEW f \in CallFrame, NEW g \in CallFrame
  PROVE  /\ <<f>> \o Tail(s) \in Seq(CallFrame)
         /\ <<f>> \o Tail(s) # <<>>
         /\ Calls(<<f>> \o Tail(s)) \subseteq {f} \union Calls(s)
         /\ <<f, g>> \o Tail(s) \in Seq(CallFrame)
         /\ <<f, g>> \o Tail(s) # <<>>
         /\ Calls(<<f, g>> \o Tail(s)) \subseteq {f, g} \union Calls(s)
<1>1. /\ Len(s) \in Nat \ {0}
      /\ Head(s) = s[1] /\ Head(s) \in CallFrame
      /\ Tail(s) \in Seq(CallFrame) /\ Len(Tail(s)) = Len(s) - 1
      /\ \A i \in 1 .. Len(s) - 1 : Tail(s)[i] = s[i + 1]
  BY HeadTailProperties, EmptySeq
<1>2. DOMAIN s = 1 .. Len(s) /\ DOMAIN Tail(s) = 1 .. Len(s) - 1
  BY <1>1
<1>3. Calls(Tail(s)) \subseteq Calls(s)
  BY StackTop
<1>4. ASSUME NEW h \in Seq(CallFrame), h # <<>>
      PROVE  /\ h \o Tail(s) \in Seq(CallFrame)
             /\ h \o Tail(s) # <<>>
             /\ Calls(h \o Tail(s)) \subseteq Calls(h) \union Calls(s)
  <2>1. /\ h \o Tail(s) \in Seq(CallFrame)
        /\ Len(h \o Tail(s)) = Len(h) + Len(Tail(s))
        /\ \A i \in 1 .. Len(h) + Len(Tail(s)) :
              (h \o Tail(s))[i] = IF i <= Len(h) THEN h[i] ELSE Tail(s)[i - Len(h)]
    BY <1>1, ConcatProperties
  <2>2. Len(h) \in Nat \ {0} /\ DOMAIN h = 1 .. Len(h)
    BY <1>4, EmptySeq, LenProperties
  <2>3. DOMAIN (h \o Tail(s)) = 1 .. Len(h) + Len(Tail(s))
    BY <2>1, LenProperties
  <2>4. h \o Tail(s) # <<>>
    BY <1>1, <2>1, <2>2, EmptySeq
  <2>5. ASSUME NEW i \in DOMAIN (h \o Tail(s))
        PROVE  (h \o Tail(s))[i] \in Calls(h) \union Calls(s)
    <3>1. CASE i <= Len(h)
      BY <1>1, <2>1, <2>2, <2>3, <3>1 DEF Calls
    <3>2. CASE i > Len(h)
      <4>1. i - Len(h) \in 1 .. Len(Tail(s))
        BY <1>1, <2>2, <2>3, <3>2
      <4>2. (h \o Tail(s))[i] = Tail(s)[i - Len(h)]
        BY <1>1, <2>1, <2>2, <2>3, <3>2
      <4> QED
        BY <1>1, <1>2, <1>3, <4>1, <4>2 DEF Calls
    <3> QED
      BY <1>1, <2>2, <2>3, <3>1, <3>2
  <2> QED
    BY <2>1, <2>4, <2>5 DEF Calls
<1>5. <<f>> \in Seq(CallFrame) /\ <<f>> # <<>> /\ Calls(<<f>>) = {f}
  BY DEF Calls
<1>6. <<f, g>> \in Seq(CallFrame) /\ <<f, g>> # <<>> /\ Calls(<<f, g>>) = {f, g}
  BY DEF Calls
<1> QED
  BY <1>1, <1>3, <1>4, <1>5, <1>6

(***************************************************************************)
(* The trail of a walk: the path its calls go along                        *)
(***************************************************************************)
FrameAt(s, j) == s[Len(s) + 1 - j]
Bottom(s) == s[Len(s)]

Trail(s) ==
  [j \in 1 .. Len(s) |-> <<FrameAt(s, j).node, IF j = 1 THEN 0 ELSE FrameAt(s, j - 1).next - 1>>]

Linked(g, s) ==
  \A j \in 1 .. Len(s) - 1 :
    /\ FrameAt(s, j).next - 1 \in 1 .. Len(g[FrameAt(s, j).node])
    /\ FrameAt(s, j + 1).node = g[FrameAt(s, j).node][FrameAt(s, j).next - 1]

(* A call is at a node and has a next child, 0 until the node is entered.  *)
FramesAreTyped ==
  \A f \in CallFrame :
    /\ f.node \in Vertex /\ f.next \in Nat
    /\ \A i \in Nat : /\ [f EXCEPT !.next = i] \in CallFrame
                      /\ [f EXCEPT !.next = i].node = f.node
                      /\ [f EXCEPT !.next = i].next = i

LEMMA FrameType ==
  ASSUME FramesAreTyped, NEW s \in Seq(CallFrame), s # <<>>
  PROVE  /\ Len(s) \in Nat \ {0} /\ Head(s) = FrameAt(s, Len(s)) /\ Bottom(s) = FrameAt(s, 1)
         /\ \A j \in 1 .. Len(s) : /\ FrameAt(s, j) \in CallFrame /\ FrameAt(s, j).node \in Vertex
                                   /\ FrameAt(s, j).next \in Nat
<1>1. Len(s) \in Nat \ {0} /\ Head(s) = s[1]
  BY EmptySeq, HeadTailProperties
<1>2. Head(s) = FrameAt(s, Len(s)) /\ Bottom(s) = FrameAt(s, 1)
  BY <1>1 DEF FrameAt, Bottom
<1>3. ASSUME NEW j \in 1 .. Len(s)
      PROVE  FrameAt(s, j) \in CallFrame
  <2>1. Len(s) + 1 - j \in 1 .. Len(s)
    BY <1>1
  <2> QED
    BY <2>1 DEF FrameAt
<1> QED
  BY <1>1, <1>2, <1>3 DEF FramesAreTyped

LEMMA FramesOfTail ==
  ASSUME NEW s \in Seq(CallFrame), Len(s) > 1
  PROVE  /\ Tail(s) \in Seq(CallFrame) /\ Len(Tail(s)) = Len(s) - 1 /\ Tail(s) # <<>>
         /\ \A j \in 1 .. Len(s) - 1 : FrameAt(Tail(s), j) = FrameAt(s, j)
<1>1. Len(s) \in Nat /\ s # <<>>
  BY EmptySeq
<1>2. /\ Tail(s) \in Seq(CallFrame) /\ Len(Tail(s)) = Len(s) - 1
      /\ \A i \in 1 .. Len(s) - 1 : Tail(s)[i] = s[i + 1]
  BY <1>1, HeadTailProperties
<1>3. ASSUME NEW j \in 1 .. Len(s) - 1
      PROVE  FrameAt(Tail(s), j) = FrameAt(s, j)
  <2>1. Len(s) - j \in 1 .. Len(s) - 1 /\ Len(s) - j + 1 = Len(s) + 1 - j
        /\ Len(Tail(s)) + 1 - j = Len(s) - j
    BY <1>1, <1>2
  <2> QED
    BY <1>2, <2>1, SMTT(30) DEF FrameAt
<1>4. Tail(s) # <<>>
  <2>1. Len(Tail(s)) # 0
    BY <1>1, <1>2
  <2> QED
    BY <1>2, <2>1, EmptySeq
<1> QED
  BY <1>2, <1>3, <1>4

LEMMA FramesOfPush ==
  ASSUME NEW s \in Seq(CallFrame), s # <<>>, NEW f \in CallFrame, NEW e \in CallFrame
  PROVE  /\ <<f>> \o Tail(s) \in Seq(CallFrame) /\ <<f>> \o Tail(s) # <<>>
         /\ Len(<<f>> \o Tail(s)) = Len(s)
         /\ FrameAt(<<f>> \o Tail(s), Len(s)) = f
         /\ \A j \in 1 .. Len(s) - 1 : FrameAt(<<f>> \o Tail(s), j) = FrameAt(s, j)
         /\ <<e, f>> \o Tail(s) \in Seq(CallFrame) /\ <<e, f>> \o Tail(s) # <<>>
         /\ Len(<<e, f>> \o Tail(s)) = Len(s) + 1
         /\ FrameAt(<<e, f>> \o Tail(s), Len(s) + 1) = e
         /\ FrameAt(<<e, f>> \o Tail(s), Len(s)) = f
         /\ \A j \in 1 .. Len(s) - 1 : FrameAt(<<e, f>> \o Tail(s), j) = FrameAt(s, j)
<1> DEFINE k == Len(s)
<1>1. k \in Nat \ {0}
  BY EmptySeq
<1>2. /\ Tail(s) \in Seq(CallFrame) /\ Len(Tail(s)) = k - 1
      /\ \A i \in 1 .. k - 1 : Tail(s)[i] = s[i + 1]
  BY <1>1, HeadTailProperties
<1>3. ASSUME NEW h \in Seq(CallFrame), Len(h) \in Nat \ {0}
      PROVE  /\ h \o Tail(s) \in Seq(CallFrame) /\ h \o Tail(s) # <<>>
             /\ Len(h \o Tail(s)) = Len(h) + k - 1
             /\ \A i \in 1 .. Len(h) : (h \o Tail(s))[i] = h[i]
             /\ \A j \in 1 .. k - 1 : FrameAt(h \o Tail(s), j) = FrameAt(s, j)
  <2> HIDE DEF k
  <2>1. /\ h \o Tail(s) \in Seq(CallFrame)
        /\ Len(h \o Tail(s)) = Len(h) + Len(Tail(s))
        /\ \A i \in 1 .. Len(h) + Len(Tail(s)) :
              (h \o Tail(s))[i] = IF i <= Len(h) THEN h[i] ELSE Tail(s)[i - Len(h)]
    BY <1>2, ConcatProperties
  <2>2. Len(h \o Tail(s)) = Len(h) + k - 1
    BY <1>1, <1>2, <1>3, <2>1
  <2>3. h \o Tail(s) # <<>>
    BY <1>1, <1>3, <2>1, <2>2, EmptySeq
  <2>4. \A i \in 1 .. Len(h) : (h \o Tail(s))[i] = h[i]
    BY <1>1, <1>2, <1>3, <2>1
  <2>5. ASSUME NEW j \in 1 .. k - 1
        PROVE  FrameAt(h \o Tail(s), j) = FrameAt(s, j)
    <3>1. /\ Len(h) + k - j \in 1 .. Len(h) + Len(Tail(s)) /\ Len(h) + k - j > Len(h)
          /\ Len(h) + k - j - Len(h) = k - j
          /\ k - j \in 1 .. k - 1 /\ k - j + 1 = k + 1 - j
          /\ Len(h \o Tail(s)) + 1 - j = Len(h) + k - j
      BY <1>1, <1>2, <1>3, <2>2
    <3>2. FrameAt(h \o Tail(s), j) = (h \o Tail(s))[Len(h) + k - j]
      BY <3>1 DEF FrameAt
    <3>3. (h \o Tail(s))[Len(h) + k - j] = Tail(s)[k - j]
      BY <1>1, <1>3, <2>1, <3>1
    <3>4. Tail(s)[k - j] = s[k + 1 - j]
      BY <1>2, <3>1
    <3> QED
      BY <3>2, <3>3, <3>4 DEF FrameAt, k
  <2> QED
    BY <2>1, <2>2, <2>3, <2>4, <2>5
<1>4. <<f>> \in Seq(CallFrame) /\ Len(<<f>>) = 1 /\ <<f>>[1] = f
  OBVIOUS
<1>5. <<e, f>> \in Seq(CallFrame) /\ Len(<<e, f>>) = 2 /\ <<e, f>>[1] = e /\ <<e, f>>[2] = f
  OBVIOUS
<1>6. /\ <<f>> \o Tail(s) \in Seq(CallFrame) /\ <<f>> \o Tail(s) # <<>>
      /\ Len(<<f>> \o Tail(s)) = k
      /\ FrameAt(<<f>> \o Tail(s), k) = f
      /\ \A j \in 1 .. k - 1 : FrameAt(<<f>> \o Tail(s), j) = FrameAt(s, j)
  <2> DEFINE h == <<f>>
  <2>1. h \in Seq(CallFrame) /\ Len(h) = 1 /\ h[1] = f
    BY <1>4
  <2> HIDE DEF h, k
  <2>2. /\ h \o Tail(s) \in Seq(CallFrame) /\ h \o Tail(s) # <<>>
        /\ Len(h \o Tail(s)) = k /\ (h \o Tail(s))[1] = f
        /\ \A j \in 1 .. k - 1 : FrameAt(h \o Tail(s), j) = FrameAt(s, j)
    <3>1. Len(h) \in Nat \ {0} /\ 1 \in 1 .. Len(h)
      BY <2>1
    <3>2. /\ h \o Tail(s) \in Seq(CallFrame) /\ h \o Tail(s) # <<>>
          /\ Len(h \o Tail(s)) = Len(h) + k - 1
          /\ \A i \in 1 .. Len(h) : (h \o Tail(s))[i] = h[i]
          /\ \A j \in 1 .. k - 1 : FrameAt(h \o Tail(s), j) = FrameAt(s, j)
      BY <1>3, <2>1, <3>1
    <3>3. Len(h) + k - 1 = k
      BY <1>1, <2>1
    <3> QED
      BY <2>1, <3>1, <3>2, <3>3
  <2>3. FrameAt(h \o Tail(s), k) = f
    BY <1>1, <2>2 DEF FrameAt
  <2> QED
    BY <2>2, <2>3 DEF h
<1>7. /\ <<e, f>> \o Tail(s) \in Seq(CallFrame) /\ <<e, f>> \o Tail(s) # <<>>
      /\ Len(<<e, f>> \o Tail(s)) = k + 1
      /\ FrameAt(<<e, f>> \o Tail(s), k + 1) = e
      /\ FrameAt(<<e, f>> \o Tail(s), k) = f
      /\ \A j \in 1 .. k - 1 : FrameAt(<<e, f>> \o Tail(s), j) = FrameAt(s, j)
  <2> DEFINE h == <<e, f>>
  <2>1. h \in Seq(CallFrame) /\ Len(h) = 2 /\ h[1] = e /\ h[2] = f
    BY <1>5
  <2> HIDE DEF h, k
  <2>2. /\ h \o Tail(s) \in Seq(CallFrame) /\ h \o Tail(s) # <<>>
        /\ Len(h \o Tail(s)) = k + 1 /\ (h \o Tail(s))[1] = e /\ (h \o Tail(s))[2] = f
        /\ \A j \in 1 .. k - 1 : FrameAt(h \o Tail(s), j) = FrameAt(s, j)
    <3>1. Len(h) \in Nat \ {0} /\ 1 \in 1 .. Len(h) /\ 2 \in 1 .. Len(h)
      BY <2>1
    <3>2. /\ h \o Tail(s) \in Seq(CallFrame) /\ h \o Tail(s) # <<>>
          /\ Len(h \o Tail(s)) = Len(h) + k - 1
          /\ \A i \in 1 .. Len(h) : (h \o Tail(s))[i] = h[i]
          /\ \A j \in 1 .. k - 1 : FrameAt(h \o Tail(s), j) = FrameAt(s, j)
      BY <1>3, <2>1, <3>1
    <3>3. Len(h) + k - 1 = k + 1
      BY <1>1, <2>1
    <3> QED
      BY <2>1, <3>1, <3>2, <3>3
  <2>3. FrameAt(h \o Tail(s), k + 1) = e /\ FrameAt(h \o Tail(s), k) = f
    <3>1. k + 1 + 1 - (k + 1) = 1 /\ k + 1 + 1 - k = 2
      BY <1>1
    <3> QED
      BY <2>2, <3>1 DEF FrameAt
  <2> QED
    BY <2>2, <2>3 DEF h
<1> QED
  BY <1>6, <1>7

(* The trail is a path from the node of the first call to that of the      *)
(* running one.                                                            *)
LEMMA TrailIsPath ==
  ASSUME FramesAreTyped, NEW g \in [Vertex -> Seq(Vertex)], NEW s \in Seq(CallFrame), s # <<>>, Linked(g, s)
  PROVE  /\ Trail(s) \in PathsFrom(g, Bottom(s).node) /\ Len(Trail(s)) = Len(s)
         /\ \A j \in 1 .. Len(s) : Trail(s)[j][1] = FrameAt(s, j).node
         /\ Bottom(s).node \in Vertex /\ End(Trail(s)) = Head(s).node /\ Head(s).node \in Vertex
<1> DEFINE k == Len(s)
           t == Trail(s)
           index(j) == IF j = 1 THEN 0 ELSE FrameAt(s, j - 1).next - 1
<1>1. /\ k \in Nat \ {0} /\ Head(s) = FrameAt(s, k) /\ Bottom(s) = FrameAt(s, 1)
      /\ \A j \in 1 .. k : FrameAt(s, j).node \in Vertex
  BY FrameType
<1>2. ASSUME NEW j \in 1 .. k
      PROVE  index(j) \in Nat
  <2>1. CASE j = 1
    BY <2>1
  <2>2. CASE j # 1
    <3>1. j - 1 \in 1 .. k - 1 /\ j - 1 \in 1 .. k
      BY <1>1, <2>2
    <3>2. FrameAt(s, j - 1).next - 1 \in 1 .. Len(g[FrameAt(s, j - 1).node])
      BY <3>1 DEF Linked
    <3>3. Len(g[FrameAt(s, j - 1).node]) \in Nat
      BY <1>1, <3>1, GraphType
    <3> QED
      BY <2>2, <3>2, <3>3
  <2> QED
    BY <2>1, <2>2
<1>3. t = [j \in 1 .. k |-> <<FrameAt(s, j).node, index(j)>>]
  BY DEF Trail
<1> HIDE DEF k, t, index
<1>4. t \in Seq(Vertex \X Nat) /\ Len(t) = k
  <2>1. t \in [1 .. k -> Vertex \X Nat]
    BY <1>1, <1>2, <1>3
  <2> QED
    BY <1>1, <2>1
<1>5. t \in Paths
  BY <1>1, <1>4, EmptySeq DEF Paths
<1>6. \A j \in 1 .. k : t[j] = <<FrameAt(s, j).node, index(j)>>
  BY <1>3
<1>7. \A j \in 1 .. k : t[j][1] = FrameAt(s, j).node /\ t[j][2] = index(j)
  BY <1>6
<1>8. Valid(g, t)
  <2> SUFFICES ASSUME NEW j \in 1 .. k - 1
               PROVE  /\ t[j + 1][2] \in 1 .. Len(g[t[j][1]])
                      /\ t[j + 1][1] = g[t[j][1]][t[j + 1][2]]
    BY <1>4 DEF Valid
  <2>1. j \in 1 .. k /\ j + 1 \in 1 .. k /\ j + 1 # 1 /\ j + 1 - 1 = j
    BY <1>1
  <2>2. index(j + 1) = FrameAt(s, j + 1 - 1).next - 1
    BY <2>1 DEF index
  <2>3. t[j + 1][2] = FrameAt(s, j).next - 1
    BY <1>7, <2>1, <2>2
  <2> QED
    BY <1>7, <2>1, <2>3 DEF Linked, k
<1>9. t[1] = <<FrameAt(s, 1).node, 0>>
  BY <1>1, <1>6 DEF index
<1>10. End(t) = FrameAt(s, k).node
  BY <1>1, <1>4, <1>7 DEF End
<1>11. 1 \in 1 .. k /\ k \in 1 .. k
  BY <1>1
<1> QED
  BY <1>1, <1>4, <1>5, <1>7, <1>8, <1>9, <1>10, <1>11 DEF PathsFrom, k, t

(* How the trail follows what the walk does with its calls.                *)
LEMMA TrailOfFirst ==
  ASSUME FramesAreTyped, NEW g \in [Vertex -> Seq(Vertex)], NEW f \in CallFrame
  PROVE  /\ Linked(g, <<f>>) /\ Len(Trail(<<f>>)) = 1
         /\ Bottom(<<f>>) = f /\ Head(<<f>>) = f /\ <<f>> \in Seq(CallFrame) /\ <<f>> # <<>>
<1>1. <<f>> \in Seq(CallFrame) /\ <<f>> # <<>> /\ Len(<<f>>) = 1
  OBVIOUS
<1>2. Linked(g, <<f>>)
  BY DEF Linked
<1>3. Len(Trail(<<f>>)) = 1
  BY <1>1, <1>2, TrailIsPath
<1> QED
  BY <1>1, <1>2, <1>3 DEF Bottom

LEMMA TrailGoesOn ==
  ASSUME FramesAreTyped, NEW g \in [Vertex -> Seq(Vertex)], NEW s \in Seq(CallFrame), s # <<>>, Linked(g, s),
         NEW f \in CallFrame, f.node = Head(s).node
  PROVE  LET u == <<f>> \o Tail(s)
         IN  /\ u \in Seq(CallFrame) /\ u # <<>> /\ Linked(g, u) /\ Trail(u) = Trail(s)
             /\ Bottom(u).node = Bottom(s).node /\ Head(u) = f
<1> DEFINE u == <<f>> \o Tail(s)
           k == Len(s)
<1>1. /\ k \in Nat \ {0} /\ Head(s) = FrameAt(s, k) /\ Bottom(s) = FrameAt(s, 1)
      /\ \A j \in 1 .. k : FrameAt(s, j) \in CallFrame
  BY FrameType
<1>2. f \in CallFrame /\ f.node = Head(s).node
  OBVIOUS
<1>3. /\ u \in Seq(CallFrame) /\ u # <<>> /\ Len(u) = k /\ FrameAt(u, k) = f
      /\ \A j \in 1 .. k - 1 : FrameAt(u, j) = FrameAt(s, j)
  BY <1>2, FramesOfPush
<1>4. Head(u) = f /\ Bottom(u) = FrameAt(u, 1)
  <2> HIDE DEF u, k
  <2> QED
    BY <1>3, FrameType
<1> HIDE DEF u, k
<1>5. \A j \in 1 .. k : FrameAt(u, j).node = FrameAt(s, j).node
  BY <1>1, <1>2, <1>3
<1>6. Linked(g, u)
  <2>1. \A j \in 1 .. k - 1 : j \in 1 .. k /\ j + 1 \in 1 .. k
    BY <1>1
  <2> QED
    BY <1>3, <1>5, <2>1 DEF Linked, k
<1>7. Trail(u) = Trail(s)
  <2>1. ASSUME NEW j \in 1 .. k, j # 1
        PROVE  FrameAt(u, j - 1) = FrameAt(s, j - 1)
    <3>1. j - 1 \in 1 .. k - 1
      BY <1>1, <2>1
    <3> QED
      BY <1>3, <3>1
  <2> QED
    BY <1>3, <1>5, <2>1 DEF Trail, k
<1>8. Bottom(u).node = Bottom(s).node
  BY <1>1, <1>4, <1>5
<1> QED
  BY <1>3, <1>4, <1>6, <1>7, <1>8 DEF u

LEMMA TrailGetsLonger ==
  ASSUME FramesAreTyped, NEW g \in [Vertex -> Seq(Vertex)], NEW s \in Seq(CallFrame), s # <<>>, Linked(g, s),
         NEW i \in 1 .. Len(g[Head(s).node]), NEW e \in CallFrame, e.node = g[Head(s).node][i]
  PROVE  LET u == <<e, [Head(s) EXCEPT !.next = i + 1]>> \o Tail(s)
         IN  /\ u \in Seq(CallFrame) /\ u # <<>> /\ Linked(g, u)
             /\ Trail(u) = Longer(g, Trail(s), i)
             /\ Bottom(u).node = Bottom(s).node /\ Head(u) = e
<1> DEFINE f == [Head(s) EXCEPT !.next = i + 1]
           u == <<e, f>> \o Tail(s)
           k == Len(s)
           t == Trail(s)
           v == Longer(g, t, i)
<1>1. /\ k \in Nat \ {0} /\ Head(s) = FrameAt(s, k) /\ Bottom(s) = FrameAt(s, 1)
      /\ \A j \in 1 .. k : FrameAt(s, j) \in CallFrame
      /\ Head(s) \in CallFrame /\ Head(s).node \in Vertex
  BY FrameType, TrailIsPath
<1>2. f \in CallFrame /\ f.node = Head(s).node /\ f.next = i + 1 /\ i \in Nat
  <2>1. i \in Nat /\ i + 1 \in Nat
    BY <1>1, GraphType
  <2> QED
    BY <1>1, <2>1 DEF FramesAreTyped
<1>3. /\ u \in Seq(CallFrame) /\ u # <<>> /\ Len(u) = k + 1
      /\ FrameAt(u, k + 1) = e /\ FrameAt(u, k) = f
      /\ \A j \in 1 .. k - 1 : FrameAt(u, j) = FrameAt(s, j)
  <2>1. f \in CallFrame
    BY <1>2
  <2> HIDE DEF f
  <2> QED
    BY <2>1, FramesOfPush, ZenonT(60)
<1>4. Head(u) = e /\ Bottom(u) = FrameAt(u, 1)
  <2> HIDE DEF u, f, k
  <2>1. Head(u) = FrameAt(u, Len(u))
    BY <1>3, FrameType
  <2> QED
    BY <1>3, <2>1, FrameType
<1>5. t \in PathsFrom(g, Bottom(s).node) /\ Len(t) = k /\ End(t) = Head(s).node
      /\ \A j \in 1 .. k : t[j][1] = FrameAt(s, j).node
  BY TrailIsPath
<1>6. /\ v \in PathsFrom(g, Bottom(s).node) /\ Len(v) = k + 1 /\ Agrees(v, t, k)
      /\ v[k + 1] \in Vertex \X Nat /\ v[k + 1][1] = e.node /\ v[k + 1][2] = i
  <2>1. Bottom(s).node \in Vertex /\ i \in 1 .. Len(g[End(t)])
    BY <1>5, TrailIsPath
  <2> HIDE DEF t, k
  <2> QED
    <3>1. /\ v \in PathsFrom(g, Bottom(s).node) /\ Len(v) = Len(t) + 1 /\ Agrees(v, t, Len(t))
          /\ v[Len(t) + 1] \in Vertex \X Nat /\ v[Len(t) + 1][1] = g[End(t)][i]
          /\ v[Len(t) + 1][2] = i
      BY <1>5, <2>1, LongerPath
    <3> HIDE DEF v
    <3>2. g[End(t)][i] = e.node
      BY <1>5
    <3> QED
      BY <1>5, <3>1, <3>2
<1> HIDE DEF u, f, k, v
<1>7. \A j \in 1 .. k : FrameAt(u, j).node = FrameAt(s, j).node
  <2>1. \A j \in 1 .. k : j = k \/ j \in 1 .. k - 1
    BY <1>1
  <2>2. FrameAt(u, k).node = FrameAt(s, k).node
    BY <1>1, <1>2, <1>3
  <2>3. \A j \in 1 .. k - 1 : FrameAt(u, j).node = FrameAt(s, j).node
    BY <1>3
  <2> QED
    BY <2>1, <2>2, <2>3
<1>8. Linked(g, u)
  <2>0. Len(u) - 1 = k
    BY <1>1, <1>3
  <2> SUFFICES ASSUME NEW j \in 1 .. k
               PROVE  /\ FrameAt(u, j).next - 1 \in 1 .. Len(g[FrameAt(u, j).node])
                      /\ FrameAt(u, j + 1).node = g[FrameAt(u, j).node][FrameAt(u, j).next - 1]
    BY <2>0 DEF Linked
  <2>1. CASE j = k
    <3>1. i + 1 - 1 = i
      BY <1>2
    <3>2. FrameAt(u, j) = f /\ FrameAt(u, j + 1) = e
      BY <1>3, <2>1
    <3> QED
      BY <1>2, <3>1, <3>2, SMTT(30)
  <2>2. CASE j # k
    <3>1. j \in 1 .. k - 1 /\ j + 1 \in 1 .. k
      BY <1>1, <2>2
    <3> QED
      BY <1>3, <1>7, <3>1 DEF Linked, k
  <2> QED
    BY <2>1, <2>2
<1>9. Bottom(u).node = Bottom(s).node
  BY <1>1, <1>4, <1>7
<1>10. Trail(u) = v
  <2>1. ASSUME NEW j \in 1 .. k, j # 1
        PROVE  FrameAt(u, j - 1) = FrameAt(s, j - 1)
    <3>1. j - 1 \in 1 .. k - 1
      BY <1>1, <2>1
    <3> QED
      BY <1>3, <3>1
  <2>2. ASSUME NEW j \in 1 .. k
        PROVE  Trail(u)[j] = t[j]
    <3>1. j \in 1 .. Len(u) /\ j \in 1 .. Len(s)
      BY <1>1, <1>3 DEF k
    <3> QED
      BY <1>7, <2>1, <3>1 DEF Trail, t
  <2>3. Trail(u)[k + 1] = v[k + 1]
    <3>1. k + 1 \in 1 .. Len(u) /\ k + 1 # 1 /\ k + 1 - 1 = k
      BY <1>1, <1>3
    <3> DEFINE m == k + 1
    <3> HIDE DEF m
    <3>5. m \in 1 .. Len(u) /\ m # 1
      BY <3>1 DEF m
    <3>6. Trail(u)[m] = <<FrameAt(u, m).node, FrameAt(u, m - 1).next - 1>>
      BY <3>5 DEF Trail
    <3>2. Trail(u)[k + 1] = <<FrameAt(u, k + 1).node, FrameAt(u, (k + 1) - 1).next - 1>>
      BY <3>6 DEF m
    <3>3. i + 1 - 1 = i
      BY <1>2
    <3>4. \A p \in Vertex \X Nat : p = <<p[1], p[2]>>
      OBVIOUS
    <3>7. (k + 1) - 1 = k
      BY <1>1
    <3>8. FrameAt(u, k + 1) = e /\ FrameAt(u, (k + 1) - 1) = f
      BY <1>3, <3>7
    <3>9. Trail(u)[k + 1] = <<e.node, i>>
      BY <1>2, <3>2, <3>3, <3>8
    <3>10. v[k + 1] = <<e.node, i>>
      BY <1>6, <3>4
    <3> QED
      BY <3>9, <3>10
  <2>4. Trail(u) \in Paths /\ Len(Trail(u)) = k + 1
    BY <1>3, <1>8, TrailIsPath DEF PathsFrom
  <2>5. v \in Paths
    BY <1>6 DEF PathsFrom
  <2>6. Agrees(Trail(u), v, k + 1)
    <3>1. \A m \in 1 .. k + 1 : m = k + 1 \/ m \in 1 .. k
      BY <1>1
    <3> QED
      BY <1>6, <2>2, <2>3, <3>1 DEF Agrees
  <2> QED
    BY <1>6, <2>4, <2>5, <2>6, SamePath
<1> QED
  BY <1>3, <1>4, <1>8, <1>9, <1>10 DEF u, f, v, t

LEMMA TrailReturns ==
  ASSUME FramesAreTyped, NEW g \in [Vertex -> Seq(Vertex)], NEW s \in Seq(CallFrame), Len(s) > 1, Linked(g, s)
  PROVE  LET u == Tail(s)
             i == Head(u).next - 1
         IN  /\ u \in Seq(CallFrame) /\ u # <<>> /\ Linked(g, u) /\ Head(u) \in CallFrame
             /\ i \in 1 .. Len(g[End(Trail(u))]) /\ i + 1 = Head(u).next
             /\ Trail(s) = Longer(g, Trail(u), i)
             /\ Bottom(u).node = Bottom(s).node
<1> DEFINE u == Tail(s)
           i == Head(u).next - 1
           k == Len(u)
           e == Head(s)
<1>1. u \in Seq(CallFrame) /\ k = Len(s) - 1 /\ u # <<>> /\ \A j \in 1 .. k : FrameAt(u, j) = FrameAt(s, j)
  BY FramesOfTail
<1>2. s # <<>> /\ Len(s) \in Nat /\ Len(s) > 1
  BY EmptySeq
<1> HIDE DEF u, k
<1>3. k \in Nat \ {0} /\ Len(s) = k + 1
  <2>1. k = Len(s) - 1
    BY <1>1
  <2>2. \A a \in Nat : a > 1 => a - 1 \in Nat \ {0} /\ a = a - 1 + 1
    OBVIOUS
  <2> QED
    BY <1>2, <2>1, <2>2
<1>4. Head(u) = FrameAt(u, k) /\ Bottom(u) = FrameAt(u, 1) /\ Bottom(s) = FrameAt(s, 1)
      /\ Head(s) = FrameAt(s, k + 1) /\ Head(u) \in CallFrame
  <2>1. k \in 1 .. k
    BY <1>3
  <2> QED
    BY <1>1, <1>2, <1>3, <2>1, FrameType DEF k
<1>5. Linked(g, u)
  <2>1. \A j \in 1 .. k - 1 : j \in 1 .. k /\ j + 1 \in 1 .. k /\ j \in 1 .. Len(s) - 1
    BY <1>3
  <2> QED
    BY <1>1, <2>1 DEF Linked, k
<1>6. End(Trail(u)) = Head(u).node /\ Trail(u) \in PathsFrom(g, Bottom(u).node) /\ Len(Trail(u)) = k
      /\ Bottom(u).node \in Vertex
  BY <1>1, <1>5, TrailIsPath DEF k
<1>7. i \in 1 .. Len(g[Head(u).node]) /\ FrameAt(s, k + 1).node = g[Head(u).node][i]
  <2>1. k \in 1 .. Len(s) - 1 /\ k \in 1 .. k
    BY <1>3
  <2>2. FrameAt(s, k) = Head(u)
    BY <1>1, <1>4, <2>1
  <2> QED
    BY <2>1, <2>2 DEF Linked
<1>8. i + 1 = Head(u).next
  BY <1>4 DEF FramesAreTyped
<1>9. Bottom(u) = Bottom(s)
  <2>1. 1 \in 1 .. k
    BY <1>3
  <2> QED
    BY <1>1, <1>4, <2>1
<1> HIDE DEF i
<1>10. Trail(s) = Longer(g, Trail(u), i)
  <2> DEFINE v == Longer(g, Trail(u), i)
  <2>1. /\ v \in PathsFrom(g, Bottom(u).node) /\ Len(v) = k + 1 /\ Agrees(v, Trail(u), k)
        /\ v[k + 1] \in Vertex \X Nat /\ v[k + 1][1] = FrameAt(s, k + 1).node /\ v[k + 1][2] = i
    <3>1. i \in 1 .. Len(g[End(Trail(u))])
      BY <1>6, <1>7
    <3> DEFINE t == Trail(u)
    <3> HIDE DEF t
    <3>3. t \in PathsFrom(g, Bottom(u).node) /\ i \in 1 .. Len(g[End(t)])
      BY <1>6, <3>1 DEF t
    <3>4. LET w == Longer(g, t, i)
          IN  /\ w \in PathsFrom(g, Bottom(u).node) /\ Len(w) = Len(t) + 1 /\ Agrees(w, t, Len(t))
              /\ w[Len(t) + 1] \in Vertex \X Nat /\ w[Len(t) + 1][1] = g[End(t)][i]
              /\ w[Len(t) + 1][2] = i
      BY <1>6, <3>3, LongerPath
    <3>2. v \in PathsFrom(g, Bottom(u).node) /\ Len(v) = Len(Trail(u)) + 1
          /\ Agrees(v, Trail(u), Len(Trail(u)))
          /\ v[Len(Trail(u)) + 1] \in Vertex \X Nat /\ v[Len(Trail(u)) + 1][1] = g[End(Trail(u))][i]
          /\ v[Len(Trail(u)) + 1][2] = i
      BY <3>4 DEF t
    <3> HIDE DEF v
    <3> QED
      BY <1>6, <1>7, <3>2
  <2> HIDE DEF v
  <2>2. Trail(s) \in Paths /\ Len(Trail(s)) = k + 1
    BY <1>2, <1>3, TrailIsPath DEF PathsFrom
  <2>3. ASSUME NEW j \in 1 .. k
        PROVE  Trail(s)[j] = Trail(u)[j]
    <3>1. j \in 1 .. Len(s) /\ j \in 1 .. Len(u)
      BY <1>3 DEF k
    <3>2. j # 1 => FrameAt(u, j - 1) = FrameAt(s, j - 1)
      <4>1. j # 1 => j - 1 \in 1 .. k
        BY <1>3
      <4> QED
        BY <1>1, <4>1
    <3> QED
      BY <1>1, <3>1, <3>2 DEF Trail
  <2>4. Trail(s)[k + 1] = v[k + 1]
    <3>1. k + 1 \in 1 .. Len(s) /\ k + 1 # 1 /\ k + 1 - 1 = k /\ k \in 1 .. k
      BY <1>3
    <3>2. Trail(s)[k + 1] = <<FrameAt(s, k + 1).node, Head(u).next - 1>>
      BY <1>1, <1>4, <3>1 DEF Trail
    <3>3. \A p \in Vertex \X Nat : p = <<p[1], p[2]>>
      OBVIOUS
    <3> QED
      BY <2>1, <3>2, <3>3 DEF i
  <2>5. v \in Paths
    BY <2>1 DEF PathsFrom
  <2>6. Agrees(Trail(s), v, k + 1)
    BY <1>3, <2>1, <2>3, <2>4 DEF Agrees
  <2>7. Trail(s) = v
    BY <2>1, <2>2, <2>5, <2>6, SamePath
  <2> QED
    BY <2>7 DEF v
<1> QED
  BY <1>1, <1>4, <1>5, <1>6, <1>7, <1>8, <1>9, <1>10 DEF u, i

LEMMA CallsAbove ==
  ASSUME NEW t \in Seq(CallFrame), NEW g \in CallFrame
  PROVE  Calls(<<g>> \o t) = {g} \union Calls(t)
<1> DEFINE u == <<g>> \o t
<1>1. DOMAIN t = 1 .. Len(t) /\ Len(t) \in Nat
  OBVIOUS
<1>2. u \in Seq(CallFrame) /\ Len(u) = Len(t) + 1 /\ u[1] = g /\ \A i \in 1 .. Len(t) : u[i + 1] = t[i]
  BY <1>1
<1>3. DOMAIN u = 1 .. Len(t) + 1
  BY <1>2
<1> HIDE DEF u
<1>4. 1 \in DOMAIN u /\ \A i \in 1 .. Len(t) : i + 1 \in DOMAIN u
  BY <1>1, <1>3
<1>5. \A i \in DOMAIN u : i = 1 \/ (i - 1 \in 1 .. Len(t) /\ (i - 1) + 1 = i)
  BY <1>1, <1>3
<1>6. Calls(u) \subseteq {g} \union Calls(t)
  <2> SUFFICES ASSUME NEW i \in DOMAIN u, i # 1
               PROVE  u[i] \in Calls(t)
    BY <1>2 DEF Calls
  <2>1. PICK j \in 1 .. Len(t) : j + 1 = i
    BY <1>5
  <2> QED
    BY <1>1, <1>2, <2>1 DEF Calls
<1>7. {g} \union Calls(t) \subseteq Calls(u)
  <2>1. g \in Calls(u)
    BY <1>2, <1>4 DEF Calls
  <2>2. ASSUME NEW i \in 1 .. Len(t)
        PROVE  t[i] \in Calls(u)
    BY <1>2, <1>4 DEF Calls
  <2> QED
    BY <1>1, <2>1, <2>2 DEF Calls
<1> QED
  BY <1>6, <1>7 DEF u

(* The calls of a stack are the running one and those below it.            *)
LEMMA CallsOnTop ==
  ASSUME NEW s \in Seq(CallFrame), s # <<>>
  PROVE  /\ Calls(s) = {Head(s)} \union Calls(Tail(s))
         /\ \A f \in CallFrame : /\ Calls(<<f>> \o Tail(s)) = {f} \union Calls(Tail(s))
                                 /\ Head(<<f>> \o Tail(s)) = f /\ <<f>> \o Tail(s) # <<>>
         /\ \A f, e \in CallFrame : /\ Calls(<<e, f>> \o Tail(s)) = {e, f} \union Calls(Tail(s))
                                    /\ Head(<<e, f>> \o Tail(s)) = e /\ <<e, f>> \o Tail(s) # <<>>
<1> DEFINE t == Tail(s)
<1>1. /\ Head(s) \in CallFrame /\ t \in Seq(CallFrame) /\ s = <<Head(s)>> \o t
  OBVIOUS
<1> HIDE DEF t
<1>2. ASSUME NEW f \in CallFrame
      PROVE  /\ Calls(<<f>> \o t) = {f} \union Calls(t) /\ Head(<<f>> \o t) = f
             /\ <<f>> \o t # <<>> /\ <<f>> \o t \in Seq(CallFrame)
  BY <1>1, CallsAbove
<1>3. ASSUME NEW f \in CallFrame, NEW e \in CallFrame
      PROVE  /\ Calls(<<e, f>> \o t) = {e, f} \union Calls(t)
             /\ Head(<<e, f>> \o t) = e /\ <<e, f>> \o t # <<>>
  <2>1. <<e, f>> \o t = <<e>> \o (<<f>> \o t) /\ Head(<<e, f>> \o t) = e /\ <<e, f>> \o t # <<>>
    BY <1>1
  <2>2. Calls(<<e>> \o (<<f>> \o t)) = {e} \union Calls(<<f>> \o t)
    BY <1>2, CallsAbove
  <2> QED
    BY <1>2, <2>1, <2>2
<1>4. Calls(s) = {Head(s)} \union Calls(t)
  <2>1. Calls(<<Head(s)>> \o t) = {Head(s)} \union Calls(t)
    BY <1>1, CallsAbove
  <2> QED
    BY <1>1, <2>1
<1> QED
  BY <1>2, <1>3, <1>4 DEF t

(***************************************************************************)
(* What a walk finds that goes down to the nodes of T only, whatever the   *)
(* order it takes them in                                                  *)
(***************************************************************************)

(* Nodes of T, one below the other, lead from the root to n.               *)
ReachedIn(g, root, T, n) ==
  \A S \in SUBSET Vertex :
    root \in S /\ (\A r \in S : \A i \in 1 .. Len(g[r]) : g[r][i] \in T => g[r][i] \in S) => n \in S

LEMMA ReachedNext ==
  ASSUME NEW g, NEW root, NEW T, NEW r \in Vertex, ReachedIn(g, root, T, r),
         NEW i \in 1 .. Len(g[r]), g[r][i] \in T
  PROVE  ReachedIn(g, root, T, g[r][i])
BY DEF ReachedIn

(* A change of the graph or of T that leaves alone a set D, closed and     *)
(* with the root in it, hides nothing.                                     *)
LEMMA ReachedStill ==
  ASSUME NEW g, NEW h, NEW root, NEW T, NEW U, NEW n, ReachedIn(g, root, T, n),
         NEW D \in SUBSET Vertex, root \in D,
         \A r \in D : \A i \in 1 .. Len(g[r]) :
           g[r][i] \in T => g[r][i] \in U \intersect D /\ i \in 1 .. Len(h[r]) /\ h[r][i] = g[r][i]
  PROVE  ReachedIn(h, root, U, n)
<1> SUFFICES ASSUME NEW S \in SUBSET Vertex, root \in S,
                    \A r \in S : \A i \in 1 .. Len(h[r]) : h[r][i] \in U => h[r][i] \in S
             PROVE  n \in S
  BY DEF ReachedIn
<1>1. S \intersect D \in SUBSET Vertex /\ root \in S \intersect D
  OBVIOUS
<1>2. ASSUME NEW r \in S \intersect D, NEW i \in 1 .. Len(g[r]), g[r][i] \in T
      PROVE  g[r][i] \in S \intersect D
  <2>1. g[r][i] \in U \intersect D /\ i \in 1 .. Len(h[r]) /\ h[r][i] = g[r][i]
    BY <1>2
  <2> QED
    BY <2>1
<1> QED
  BY <1>1, <1>2 DEF ReachedIn

LEMMA ReachedMore ==
  ASSUME NEW g, NEW root, NEW T, NEW U, T \subseteq U, NEW n, ReachedIn(g, root, T, n)
  PROVE  ReachedIn(g, root, U, n)
<1> SUFFICES ASSUME NEW S \in SUBSET Vertex, root \in S,
                    \A r \in S : \A i \in 1 .. Len(g[r]) : g[r][i] \in U => g[r][i] \in S
             PROVE  n \in S
  BY DEF ReachedIn
<1>1. \A r \in S : \A i \in 1 .. Len(g[r]) : g[r][i] \in T => g[r][i] \in S
  OBVIOUS
<1> QED
  BY <1>1 DEF ReachedIn

(* The walk s is about to enter n, or a call of it on r has yet to call    *)
(* the i-th child.                                                         *)
Coming(s, n) == s # <<>> /\ Head(s).next = 0 /\ Head(s).node = n
Due(s, r, i) == \E f \in Calls(s) : f.node = r /\ f.next \in 1 .. i

(* The walk has entered the nodes of S: what is in T below them it has     *)
(* entered too, or will.                                                   *)
Looks(g, s, S, T) ==
  \A r \in S : \A i \in 1 .. Len(g[r]) :
    g[r][i] \in T => g[r][i] \in S \/ Due(s, r, i) \/ Coming(s, g[r][i])

(* A call that is done, or skips a node that is not of T.                  *)
LEMMA LooksReturn ==
  ASSUME NEW g \in [Vertex -> Seq(Vertex)], NEW s \in Seq(CallFrame), s # <<>>, NEW S, NEW T,
         Looks(g, s, S, T), Head(s).node \in Vertex,
         \/ Head(s).next = 0 /\ Head(s).node \notin T
         \/ Head(s).next = Len(g[Head(s).node]) + 1
  PROVE  Looks(g, Tail(s), S, T)
<1> SUFFICES ASSUME NEW r \in S, NEW i \in 1 .. Len(g[r]), g[r][i] \in T, g[r][i] \notin S
             PROVE  Due(Tail(s), r, i)
  BY DEF Looks
<1>1. Len(g[Head(s).node]) \in Nat
  OBVIOUS
<1>2. ~Coming(s, g[r][i])
  BY <1>1 DEF Coming
<1>3. PICK f \in Calls(s) : f.node = r /\ f.next \in 1 .. i
  BY <1>2 DEF Looks, Due
<1>4. f # Head(s)
  <2> SUFFICES ASSUME f = Head(s)
               PROVE  FALSE
    OBVIOUS
  <2>1. Len(g[r]) \in Nat /\ f.next \in {0, Len(g[r]) + 1}
    BY <1>1, <1>3
  <2> QED
    BY <1>3, <2>1
<1> QED
  BY <1>3, <1>4, CallsOnTop DEF Due

(* The running call calls its next child.                                  *)
LEMMA LooksFurther ==
  ASSUME NEW g \in [Vertex -> Seq(Vertex)], NEW s \in Seq(CallFrame), s # <<>>, NEW S, NEW T,
         Looks(g, s, S, T), NEW k \in Nat, Head(s).next = k, k \in 1 .. Len(g[Head(s).node]),
         NEW e \in CallFrame, e.node = g[Head(s).node][k], e.next = 0,
         NEW h \in CallFrame, h.node = Head(s).node, h.next = k + 1
  PROVE  Looks(g, <<e, h>> \o Tail(s), S, T)
<1> DEFINE u == <<e, h>> \o Tail(s)
<1>1. /\ Calls(s) = {Head(s)} \union Calls(Tail(s)) /\ Calls(u) = {e, h} \union Calls(Tail(s))
      /\ Head(u) = e /\ u # <<>>
  BY CallsOnTop
<1> HIDE DEF u
<1> SUFFICES ASSUME NEW r \in S, NEW i \in 1 .. Len(g[r]), g[r][i] \in T, g[r][i] \notin S
             PROVE  Due(u, r, i) \/ Coming(u, g[r][i])
  BY DEF Looks, u
<1>2. ~Coming(s, g[r][i])
  BY DEF Coming
<1>3. PICK f \in Calls(s) : f.node = r /\ f.next \in 1 .. i
  BY <1>2 DEF Looks, Due
<1>4. CASE f \in Calls(Tail(s))
  BY <1>1, <1>3, <1>4 DEF Due
<1>5. CASE f = Head(s) /\ k = i
  BY <1>1, <1>3, <1>5 DEF Coming
<1>6. CASE f = Head(s) /\ k # i
  <2>1. h.node = r /\ h.next \in 1 .. i
    BY <1>3, <1>6
  <2> QED
    BY <1>1, <2>1 DEF Due
<1> QED
  BY <1>1, <1>3, <1>4, <1>5, <1>6

(* It enters its node, which leaves the others in T as they are.           *)
LEMMA LooksBelow ==
  ASSUME NEW g \in [Vertex -> Seq(Vertex)], NEW s \in Seq(CallFrame), s # <<>>, NEW S, NEW T, NEW U,
         Looks(g, s, S, T), Head(s).next = 0, NEW n, Head(s).node = n,
         \A m \in U : m = n \/ m \in T,
         NEW h \in CallFrame, h.node = n, h.next = 1
  PROVE  Looks(g, <<h>> \o Tail(s), S \union {n}, U)
<1> DEFINE u == <<h>> \o Tail(s)
<1>1. /\ Calls(s) = {Head(s)} \union Calls(Tail(s)) /\ Calls(u) = {h} \union Calls(Tail(s))
  BY CallsOnTop
<1> HIDE DEF u
<1> SUFFICES ASSUME NEW r \in S \union {n}, NEW i \in 1 .. Len(g[r]), g[r][i] \in U,
                    g[r][i] \notin S, g[r][i] # n
             PROVE  Due(u, r, i)
  BY DEF Looks, u
<1>2. CASE r = n
  <2>1. 1 \in 1 .. i
    OBVIOUS
  <2> QED
    BY <1>1, <1>2, <2>1 DEF Due
<1>3. CASE r \in S
  <2>1. ~Coming(s, g[r][i])
    BY DEF Coming
  <2>2. PICK f \in Calls(s) : f.node = r /\ f.next \in 1 .. i
    BY <1>3, <2>1 DEF Looks, Due
  <2>3. f # Head(s)
    <3>1. 0 \notin 1 .. i
      OBVIOUS
    <3> QED
      BY <2>2, <3>1
  <2> QED
    BY <1>1, <2>2, <2>3 DEF Due
<1> QED
  BY <1>2, <1>3

(* When it is over it has entered all that leads to a node.                *)
LEMMA LooksFind ==
  ASSUME NEW g, NEW root, NEW S \in SUBSET Vertex, root \in S, NEW T, Looks(g, <<>>, S, T),
         NEW n, ReachedIn(g, root, T \union S, n)
  PROVE  n \in S
<1>1. \A r, i : ~Due(<<>>, r, i) /\ ~Coming(<<>>, r)
  BY DEF Due, Coming, Calls
<1> QED
  BY <1>1 DEF Looks, ReachedIn

=============================================================================
