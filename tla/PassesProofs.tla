----------------------------- MODULE PassesProofs -----------------------------
(***************************************************************************)
(* Theorems about the passes, for any scenes, parameters and shaders, any  *)
(* frames and any failures.                                                *)
(***************************************************************************)
EXTENDS Passes, SequenceTheorems, FiniteSetTheorems, TLAPS
INSTANCE DataTheorems WITH Vertex <- {}, CallFrame <- {}

(***************************************************************************)
(* The folds                                                               *)
(***************************************************************************)
(* Only is what Append makes of the members of S, one position after the   *)
(* other.                                                                  *)
OnlyStepwise(g, seq, S) ==
  /\ g[0] = <<>> /\ Only(seq, S) = g[Len(seq)]
  /\ \A k \in 0 .. Len(seq) - 1 : g[k + 1] = IF seq[k + 1] \in S THEN Append(g[k], seq[k + 1]) ELSE g[k]

LEMMA OnlySteps ==
  ASSUME NEW T, NEW seq \in Seq(T), NEW S
  PROVE  \E g \in [0 .. Len(seq) -> Seq(T)] : OnlyStepwise(g, seq, S)
<1> DEFINE step == [p \in Seq(T) \X T |-> IF p[2] \in S THEN Append(p[1], p[2]) ELSE p[1]]
           Folds(it) == it = [s \in SUBSET DOMAIN seq |->
                                IF s = {} THEN <<>>
                                ELSE IF seq[Max(s)] \in S THEN Append(it[s \ {Max(s)}], seq[Max(s)])
                                     ELSE it[s \ {Max(s)}]]
           it == CHOOSE it : Folds(it)
<1>1. Len(seq) \in Nat /\ DOMAIN seq = 1 .. Len(seq) /\ \A i \in DOMAIN seq : seq[i] \in T
  OBVIOUS
<1>2. \A s \in SUBSET DOMAIN seq : s # {} => LastIn(s) = Max(s) /\ LastIn(s) \in DOMAIN seq
  BY <1>1, LastIsIn DEF LastIn, Max
<1>3. /\ step \in [Seq(T) \X T -> Seq(T)]
      /\ \A a \in Seq(T), b \in T : step[<<a, b>>] = IF b \in S THEN Append(a, b) ELSE a
  <2>1. \A a \in Seq(T), b \in T : Append(a, b) \in Seq(T)
    OBVIOUS
  <2> QED
    BY <2>1
<1> HIDE DEF step
<1>4. \E i : Folds(i)
  <2>0. <<>> \in Seq(T)
    OBVIOUS
  <2>1. PICK i \in [SUBSET DOMAIN seq -> Seq(T)] : IsLeftFold(i, seq, <<>>, step)
    BY <1>3, <2>0, LeftFoldExists, Zenon
  <2>2. ASSUME NEW s \in SUBSET DOMAIN seq, s # {}
        PROVE  i[s] = IF seq[Max(s)] \in S THEN Append(i[s \ {Max(s)}], seq[Max(s)]) ELSE i[s \ {Max(s)}]
    <3>1. seq[Max(s)] \in T /\ i[s \ {Max(s)}] \in Seq(T) /\ i[s] = step[<<i[s \ {Max(s)}], seq[Max(s)]>>]
      BY <1>1, <1>2, <2>1, <2>2 DEF IsLeftFold
    <3> QED
      BY <1>3, <3>1
  <2> QED
    BY <2>1, <2>2 DEF IsLeftFold
<1>5. Folds(it)
  <2> HIDE DEF Folds
  <2> QED
    BY <1>4, Zenon
<1>6. Only(seq, S) = it[DOMAIN seq]
  BY DEF Only, FoldLeft, MapThenFoldSet
<1> HIDE DEF it
<1>7. TakesSteps(it, seq, Seq(T), <<>>, step)
  <2>1. ASSUME NEW s \in SUBSET DOMAIN seq, s # {}, it[s \ {LastIn(s)}] \in Seq(T)
        PROVE  it[s] = step[<<it[s \ {LastIn(s)}], seq[LastIn(s)]>>]
    <3>1. /\ seq[Max(s)] \in T
          /\ it[s] = IF seq[Max(s)] \in S THEN Append(it[s \ {Max(s)}], seq[Max(s)]) ELSE it[s \ {Max(s)}]
      BY <1>1, <1>2, <1>5, <2>1
    <3> QED
      BY <1>2, <1>3, <2>1, <3>1, ZenonT(60)
  <2> QED
    BY <1>5, <2>1 DEF TakesSteps
<1>8. PICK g \in [0 .. Len(seq) -> Seq(T)] : IsStepwise(g, seq, <<>>, step, it[DOMAIN seq])
  BY <1>3, <1>7, <<>> \in Seq(T), LeftFoldSteps, Zenon
<1>9. \A k \in 0 .. Len(seq) - 1 : g[k] \in Seq(T) /\ seq[k + 1] \in T
  BY <1>1
<1> QED
  BY <1>3, <1>6, <1>8, <1>9, ZenonT(60) DEF IsStepwise, OnlyStepwise

(***************************************************************************)
(* The store                                                               *)
(***************************************************************************)
(* A GL buffer exists while it is referenced, and a block has the data of  *)
(* its fields.                                                             *)
Store ==
  [last : [Node -> Int], val : [DataNode -> Int], live : SUBSET Uniform, index : [Streamed -> Nat \ {0}],
   data : [Block -> Seq(Int)], changed : SUBSET Block, refs : [Resource -> Int], gpu : [Resource -> Seq(Int)],
   uploaded : [Resource -> Int], failed : BOOLEAN]

DataFit(e)     == \A b \in Block : DOMAIN e.data[b] = DOMAIN Fields[b]
BuffersFit(e)  ==
  \A r \in Resource : /\ e.gpu[r] # <<>> <=> e.refs[r] > 0
                      /\ r \in Block /\ e.refs[r] > 0 => DOMAIN e.gpu[r] = DOMAIN Fields[r]
Fitting        == {e \in Store : DataFit(e) /\ BuffersFit(e)}

(* What a pass binds: nodes with data, blocks with fields.                 *)
Bound == {n \in Buffer \union DOMAIN BlockOf \union Block : Target(n) \in Block => Fields[Target(n)] # <<>>}

(* The fields that the buffers do not show.                                *)
SameData(e, f) ==
  /\ f.last = e.last /\ f.val = e.val /\ f.live = e.live /\ f.index = e.index /\ f.data = e.data
  /\ f.changed = e.changed /\ f.failed = e.failed

LEMMA ContentExists ==
  ASSUME NEW e \in Fitting, NEW n \in Bound
  PROVE  /\ Target(n) \in Resource /\ Content(e, Target(n)) \in Seq(Int) /\ Content(e, Target(n)) # <<>>
         /\ Target(n) \in Block => DOMAIN Content(e, Target(n)) = DOMAIN Fields[Target(n)]
<1> DEFINE r == Target(n)
<1>1. r \in Resource /\ (r \in Block => Fields[r] # <<>>)
  BY GpuDataAssumption DEF Bound, Target, Resource
<1> HIDE DEF r
<1>2. CASE r \in Block
  <2>1. e.data[r] \in Seq(Int) /\ DOMAIN e.data[r] = DOMAIN Fields[r] /\ Fields[r] \in Seq(DataNode)
    BY <1>2, GpuDataAssumption DEF Fitting, Store, DataFit
  <2>2. e.data[r] # <<>>
    BY <1>1, <1>2, <2>1, EmptySeq
  <2> QED
    BY <1>1, <1>2, <2>1, <2>2 DEF Content, r
<1>3. CASE r \notin Block
  <2>1. e.val[r] \in Int
    BY <1>1, <1>3, GpuDataAssumption DEF Fitting, Store, Resource, DataNode
  <2> QED
    BY <1>1, <1>3, <2>1 DEF Content, r
<1> QED
  BY <1>2, <1>3

LEMMA RefOf ==
  ASSUME NEW e \in Fitting, NEW n \in Bound
  PROVE  LET r == Target(n)
             f == Ref(e, n)
         IN  /\ f \in Fitting /\ SameData(e, f)
             /\ f.refs = [e.refs EXCEPT ![r] = @ + 1]
             /\ \A q \in Resource : q # r \/ e.refs[r] # 0 => f.gpu[q] = e.gpu[q] /\ f.uploaded[q] = e.uploaded[q]
             /\ e.refs[r] = 0 => f.gpu[r] = Content(e, r) /\ f.uploaded[r] = Never
<1> DEFINE r == Target(n)
           f == Ref(e, n)
           refs == [e.refs EXCEPT ![r] = @ + 1]
           gpu  == IF e.refs[r] = 0 THEN [e.gpu EXCEPT ![r] = Content(e, r)] ELSE e.gpu
           last == IF e.refs[r] = 0 THEN [e.uploaded EXCEPT ![r] = Never] ELSE e.uploaded
<1>1. /\ r \in Resource /\ Content(e, r) \in Seq(Int) /\ Content(e, r) # <<>>
      /\ r \in Block => DOMAIN Content(e, r) = DOMAIN Fields[r]
  BY ContentExists
<1>2. e \in Store /\ e.refs \in [Resource -> Int] /\ e.gpu \in [Resource -> Seq(Int)] /\ e.uploaded \in [Resource -> Int]
  BY DEF Fitting, Store
<1>3. refs \in [Resource -> Int] /\ gpu \in [Resource -> Seq(Int)] /\ last \in [Resource -> Int]
  BY <1>1, <1>2 DEF Never
<1>4. f \in Store /\ f.refs = refs /\ f.gpu = gpu /\ f.uploaded = last /\ SameData(e, f)
  <2>1. CASE e.refs[r] = 0
    <3>1. f = [e EXCEPT !.refs[r] = 1, !.gpu[r] = Content(e, r), !.uploaded[r] = Never]
      BY <2>1 DEF Ref
    <3>2. /\ refs = [e.refs EXCEPT ![r] = 1] /\ gpu = [e.gpu EXCEPT ![r] = Content(e, r)]
          /\ last = [e.uploaded EXCEPT ![r] = Never]
      BY <2>1
    <3> HIDE DEF refs, gpu, last, f
    <3>3. f = [e EXCEPT !.refs = refs, !.gpu = gpu, !.uploaded = last]
      BY <1>2, <3>1, <3>2 DEF Store
    <3> QED
      BY <1>2, <1>3, <3>3 DEF Store, SameData
  <2>2. CASE e.refs[r] # 0
    <3>1. f = [e EXCEPT !.refs = refs]
      BY <2>2 DEF Ref
    <3>2. gpu = e.gpu /\ last = e.uploaded
      BY <2>2
    <3> HIDE DEF refs, gpu, last, f
    <3> QED
      BY <1>2, <1>3, <3>1, <3>2 DEF Store, SameData
  <2> QED
    BY <2>1, <2>2
<1> HIDE DEF f, r
<1>6. DataFit(f) /\ BuffersFit(f)
  BY <1>1, <1>2, <1>4 DEF Fitting, DataFit, BuffersFit, SameData
<1> QED
  BY <1>1, <1>2, <1>4, <1>6 DEF Fitting, r, f

LEMMA UnrefOf ==
  ASSUME NEW e \in Fitting, NEW n \in Bound
  PROVE  LET r == Target(n)
             f == Unref(e, n)
         IN  /\ f \in Fitting /\ SameData(e, f) /\ f.uploaded = e.uploaded
             /\ f.refs = [e.refs EXCEPT ![r] = @ - 1]
             /\ \A q \in Resource : q # r \/ e.refs[r] # 1 => f.gpu[q] = e.gpu[q]
<1> DEFINE r == Target(n)
           f == Unref(e, n)
           refs == [e.refs EXCEPT ![r] = @ - 1]
           gpu  == [e.gpu EXCEPT ![r] = IF e.refs[r] = 1 THEN <<>> ELSE @]
<1>1. r \in Resource
  BY ContentExists
<1>2. e \in Store /\ e.refs \in [Resource -> Int] /\ e.gpu \in [Resource -> Seq(Int)] /\ e.uploaded \in [Resource -> Int]
  BY DEF Fitting, Store
<1>3. refs \in [Resource -> Int] /\ gpu \in [Resource -> Seq(Int)]
  BY <1>1, <1>2
<1>4. f = [e EXCEPT !.refs = refs, !.gpu = gpu]
  <2>1. f = [e EXCEPT !.refs[r] = @ - 1, !.gpu[r] = IF e.refs[r] = 1 THEN <<>> ELSE @]
    BY DEF Unref, NoBuffer
  <2> HIDE DEF f
  <2> QED
    BY <1>2, <2>1 DEF Store
<1>5. f \in Store /\ f.refs = refs /\ f.gpu = gpu /\ f.uploaded = e.uploaded /\ SameData(e, f)
  <2> HIDE DEF refs, gpu, f
  <2> QED
    BY <1>2, <1>3, <1>4 DEF Store, SameData
<1> HIDE DEF r, f
<1>6. DataFit(f) /\ BuffersFit(f)
  BY <1>1, <1>2, <1>5 DEF Fitting, DataFit, BuffersFit, SameData
<1> QED
  BY <1>1, <1>2, <1>5, <1>6 DEF Fitting, r, f

(* Nodes referenced one after the other, and given back.                   *)
RefsStepwise(g, e, seq) ==
  /\ g[0] = e /\ FoldLeft(Ref, e, seq) = g[Len(seq)]
  /\ \A k \in 0 .. Len(seq) - 1 : g[k + 1] = Ref(g[k], seq[k + 1])

LEMMA RefSteps ==
  ASSUME NEW seq \in Seq(Bound), NEW e \in Fitting
  PROVE  \E g \in [0 .. Len(seq) -> Fitting] : RefsStepwise(g, e, seq)
<1> DEFINE step == [p \in Fitting \X Bound |-> Ref(p[1], p[2])]
           Folds(it) == it = [s \in SUBSET DOMAIN seq |-> IF s = {} THEN e ELSE Ref(it[s \ {Max(s)}], seq[Max(s)])]
           it == CHOOSE it : Folds(it)
<1>1. Len(seq) \in Nat /\ DOMAIN seq = 1 .. Len(seq) /\ \A i \in DOMAIN seq : seq[i] \in Bound
  OBVIOUS
<1>2. \A s \in SUBSET DOMAIN seq : s # {} => LastIn(s) = Max(s) /\ LastIn(s) \in DOMAIN seq
  BY <1>1, LastIsIn DEF LastIn, Max
<1>3. step \in [Fitting \X Bound -> Fitting] /\ \A a \in Fitting, b \in Bound : step[<<a, b>>] = Ref(a, b)
  <2>1. \A a \in Fitting, b \in Bound : Ref(a, b) \in Fitting
    BY RefOf
  <2> QED
    BY <2>1
<1> HIDE DEF step
<1>4. \E i : Folds(i)
  <2>1. PICK i \in [SUBSET DOMAIN seq -> Fitting] : IsLeftFold(i, seq, e, step)
    BY <1>3, LeftFoldExists, Zenon
  <2>2. ASSUME NEW s \in SUBSET DOMAIN seq, s # {}
        PROVE  i[s] = Ref(i[s \ {Max(s)}], seq[Max(s)])
    <3>1. seq[Max(s)] \in Bound /\ i[s \ {Max(s)}] \in Fitting /\ i[s] = step[<<i[s \ {Max(s)}], seq[Max(s)]>>]
      BY <1>1, <1>2, <2>1, <2>2 DEF IsLeftFold
    <3> QED
      BY <1>3, <3>1
  <2> QED
    BY <2>1, <2>2 DEF IsLeftFold
<1>5. Folds(it)
  <2> HIDE DEF Folds
  <2> QED
    BY <1>4, Zenon
<1>6. FoldLeft(Ref, e, seq) = it[DOMAIN seq]
  BY DEF FoldLeft, MapThenFoldSet
<1> HIDE DEF it
<1>7. TakesSteps(it, seq, Fitting, e, step)
  <2>1. ASSUME NEW s \in SUBSET DOMAIN seq, s # {}, it[s \ {LastIn(s)}] \in Fitting
        PROVE  it[s] = step[<<it[s \ {LastIn(s)}], seq[LastIn(s)]>>]
    <3>1. seq[Max(s)] \in Bound /\ it[s] = Ref(it[s \ {Max(s)}], seq[Max(s)])
      BY <1>1, <1>2, <1>5, <2>1
    <3> QED
      BY <1>2, <1>3, <2>1, <3>1
  <2> QED
    BY <1>5, <2>1 DEF TakesSteps
<1>8. PICK g \in [0 .. Len(seq) -> Fitting] : IsStepwise(g, seq, e, step, it[DOMAIN seq])
  BY <1>3, <1>7, LeftFoldSteps, Zenon
<1>9. \A k \in 0 .. Len(seq) - 1 : g[k] \in Fitting /\ seq[k + 1] \in Bound
  BY <1>1
<1> QED
  BY <1>3, <1>6, <1>8, <1>9, ZenonT(60) DEF IsStepwise, RefsStepwise

UnrefsStepwise(g, e, seq) ==
  /\ g[0] = e /\ FoldLeft(Unref, e, seq) = g[Len(seq)]
  /\ \A k \in 0 .. Len(seq) - 1 : g[k + 1] = Unref(g[k], seq[k + 1])

LEMMA UnrefSteps ==
  ASSUME NEW seq \in Seq(Bound), NEW e \in Fitting
  PROVE  \E g \in [0 .. Len(seq) -> Fitting] : UnrefsStepwise(g, e, seq)
<1> DEFINE step == [p \in Fitting \X Bound |-> Unref(p[1], p[2])]
           Folds(it) == it = [s \in SUBSET DOMAIN seq |-> IF s = {} THEN e ELSE Unref(it[s \ {Max(s)}], seq[Max(s)])]
           it == CHOOSE it : Folds(it)
<1>1. Len(seq) \in Nat /\ DOMAIN seq = 1 .. Len(seq) /\ \A i \in DOMAIN seq : seq[i] \in Bound
  OBVIOUS
<1>2. \A s \in SUBSET DOMAIN seq : s # {} => LastIn(s) = Max(s) /\ LastIn(s) \in DOMAIN seq
  BY <1>1, LastIsIn DEF LastIn, Max
<1>3. step \in [Fitting \X Bound -> Fitting] /\ \A a \in Fitting, b \in Bound : step[<<a, b>>] = Unref(a, b)
  <2>1. \A a \in Fitting, b \in Bound : Unref(a, b) \in Fitting
    BY UnrefOf
  <2> QED
    BY <2>1
<1> HIDE DEF step
<1>4. \E i : Folds(i)
  <2>1. PICK i \in [SUBSET DOMAIN seq -> Fitting] : IsLeftFold(i, seq, e, step)
    BY <1>3, LeftFoldExists, Zenon
  <2>2. ASSUME NEW s \in SUBSET DOMAIN seq, s # {}
        PROVE  i[s] = Unref(i[s \ {Max(s)}], seq[Max(s)])
    <3>1. seq[Max(s)] \in Bound /\ i[s \ {Max(s)}] \in Fitting /\ i[s] = step[<<i[s \ {Max(s)}], seq[Max(s)]>>]
      BY <1>1, <1>2, <2>1, <2>2 DEF IsLeftFold
    <3> QED
      BY <1>3, <3>1
  <2> QED
    BY <2>1, <2>2 DEF IsLeftFold
<1>5. Folds(it)
  <2> HIDE DEF Folds
  <2> QED
    BY <1>4, Zenon
<1>6. FoldLeft(Unref, e, seq) = it[DOMAIN seq]
  BY DEF FoldLeft, MapThenFoldSet
<1> HIDE DEF it
<1>7. TakesSteps(it, seq, Fitting, e, step)
  <2>1. ASSUME NEW s \in SUBSET DOMAIN seq, s # {}, it[s \ {LastIn(s)}] \in Fitting
        PROVE  it[s] = step[<<it[s \ {LastIn(s)}], seq[LastIn(s)]>>]
    <3>1. seq[Max(s)] \in Bound /\ it[s] = Unref(it[s \ {Max(s)}], seq[Max(s)])
      BY <1>1, <1>2, <1>5, <2>1
    <3> QED
      BY <1>2, <1>3, <2>1, <3>1
  <2> QED
    BY <1>5, <2>1 DEF TakesSteps
<1>8. PICK g \in [0 .. Len(seq) -> Fitting] : IsStepwise(g, seq, e, step, it[DOMAIN seq])
  BY <1>3, <1>7, LeftFoldSteps, Zenon
<1>9. \A k \in 0 .. Len(seq) - 1 : g[k] \in Fitting /\ seq[k + 1] \in Bound
  BY <1>1
<1> QED
  BY <1>3, <1>6, <1>8, <1>9, ZenonT(60) DEF IsStepwise, UnrefsStepwise

(***************************************************************************)
(* The updates                                                             *)
(***************************************************************************)
SameBuffers(e, f) == f.refs = e.refs /\ f.gpu = e.gpu /\ f.uploaded = e.uploaded

(* A node is of one class.                                                 *)
LEMMA OneClass ==
  /\ Uniform \intersect Animated = {} /\ Uniform \intersect Streamed = {} /\ Uniform \intersect Static = {}
  /\ Animated \intersect Streamed = {} /\ Animated \intersect Static = {} /\ Streamed \intersect Static = {}
  /\ DataNode \intersect Block = {} /\ DataNode \intersect DOMAIN BlockOf = {}
  /\ Block \intersect DOMAIN BlockOf = {}
<1> DEFINE C == Classes
<1>1. /\ DOMAIN C = 1 .. 6 /\ C[1] = Uniform /\ C[2] = Animated /\ C[3] = Streamed /\ C[4] = Static
      /\ C[5] = Block /\ C[6] = DOMAIN BlockOf
  BY DEF Classes
<1>2. \A i, j \in DOMAIN C : i # j => C[i] \intersect C[j] = {}
  BY GpuDataAssumption
<1> HIDE DEF C
<1>3. \A i, j \in 1 .. 6 : i # j => C[i] \intersect C[j] = {}
  BY <1>1, <1>2
<1>4. /\ C[1] \intersect C[2] = {} /\ C[1] \intersect C[3] = {} /\ C[1] \intersect C[4] = {}
      /\ C[2] \intersect C[3] = {} /\ C[2] \intersect C[4] = {} /\ C[3] \intersect C[4] = {}
  BY <1>3
<1>5. /\ C[1] \intersect C[5] = {} /\ C[2] \intersect C[5] = {} /\ C[3] \intersect C[5] = {}
      /\ C[4] \intersect C[5] = {}
  BY <1>3
<1>6. /\ C[1] \intersect C[6] = {} /\ C[2] \intersect C[6] = {} /\ C[3] \intersect C[6] = {}
      /\ C[4] \intersect C[6] = {} /\ C[5] \intersect C[6] = {}
  BY <1>3
<1> QED
  BY <1>1, <1>4, <1>5, <1>6 DEF DataNode

LEMMA IndexType ==
  ASSUME NEW n \in Streamed, NEW start \in Nat \ {0}, NEW time \in Nat
  PROVE  DataIndex(n, start, time) \in Nat /\ StreamedIndex(n, start, time) \in Nat \ {0}
<1> DEFINE due(s) == {i \in s .. Len(Timestamps[n]) : Timestamps[n][i] > time}
<1>1. Len(Timestamps[n]) \in Nat
  BY GpuDataAssumption
<1>2. ASSUME NEW s \in Nat \ {0}
      PROVE  DataIndex(n, s, time) \in Nat
  <2>1. CASE due(s) = {}
    BY <1>1, <2>1 DEF DataIndex
  <2>2. CASE due(s) # {}
    <3> DEFINE D == due(s)
               i == CHOOSE i \in D : \A j \in D : i <= j
    <3>1. D \in SUBSET Nat /\ D # {}
      BY <1>1, <2>2
    <3>2. i \in D
      <4> DEFINE Least(x) == x \in D /\ \A j \in D : x <= j
      <4>1. \E x : Least(x)
        <5> HIDE DEF D
        <5> QED
          BY <3>1, LeastExists
      <4>2. i = CHOOSE x : Least(x)
        BY Zenon
      <4>3. Least(i)
        <5> HIDE DEF Least, D, i
        <5> QED
          BY <4>1, <4>2, Zenon
      <4> HIDE DEF i, D
      <4> QED
        BY <4>3
    <3>3. i \in Nat \ {0}
      <4>1. i \in s .. Len(Timestamps[n])
        <5> HIDE DEF i
        <5> QED
          BY <3>2
      <4> HIDE DEF i
      <4> QED
        BY <1>1, <4>1
    <3>4. DataIndex(n, s, time) = IF i = s THEN 0 ELSE i - 1
      BY <2>2 DEF DataIndex
    <3> HIDE DEF i
    <3> QED
      BY <3>3, <3>4
  <2> QED
    BY <2>1, <2>2
<1>3. DataIndex(n, start, time) \in Nat /\ DataIndex(n, 1, time) \in Nat
  BY <1>2
<1> QED
  BY <1>3 DEF StreamedIndex

(* The update of a node with data.                                         *)
LEMMA UpdateDataOf ==
  ASSUME NEW e \in Fitting, NEW n \in DataNode, NEW time \in Nat, NEW bad
  PROVE  LET f == UpdateData(e, n, time, bad)
         IN  /\ f \in Fitting /\ SameBuffers(e, f) /\ f.data = e.data /\ f.changed = e.changed
             /\ e.failed => f = e
<1> DEFINE f == UpdateData(e, n, time, bad)
<1>1. /\ e \in Store /\ e.last \in [Node -> Int] /\ e.val \in [DataNode -> Int] /\ e.live \in SUBSET Uniform
      /\ e.index \in [Streamed -> Nat \ {0}]
  BY DEF Fitting, Store
<1>2. n \in Node /\ (n \notin Static => n \in Uniform \/ n \in Animated \/ n \in Streamed)
  BY DEF DataNode, Node
<1> DEFINE Same(h) == /\ h \in Store /\ SameBuffers(e, h) /\ h.data = e.data /\ h.changed = e.changed
<1>3. ASSUME NEW h, Same(h)
      PROVE  h \in Fitting
  BY <1>3 DEF SameBuffers, Fitting, DataFit, BuffersFit
<1>4. CASE e.failed \/ n \in Static \/ e.last[n] = time
  BY <1>4 DEF UpdateData, SameBuffers
<1>5. CASE ~ (e.failed \/ n \in Static \/ e.last[n] = time) /\ n \in bad
  <2>1. f = [e EXCEPT !.failed = TRUE]
    BY <1>5 DEF UpdateData
  <2> HIDE DEF f
  <2>2. Same(f)
    BY <1>1, <2>1 DEF Store, SameBuffers
  <2> QED
    BY <1>3, <1>5, <2>2 DEF f
<1>6. CASE ~ (e.failed \/ n \in Static \/ e.last[n] = time) /\ n \notin bad
  <2> DEFINE h == Evaluate(e, n, time)
             last == [e.last EXCEPT ![n] = time]
  <2>1. Same(h) /\ h.last = e.last
    <3>1. CASE n \in Uniform
      <4>1. h = [e EXCEPT !.live = @ \ {n}]
        <5>1. n \notin Animated /\ n \notin Streamed
          BY <3>1, OneClass
        <5> QED
          BY <3>1, <5>1 DEF Evaluate, UniformUpdate
      <4> HIDE DEF h
      <4> QED
        BY <1>1, <4>1 DEF Store, SameBuffers
    <3>2. CASE n \in Animated
      <4> DEFINE val == [e.val EXCEPT ![n] = time + 1]
      <4>1. h = [e EXCEPT !.val = val]
        <5>1. n \notin Uniform /\ n \notin Streamed
          BY <3>2, OneClass
        <5> QED
          BY <3>2, <5>1 DEF Evaluate, AnimatedUpdate
      <4>2. val \in [DataNode -> Int]
        BY <1>1
      <4> HIDE DEF h, val
      <4> QED
        BY <1>1, <4>1, <4>2 DEF Store, SameBuffers
    <3>3. CASE n \in Streamed
      <4> DEFINE i == StreamedIndex(n, e.index[n], time)
                 val == [e.val EXCEPT ![n] = i]
                 index == [e.index EXCEPT ![n] = i]
      <4>1. h = [e EXCEPT !.index = index, !.val = val]
        <5>1. n \notin Uniform /\ n \notin Animated
          BY <3>3, OneClass
        <5> QED
          BY <3>3, <5>1 DEF Evaluate, StreamedUpdate
      <4>2. i \in Nat \ {0}
        BY <1>1, <3>3, IndexType
      <4>3. val \in [DataNode -> Int] /\ index \in [Streamed -> Nat \ {0}]
        <5> HIDE DEF i
        <5> QED
          BY <1>1, <3>3, <4>2
      <4> HIDE DEF h, val, index
      <4> QED
        BY <1>1, <4>1, <4>3 DEF Store, SameBuffers
    <3> QED
      BY <1>2, <1>6, <3>1, <3>2, <3>3
  <2>2. f = [h EXCEPT !.last = last]
    BY <1>6, <2>1 DEF UpdateData
  <2>3. last \in [Node -> Int]
    BY <1>1, <1>2
  <2> HIDE DEF f, h, last
  <2>4. Same(f)
    BY <2>1, <2>2, <2>3 DEF Store, SameBuffers
  <2> QED
    BY <1>3, <1>6, <2>4 DEF f
<1> QED
  BY <1>4, <1>5, <1>6

(* The fields of a block, updated one after the other.                     *)
FieldsStepwise(g, e, seq, time, bad) ==
  /\ g[0] = e /\ UpdateFields(e, seq, time, bad) = g[Len(seq)]
  /\ \A k \in 0 .. Len(seq) - 1 : g[k + 1] = UpdateData(g[k], seq[k + 1], time, bad)

LEMMA FieldSteps ==
  ASSUME NEW seq \in Seq(DataNode), NEW e \in Fitting, NEW time \in Nat, NEW bad
  PROVE  \E g \in [0 .. Len(seq) -> Fitting] : FieldsStepwise(g, e, seq, time, bad)
<1> DEFINE step == [p \in Fitting \X DataNode |-> UpdateData(p[1], p[2], time, bad)]
           Folds(it) == it = [s \in SUBSET DOMAIN seq |->
                                IF s = {} THEN e ELSE UpdateData(it[s \ {Max(s)}], seq[Max(s)], time, bad)]
           it == CHOOSE it : Folds(it)
<1>1. Len(seq) \in Nat /\ DOMAIN seq = 1 .. Len(seq) /\ \A i \in DOMAIN seq : seq[i] \in DataNode
  OBVIOUS
<1>2. \A s \in SUBSET DOMAIN seq : s # {} => LastIn(s) = Max(s) /\ LastIn(s) \in DOMAIN seq
  BY <1>1, LastIsIn DEF LastIn, Max
<1>3. step \in [Fitting \X DataNode -> Fitting] /\ \A a \in Fitting, b \in DataNode : step[<<a, b>>] = UpdateData(a, b, time, bad)
  <2>1. \A a \in Fitting, b \in DataNode : UpdateData(a, b, time, bad) \in Fitting
    BY UpdateDataOf
  <2> QED
    BY <2>1
<1> HIDE DEF step
<1>4. \E i : Folds(i)
  <2>1. PICK i \in [SUBSET DOMAIN seq -> Fitting] : IsLeftFold(i, seq, e, step)
    BY <1>3, LeftFoldExists, Zenon
  <2>2. ASSUME NEW s \in SUBSET DOMAIN seq, s # {}
        PROVE  i[s] = UpdateData(i[s \ {Max(s)}], seq[Max(s)], time, bad)
    <3>1. seq[Max(s)] \in DataNode /\ i[s \ {Max(s)}] \in Fitting /\ i[s] = step[<<i[s \ {Max(s)}], seq[Max(s)]>>]
      BY <1>1, <1>2, <2>1, <2>2 DEF IsLeftFold
    <3> QED
      BY <1>3, <3>1
  <2> QED
    BY <2>1, <2>2 DEF IsLeftFold
<1>5. Folds(it)
  <2> HIDE DEF Folds
  <2> QED
    BY <1>4, Zenon
<1>6. UpdateFields(e, seq, time, bad) = it[DOMAIN seq]
  BY DEF UpdateFields, FoldLeft, MapThenFoldSet
<1> HIDE DEF it
<1>7. TakesSteps(it, seq, Fitting, e, step)
  <2>1. ASSUME NEW s \in SUBSET DOMAIN seq, s # {}, it[s \ {LastIn(s)}] \in Fitting
        PROVE  it[s] = step[<<it[s \ {LastIn(s)}], seq[LastIn(s)]>>]
    <3>1. seq[Max(s)] \in DataNode /\ it[s] = UpdateData(it[s \ {Max(s)}], seq[Max(s)], time, bad)
      BY <1>1, <1>2, <1>5, <2>1
    <3> QED
      BY <1>2, <1>3, <2>1, <3>1
  <2> QED
    BY <1>5, <2>1 DEF TakesSteps
<1>8. PICK g \in [0 .. Len(seq) -> Fitting] : IsStepwise(g, seq, e, step, it[DOMAIN seq])
  BY <1>3, <1>7, LeftFoldSteps, Zenon
<1>9. \A k \in 0 .. Len(seq) - 1 : g[k] \in Fitting /\ seq[k + 1] \in DataNode
  BY <1>1
<1> QED
  BY <1>3, <1>6, <1>8, <1>9 DEF IsStepwise, FieldsStepwise

(* The blocks that only a change of scene or a compute shader changes.     *)
StaticBlock == {b \in Block : ToSet(Fields[b]) \subseteq Static}

(* What an update leaves alone.                                            *)
Updates(e, f) ==
  /\ f \in Fitting /\ SameBuffers(e, f)
  /\ \A b \in StaticBlock : b \in f.changed <=> b \in e.changed

LEMMA FieldsOf ==
  ASSUME NEW e \in Fitting, NEW seq \in Seq(DataNode), NEW time \in Nat, NEW bad
  PROVE  LET f == UpdateFields(e, seq, time, bad)
         IN  f \in Fitting /\ SameBuffers(e, f) /\ f.data = e.data /\ f.changed = e.changed
<1> DEFINE Same(h) == SameBuffers(e, h) /\ h.data = e.data /\ h.changed = e.changed
<1>1. PICK g \in [0 .. Len(seq) -> Fitting] : FieldsStepwise(g, e, seq, time, bad)
  BY FieldSteps, Zenon
<1>2. Len(seq) \in Nat /\ \A k \in 0 .. Len(seq) - 1 : g[k] \in Fitting /\ seq[k + 1] \in DataNode
  OBVIOUS
<1> DEFINE G == {k \in 0 .. Len(seq) : Same(g[k])}
<1>3. 0 \in G /\ \A k \in 0 .. Len(seq) - 1 : k \in G => k + 1 \in G
  <2>1. 0 \in G
    BY <1>1, <1>2 DEF SameBuffers, FieldsStepwise
  <2>2. ASSUME NEW k \in 0 .. Len(seq) - 1, k \in G
        PROVE  k + 1 \in G
    <3> DEFINE h == UpdateData(g[k], seq[k + 1], time, bad)
    <3>1. SameBuffers(g[k], h) /\ h.data = g[k].data /\ h.changed = g[k].changed
      BY <1>2, UpdateDataOf
    <3>2. h = g[k + 1] /\ k + 1 \in 0 .. Len(seq) /\ Same(g[k])
      BY <1>1, <1>2, <2>2 DEF FieldsStepwise
    <3> HIDE DEF h
    <3> QED
      BY <3>1, <3>2 DEF SameBuffers
  <2> QED
    BY <2>1, <2>2
<1>4. \A k \in 0 .. Len(seq) : k \in G
  <2> HIDE DEF G
  <2> QED
    BY <1>2, <1>3, CountingUp
<1>5. Len(seq) \in 0 .. Len(seq) /\ g[Len(seq)] \in Fitting
  BY <1>2
<1> QED
  BY <1>1, <1>4, <1>5 DEF FieldsStepwise

LEMMA CopyFieldsOf ==
  ASSUME NEW e \in Fitting, NEW b \in Block
  PROVE  LET f == CopyFields(e, b)
         IN  Updates(e, f) /\ f.last = e.last /\ f.failed = e.failed
<1> DEFINE f == CopyFields(e, b)
           copied == {i \in DOMAIN Fields[b] : Fields[b][i] \in Dynamic \union e.live}
           fields == [i \in DOMAIN Fields[b] |-> IF i \in copied THEN e.val[Fields[b][i]] ELSE e.data[b][i]]
           data == [e.data EXCEPT ![b] = fields]
           changed == IF copied = {} THEN e.changed ELSE e.changed \union {b}
<1>1. /\ e \in Store /\ e.data \in [Block -> Seq(Int)] /\ e.changed \in SUBSET Block /\ e.live \in SUBSET Uniform
      /\ e.val \in [DataNode -> Int] /\ DOMAIN e.data[b] = DOMAIN Fields[b]
  BY DEF Fitting, Store, DataFit
<1>2. Fields[b] \in Seq(DataNode)
  BY GpuDataAssumption
<1>3. f = [e EXCEPT !.data = data, !.changed = changed]
  <2>1. f = [e EXCEPT !.data[b] = fields, !.changed = changed]
    BY DEF CopyFields
  <2> HIDE DEF f, fields, changed
  <2> QED
    BY <1>1, <2>1 DEF Store
<1>4. data \in [Block -> Seq(Int)] /\ DOMAIN data[b] = DOMAIN Fields[b] /\ \A c \in Block \ {b} : data[c] = e.data[c]
  <2>1. fields \in Seq(Int) /\ DOMAIN fields = DOMAIN Fields[b]
    <3>1. \A i \in 1 .. Len(Fields[b]) : fields[i] \in Int
      BY <1>1, <1>2
    <3>2. fields = [i \in 1 .. Len(Fields[b]) |-> fields[i]] /\ Len(Fields[b]) \in Nat
      BY <1>2
    <3> HIDE DEF fields
    <3> QED
      BY <3>1, <3>2
  <2> HIDE DEF fields
  <2> QED
    BY <1>1, <2>1
<1>5. changed \in SUBSET Block /\ (b \in StaticBlock => copied = {})
  <2>1. changed \in SUBSET Block
    BY <1>1
  <2>2. ASSUME b \in StaticBlock
        PROVE  copied = {}
    <3>1. \A i \in DOMAIN Fields[b] : Fields[b][i] \in Static
      BY <1>2, <2>2 DEF StaticBlock, ToSet
    <3> QED
      BY <1>1, <3>1, OneClass DEF Dynamic
  <2> QED
    BY <2>1, <2>2
<1>6. \A c \in StaticBlock : c \in changed <=> c \in e.changed
  BY <1>5
<1> HIDE DEF f, data, changed
<1>7. f \in Store /\ f.data = data /\ f.changed = changed /\ SameBuffers(e, f) /\ f.last = e.last /\ f.failed = e.failed
  BY <1>1, <1>3, <1>4, <1>5 DEF Store, SameBuffers
<1>8. f \in Fitting
  BY <1>4, <1>7 DEF Fitting, DataFit, BuffersFit, SameBuffers
<1> QED
  BY <1>6, <1>7, <1>8 DEF Updates, f

LEMMA UpdateNodeOf ==
  ASSUME NEW e \in Fitting, NEW n \in Node, NEW time \in Nat, NEW bad
  PROVE  LET f == UpdateNode(e, n, time, bad)
         IN  /\ Updates(e, f)
             /\ n \in Block /\ ~ f.failed => f.last[n] = time
             /\ e.failed => f = e
<1> DEFINE f == UpdateNode(e, n, time, bad)
<1>1. Updates(e, e)
  BY DEF Updates, SameBuffers
<1>2. CASE n \in DataNode
  <2>1. f = UpdateData(e, n, time, bad) /\ n \notin Block
    BY <1>2, OneClass DEF UpdateNode
  <2> HIDE DEF f
  <2>2. f \in Fitting /\ SameBuffers(e, f) /\ f.changed = e.changed /\ (e.failed => f = e)
    BY <1>2, <2>1, UpdateDataOf
  <2> QED
    BY <2>1, <2>2 DEF Updates, f
<1>3. CASE n \in DOMAIN BlockOf
  <2>1. f = e /\ n \notin Block
    BY <1>3, OneClass DEF UpdateNode
  <2> QED
    BY <1>1, <2>1
<1>4. CASE n \in Block
  <2>1. f = UpdateBlock(e, n, time, bad)
    BY <1>4, OneClass DEF UpdateNode
  <2>2. CASE e.failed \/ e.last[n] = time
    <3>1. f = e
      BY <2>1, <2>2 DEF UpdateBlock
    <3> QED
      BY <1>1, <2>2, <3>1
  <2>3. CASE ~ (e.failed \/ e.last[n] = time)
    <3> DEFINE fields == UpdateFields(e, Fields[n], time, bad)
    <3>1. fields \in Fitting /\ SameBuffers(e, fields) /\ fields.changed = e.changed
      <4>1. Fields[n] \in Seq(DataNode)
        BY <1>4, GpuDataAssumption
      <4> QED
        BY <4>1, FieldsOf
    <3>2. f = IF fields.failed THEN fields ELSE [CopyFields(fields, n) EXCEPT !.last[n] = time]
      BY <2>1, <2>3 DEF UpdateBlock
    <3> HIDE DEF fields, f
    <3>3. CASE fields.failed
      BY <2>3, <3>1, <3>2, <3>3 DEF Updates, f
    <3>4. CASE ~ fields.failed
      <4> DEFINE h == CopyFields(fields, n)
                 last == [h.last EXCEPT ![n] = time]
      <4>1. Updates(fields, h)
        BY <1>4, <3>1, CopyFieldsOf
      <4> HIDE DEF h
      <4>2. h \in Store /\ h.last \in [Node -> Int] /\ f = [h EXCEPT !.last = last]
        BY <3>2, <3>4, <4>1 DEF Updates, Fitting, Store, h
      <4>3. last \in [Node -> Int] /\ last[n] = time
        BY <4>2
      <4> HIDE DEF last
      <4>4. f \in Store /\ f.last = last /\ SameBuffers(h, f) /\ f.data = h.data /\ f.changed = h.changed
        BY <4>2, <4>3 DEF Store, SameBuffers
      <4>5. f \in Fitting
        BY <4>1, <4>4 DEF Updates, Fitting, DataFit, BuffersFit, SameBuffers
      <4>6. Updates(e, f)
        BY <3>1, <4>1, <4>4, <4>5 DEF Updates, SameBuffers
      <4> QED
        BY <2>3, <4>3, <4>4, <4>6 DEF f
    <3> QED
      BY <3>3, <3>4
  <2> QED
    BY <2>2, <2>3
<1> QED
  BY <1>2, <1>3, <1>4 DEF Node

(***************************************************************************)
(* The uploads                                                             *)
(***************************************************************************)
(* The nodes bound to a buffer that exists.                                *)
Backed(e) == {n \in Bound : e.refs[Target(n)] > 0}

(* A block that waits for an upload has not been uploaded since its buffer *)
(* exists, and then stays as it is.                                        *)
Fresh(e) == \A b \in StaticBlock : b \in e.changed /\ e.refs[b] > 0 => e.uploaded[b] = Never

Kept(e, f) ==
  /\ f \in Fitting /\ f.refs = e.refs
  /\ \A b \in StaticBlock : b \notin e.changed => b \notin f.changed /\ f.gpu[b] = e.gpu[b]
  /\ \A b \in StaticBlock : b \in f.changed => b \in e.changed /\ f.uploaded[b] = e.uploaded[b]

LEMMA KeptIsTransitive ==
  ASSUME NEW e, NEW f, NEW h, Kept(e, f), Kept(f, h)
  PROVE  Kept(e, h)
BY DEF Kept

LEMMA FreshIsKept ==
  ASSUME NEW e, NEW f, Fresh(e), Kept(e, f)
  PROVE  Fresh(f)
BY DEF Kept, Fresh

LEMMA UpdatesKeep ==
  ASSUME NEW e, NEW f, Updates(e, f)
  PROVE  Kept(e, f)
BY DEF Kept, Updates, SameBuffers

LEMMA UploadOf ==
  ASSUME NEW e \in Fitting, NEW n \in Backed(e)
  PROVE  LET f == Upload(e, n)
         IN  /\ Kept(e, f) /\ f.last = e.last /\ f.failed = e.failed
             /\ n \in Block /\ e.uploaded[n] # e.last[n] => n \notin f.changed
<1> DEFINE f == Upload(e, n)
           r == Target(n)
           gpu == [e.gpu EXCEPT ![r] = Content(e, r)]
           uploaded == [e.uploaded EXCEPT ![r] = e.last[r]]
           changed == IF r \in Block THEN e.changed \ {r} ELSE e.changed
<1>1. /\ r \in Resource /\ Content(e, r) \in Seq(Int) /\ Content(e, r) # <<>> /\ e.refs[r] > 0
      /\ r \in Block => DOMAIN Content(e, r) = DOMAIN Fields[r]
  BY ContentExists DEF Backed
<1>2. /\ e \in Store /\ e.refs \in [Resource -> Int] /\ e.gpu \in [Resource -> Seq(Int)]
      /\ e.uploaded \in [Resource -> Int] /\ e.last \in [Node -> Int] /\ e.changed \in SUBSET Block
  BY DEF Fitting, Store
<1>3. n \in Block => r = n
  BY OneClass DEF Target
<1>4. r \notin Block => r = n
  BY <1>1, GpuDataAssumption DEF Target
<1>5. CASE f = e /\ (n \in Block => n \notin e.changed \/ e.uploaded[n] = e.last[n])
  BY <1>5 DEF Kept
<1>6. CASE /\ f = [e EXCEPT !.gpu = gpu, !.uploaded = uploaded, !.changed = changed]
           /\ r \in StaticBlock => r \in e.changed
  <2>1. r \in Node
    <3>1. r \in Block \/ r \in Buffer
      BY <1>1 DEF Resource
    <3> QED
      BY <3>1, GpuDataAssumption DEF Node, DataNode
  <2>2. gpu \in [Resource -> Seq(Int)] /\ uploaded \in [Resource -> Int] /\ changed \in SUBSET Block
    BY <1>1, <1>2, <2>1
  <2>3. \A q \in Resource : q # r => gpu[q] = e.gpu[q] /\ uploaded[q] = e.uploaded[q]
    BY <1>2
  <2>4. gpu[r] = Content(e, r)
    BY <1>1, <1>2
  <2>5. /\ f \in Store /\ f.gpu = gpu /\ f.uploaded = uploaded /\ f.changed = changed
        /\ f.refs = e.refs /\ f.last = e.last /\ f.failed = e.failed /\ f.data = e.data
    <3> HIDE DEF f, gpu, uploaded, changed
    <3> QED
      BY <1>2, <1>6, <2>2 DEF Store
  <2> HIDE DEF f, gpu, uploaded
  <2>6. f \in Fitting
    <3>1. DataFit(f) /\ BuffersFit(f)
      BY <1>1, <2>3, <2>4, <2>5 DEF Fitting, DataFit, BuffersFit
    <3> QED
      BY <2>5, <3>1 DEF Fitting
  <2>7. /\ \A b \in StaticBlock : b \notin e.changed => b \notin f.changed /\ f.gpu[b] = e.gpu[b]
        /\ \A b \in StaticBlock : b \in f.changed => b \in e.changed /\ f.uploaded[b] = e.uploaded[b]
    <3>1. StaticBlock \subseteq Resource /\ StaticBlock \subseteq Block
      BY DEF StaticBlock, Resource
    <3> QED
      BY <1>6, <2>3, <2>5, <3>1
  <2> QED
    BY <1>3, <2>5, <2>6, <2>7 DEF Kept, f
<1>7. CASE r \in Block
  <2>1. f = IF r \in e.changed /\ e.uploaded[r] # e.last[r]
              THEN [e EXCEPT !.gpu[r] = Content(e, r), !.uploaded[r] = e.last[r], !.changed = @ \ {r}] ELSE e
    BY <1>7 DEF Upload, UploadBlock
  <2>2. CASE r \in e.changed /\ e.uploaded[r] # e.last[r]
    <3>1. f = [e EXCEPT !.gpu = gpu, !.uploaded = uploaded, !.changed = changed]
      <4> HIDE DEF f
      <4> QED
        BY <1>2, <1>7, <2>1, <2>2 DEF Store
    <3> QED
      BY <1>6, <2>2, <3>1
  <2>3. CASE ~ (r \in e.changed /\ e.uploaded[r] # e.last[r])
    BY <1>3, <1>5, <2>1, <2>3
  <2> QED
    BY <2>2, <2>3
<1>8. CASE r \notin Block
  <2>1. f = IF n \in Animated /\ e.uploaded[n] # e.last[n]
              THEN [e EXCEPT !.gpu[n] = Content(e, n), !.uploaded[n] = e.last[n]] ELSE e
    BY <1>8 DEF Upload, UploadBuffer
  <2>2. n \notin Block /\ r \notin StaticBlock /\ changed = e.changed
    BY <1>3, <1>8 DEF StaticBlock
  <2>3. CASE n \in Animated /\ e.uploaded[n] # e.last[n]
    <3>1. f = [e EXCEPT !.gpu = gpu, !.uploaded = uploaded, !.changed = changed]
      <4>1. f = [e EXCEPT !.gpu[r] = Content(e, r), !.uploaded[r] = e.last[r]]
        BY <1>4, <1>8, <2>1, <2>3
      <4> HIDE DEF f, r, changed
      <4> QED
        BY <1>2, <2>2, <4>1 DEF Store
    <3> QED
      BY <1>6, <2>2, <3>1
  <2>4. CASE ~ (n \in Animated /\ e.uploaded[n] # e.last[n])
    BY <1>5, <2>1, <2>2, <2>4
  <2> QED
    BY <2>3, <2>4
<1> QED
  BY <1>7, <1>8

LEMMA UpdateThenUploadOf ==
  ASSUME NEW e \in Fitting, NEW n \in Backed(e), NEW time \in Nat, NEW bad
  PROVE  LET f == UpdateThenUpload(e, n, time, bad)
         IN  /\ Kept(e, f) /\ (e.failed => f = e)
             /\ n \in StaticBlock /\ Fresh(e) /\ ~ f.failed => n \notin f.changed
<1> DEFINE h == UpdateNode(e, n, time, bad)
           f == UpdateThenUpload(e, n, time, bad)
<1>1. /\ Updates(e, h) /\ (e.failed => h = e)
      /\ n \in Block /\ ~ h.failed => h.last[n] = time
  <2>1. n \in Node
    BY GpuDataAssumption DEF Backed, Bound, Node, DataNode
  <2> QED
    BY <2>1, UpdateNodeOf
<1>2. f = IF h.failed THEN h ELSE Upload(h, n)
  BY DEF UpdateThenUpload
<1> HIDE DEF h, f
<1>3. Kept(e, h) /\ h \in Fitting /\ h.refs = e.refs
  BY <1>1, UpdatesKeep DEF Kept
<1>4. CASE h.failed
  BY <1>1, <1>2, <1>3, <1>4 DEF f
<1>5. CASE ~ h.failed
  <2> DEFINE u == Upload(h, n)
  <2>1. /\ Kept(h, u) /\ u.failed = h.failed
        /\ n \in Block /\ h.uploaded[n] # h.last[n] => n \notin u.changed
    BY <1>3, UploadOf DEF Backed
  <2>2. f = u /\ ~ e.failed
    BY <1>1, <1>2, <1>5
  <2> HIDE DEF u
  <2>3. Kept(e, f)
    BY <1>3, <2>1, <2>2, KeptIsTransitive
  <2>4. ASSUME n \in StaticBlock, Fresh(e), n \in f.changed
        PROVE  FALSE
    <3>1. n \in Block /\ h.last[n] = time /\ e.refs[n] > 0
      BY <1>1, <1>5, <2>4, OneClass DEF StaticBlock, Backed, Target
    <3>2. n \in h.changed /\ Fresh(h)
      BY <1>3, <2>1, <2>2, <2>4, FreshIsKept DEF Kept
    <3>3. h.uploaded[n] = Never
      BY <1>3, <2>4, <3>1, <3>2 DEF Fresh
    <3> QED
      BY <2>1, <2>2, <2>4, <3>1, <3>3 DEF Never
  <2> QED
    BY <2>2, <2>3, <2>4 DEF f
<1> QED
  BY <1>4, <1>5

(* Nodes updated one after the other.                                      *)
UpdatesStepwise(g, e, seq, time, bad) ==
  /\ g[0] = e /\ UpdateAll(e, seq, time, bad) = g[Len(seq)]
  /\ \A k \in 0 .. Len(seq) - 1 : g[k + 1] = UpdateNode(g[k], seq[k + 1], time, bad)

LEMMA UpdateSteps ==
  ASSUME NEW seq \in Seq(DataNode), NEW e \in Fitting, NEW time \in Nat, NEW bad
  PROVE  \E g \in [0 .. Len(seq) -> Fitting] : UpdatesStepwise(g, e, seq, time, bad)
<1> DEFINE step == [p \in Fitting \X DataNode |-> UpdateNode(p[1], p[2], time, bad)]
           Folds(it) == it = [s \in SUBSET DOMAIN seq |->
                                IF s = {} THEN e ELSE UpdateNode(it[s \ {Max(s)}], seq[Max(s)], time, bad)]
           it == CHOOSE it : Folds(it)
<1>1. Len(seq) \in Nat /\ DOMAIN seq = 1 .. Len(seq) /\ \A i \in DOMAIN seq : seq[i] \in DataNode
  OBVIOUS
<1>2. \A s \in SUBSET DOMAIN seq : s # {} => LastIn(s) = Max(s) /\ LastIn(s) \in DOMAIN seq
  BY <1>1, LastIsIn DEF LastIn, Max
<1>3. step \in [Fitting \X DataNode -> Fitting] /\ \A a \in Fitting, b \in DataNode : step[<<a, b>>] = UpdateNode(a, b, time, bad)
  <2>1. \A a \in Fitting, b \in DataNode : UpdateNode(a, b, time, bad) \in Fitting
    BY UpdateNodeOf DEF Updates, Node
  <2> QED
    BY <2>1
<1> HIDE DEF step
<1>4. \E i : Folds(i)
  <2>1. PICK i \in [SUBSET DOMAIN seq -> Fitting] : IsLeftFold(i, seq, e, step)
    BY <1>3, LeftFoldExists, Zenon
  <2>2. ASSUME NEW s \in SUBSET DOMAIN seq, s # {}
        PROVE  i[s] = UpdateNode(i[s \ {Max(s)}], seq[Max(s)], time, bad)
    <3>1. seq[Max(s)] \in DataNode /\ i[s \ {Max(s)}] \in Fitting /\ i[s] = step[<<i[s \ {Max(s)}], seq[Max(s)]>>]
      BY <1>1, <1>2, <2>1, <2>2 DEF IsLeftFold
    <3> QED
      BY <1>3, <3>1
  <2> QED
    BY <2>1, <2>2 DEF IsLeftFold
<1>5. Folds(it)
  <2> HIDE DEF Folds
  <2> QED
    BY <1>4, Zenon
<1>6. UpdateAll(e, seq, time, bad) = it[DOMAIN seq]
  BY DEF UpdateAll, FoldLeft, MapThenFoldSet
<1> HIDE DEF it
<1>7. TakesSteps(it, seq, Fitting, e, step)
  <2>1. ASSUME NEW s \in SUBSET DOMAIN seq, s # {}, it[s \ {LastIn(s)}] \in Fitting
        PROVE  it[s] = step[<<it[s \ {LastIn(s)}], seq[LastIn(s)]>>]
    <3>1. seq[Max(s)] \in DataNode /\ it[s] = UpdateNode(it[s \ {Max(s)}], seq[Max(s)], time, bad)
      BY <1>1, <1>2, <1>5, <2>1
    <3> QED
      BY <1>2, <1>3, <2>1, <3>1
  <2> QED
    BY <1>5, <2>1 DEF TakesSteps
<1>8. PICK g \in [0 .. Len(seq) -> Fitting] : IsStepwise(g, seq, e, step, it[DOMAIN seq])
  BY <1>3, <1>7, LeftFoldSteps, Zenon
<1>9. \A k \in 0 .. Len(seq) - 1 : g[k] \in Fitting /\ seq[k + 1] \in DataNode
  BY <1>1
<1> QED
  BY <1>3, <1>6, <1>8, <1>9 DEF IsStepwise, UpdatesStepwise

LEMMA UpdateAllOf ==
  ASSUME NEW e \in Fitting, NEW seq \in Seq(DataNode), NEW time \in Nat, NEW bad
  PROVE  LET f == UpdateAll(e, seq, time, bad)
         IN  Kept(e, f) /\ (e.failed => f = e)
<1>1. PICK g \in [0 .. Len(seq) -> Fitting] : UpdatesStepwise(g, e, seq, time, bad)
  BY UpdateSteps, Zenon
<1>2. Len(seq) \in Nat /\ \A k \in 0 .. Len(seq) - 1 : g[k] \in Fitting /\ seq[k + 1] \in Node
  BY DEF Node
<1> DEFINE G == {k \in 0 .. Len(seq) : Kept(e, g[k]) /\ (e.failed => g[k] = e)}
<1>3. 0 \in G /\ \A k \in 0 .. Len(seq) - 1 : k \in G => k + 1 \in G
  <2>1. 0 \in G
    BY <1>1, <1>2 DEF Kept, UpdatesStepwise
  <2>2. ASSUME NEW k \in 0 .. Len(seq) - 1, k \in G
        PROVE  k + 1 \in G
    <3> DEFINE h == UpdateNode(g[k], seq[k + 1], time, bad)
    <3>1. Kept(g[k], h) /\ (g[k].failed => h = g[k])
      BY <1>2, UpdateNodeOf, UpdatesKeep
    <3>2. h = g[k + 1] /\ k + 1 \in 0 .. Len(seq) /\ Kept(e, g[k]) /\ (e.failed => g[k] = e)
      BY <1>1, <1>2, <2>2 DEF UpdatesStepwise
    <3> HIDE DEF h
    <3> QED
      BY <3>1, <3>2, KeptIsTransitive
  <2> QED
    BY <2>1, <2>2
<1>4. \A k \in 0 .. Len(seq) : k \in G
  <2> HIDE DEF G
  <2> QED
    BY <1>2, <1>3, CountingUp
<1>5. Len(seq) \in 0 .. Len(seq)
  BY <1>2
<1> QED
  BY <1>1, <1>4, <1>5 DEF UpdatesStepwise

(* Blocks and buffers updated and uploaded one after the other, while the  *)
(* references stay.                                                        *)
WithRefs(refs) == {f \in Fitting : f.refs = refs}

UploadsStepwise(g, e, seq, time, bad) ==
  /\ g[0] = e /\ UpdateAndUpload(e, seq, time, bad) = g[Len(seq)]
  /\ \A k \in 0 .. Len(seq) - 1 : g[k + 1] = UpdateThenUpload(g[k], seq[k + 1], time, bad)

LEMMA UploadSteps ==
  ASSUME NEW refs, NEW e \in WithRefs(refs), NEW seq \in Seq(Backed(e)), NEW time \in Nat, NEW bad
  PROVE  \E g \in [0 .. Len(seq) -> WithRefs(refs)] : UploadsStepwise(g, e, seq, time, bad)
<1> DEFINE step == [p \in WithRefs(refs) \X Backed(e) |-> UpdateThenUpload(p[1], p[2], time, bad)]
           Folds(it) == it = [s \in SUBSET DOMAIN seq |->
                                IF s = {} THEN e ELSE UpdateThenUpload(it[s \ {Max(s)}], seq[Max(s)], time, bad)]
           it == CHOOSE it : Folds(it)
<1>1. Len(seq) \in Nat /\ DOMAIN seq = 1 .. Len(seq) /\ \A i \in DOMAIN seq : seq[i] \in Backed(e)
  OBVIOUS
<1>2. \A s \in SUBSET DOMAIN seq : s # {} => LastIn(s) = Max(s) /\ LastIn(s) \in DOMAIN seq
  BY <1>1, LastIsIn DEF LastIn, Max
<1>3. /\ step \in [WithRefs(refs) \X Backed(e) -> WithRefs(refs)]
      /\ \A a \in WithRefs(refs), b \in Backed(e) : step[<<a, b>>] = UpdateThenUpload(a, b, time, bad)
  <2>1. \A a \in WithRefs(refs), b \in Backed(e) : UpdateThenUpload(a, b, time, bad) \in WithRefs(refs)
    <3>1. ASSUME NEW a \in WithRefs(refs), NEW b \in Backed(e)
          PROVE  UpdateThenUpload(a, b, time, bad) \in WithRefs(refs)
      <4>1. a \in Fitting /\ b \in Backed(a)
        BY DEF WithRefs, Backed
      <4> QED
        BY <4>1, UpdateThenUploadOf DEF WithRefs, Kept
    <3> QED
      BY <3>1
  <2> QED
    BY <2>1
<1> HIDE DEF step
<1>4. \E i : Folds(i)
  <2>1. PICK i \in [SUBSET DOMAIN seq -> WithRefs(refs)] : IsLeftFold(i, seq, e, step)
    BY <1>3, LeftFoldExists, Zenon
  <2>2. ASSUME NEW s \in SUBSET DOMAIN seq, s # {}
        PROVE  i[s] = UpdateThenUpload(i[s \ {Max(s)}], seq[Max(s)], time, bad)
    <3>1. seq[Max(s)] \in Backed(e) /\ i[s \ {Max(s)}] \in WithRefs(refs) /\ i[s] = step[<<i[s \ {Max(s)}], seq[Max(s)]>>]
      BY <1>1, <1>2, <2>1, <2>2 DEF IsLeftFold
    <3> QED
      BY <1>3, <3>1
  <2> QED
    BY <2>1, <2>2 DEF IsLeftFold
<1>5. Folds(it)
  <2> HIDE DEF Folds
  <2> QED
    BY <1>4, Zenon
<1>6. UpdateAndUpload(e, seq, time, bad) = it[DOMAIN seq]
  BY DEF UpdateAndUpload, FoldLeft, MapThenFoldSet
<1> HIDE DEF it
<1>7. TakesSteps(it, seq, WithRefs(refs), e, step)
  <2>1. ASSUME NEW s \in SUBSET DOMAIN seq, s # {}, it[s \ {LastIn(s)}] \in WithRefs(refs)
        PROVE  it[s] = step[<<it[s \ {LastIn(s)}], seq[LastIn(s)]>>]
    <3>1. seq[Max(s)] \in Backed(e) /\ it[s] = UpdateThenUpload(it[s \ {Max(s)}], seq[Max(s)], time, bad)
      BY <1>1, <1>2, <1>5, <2>1
    <3> QED
      BY <1>2, <1>3, <2>1, <3>1
  <2> QED
    BY <1>5, <2>1 DEF TakesSteps
<1>8. PICK g \in [0 .. Len(seq) -> WithRefs(refs)] : IsStepwise(g, seq, e, step, it[DOMAIN seq])
  BY <1>3, <1>7, LeftFoldSteps, Zenon
<1>9. \A k \in 0 .. Len(seq) - 1 : g[k] \in WithRefs(refs) /\ seq[k + 1] \in Backed(e)
  BY <1>1
<1> QED
  BY <1>3, <1>6, <1>8, <1>9 DEF IsStepwise, UploadsStepwise

LEMMA UpdateAndUploadOf ==
  ASSUME NEW e \in Fitting, NEW seq \in Seq(Backed(e)), NEW time \in Nat, NEW bad, Fresh(e)
  PROVE  LET f == UpdateAndUpload(e, seq, time, bad)
         IN  /\ Kept(e, f) /\ (e.failed => f = e)
             /\ ~ f.failed => \A b \in StaticBlock \intersect ToSet(seq) : b \notin f.changed
<1> DEFINE refs == e.refs
<1>1. PICK g \in [0 .. Len(seq) -> WithRefs(refs)] : UploadsStepwise(g, e, seq, time, bad)
  <2>1. e \in WithRefs(refs)
    BY DEF WithRefs
  <2> HIDE DEF refs
  <2> QED
    BY <2>1, UploadSteps, Zenon
<1>2. Len(seq) \in Nat /\ \A k \in 0 .. Len(seq) - 1 : g[k] \in WithRefs(refs) /\ seq[k + 1] \in Backed(e)
  OBVIOUS
<1>3. ASSUME NEW k \in 0 .. Len(seq) - 1
      PROVE  /\ Kept(g[k], g[k + 1]) /\ (g[k].failed => g[k + 1] = g[k])
             /\ seq[k + 1] \in StaticBlock /\ Fresh(g[k]) /\ ~ g[k + 1].failed => seq[k + 1] \notin g[k + 1].changed
  <2>1. g[k] \in Fitting /\ seq[k + 1] \in Backed(g[k])
    BY <1>2 DEF WithRefs, Backed
  <2>2. g[k + 1] = UpdateThenUpload(g[k], seq[k + 1], time, bad)
    BY <1>1 DEF UploadsStepwise
  <2> QED
    BY <2>1, <2>2, UpdateThenUploadOf
<1> DEFINE Done(k) == \A b \in StaticBlock : (\E i \in 1 .. k : seq[i] = b) => b \notin g[k].changed
           G == {k \in 0 .. Len(seq) : Kept(e, g[k]) /\ (e.failed => g[k] = e) /\ (~ g[k].failed => Done(k))}
<1>4. 0 \in G /\ \A k \in 0 .. Len(seq) - 1 : k \in G => k + 1 \in G
  <2>1. 0 \in G
    BY <1>1, <1>2 DEF Kept, UploadsStepwise, WithRefs
  <2>2. ASSUME NEW k \in 0 .. Len(seq) - 1, k \in G
        PROVE  k + 1 \in G
    <3>1. k \in 0 .. Len(seq) /\ k + 1 \in 0 .. Len(seq) /\ \A i \in 1 .. k + 1 : i \in 1 .. k \/ i = k + 1
      BY <1>2
    <3>2. Kept(e, g[k]) /\ (e.failed => g[k] = e) /\ (~ g[k].failed => Done(k))
      BY <2>2
    <3>3. Kept(e, g[k + 1]) /\ (e.failed => g[k + 1] = e)
      BY <1>3, <3>2, KeptIsTransitive
    <3>4. ASSUME ~ g[k + 1].failed, NEW b \in StaticBlock, NEW i \in 1 .. k + 1, seq[i] = b
          PROVE  b \notin g[k + 1].changed
      <4>1. ~ g[k].failed /\ Fresh(g[k]) /\ Kept(g[k], g[k + 1])
        BY <1>3, <3>2, <3>4, FreshIsKept
      <4>2. CASE i = k + 1
        BY <1>3, <3>4, <4>1, <4>2
      <4>3. CASE i \in 1 .. k
        <5>1. b \notin g[k].changed
          BY <3>2, <3>4, <4>1, <4>3
        <5> QED
          BY <4>1, <5>1 DEF Kept
      <4> QED
        BY <3>1, <4>2, <4>3
    <3> QED
      BY <3>1, <3>3, <3>4
  <2> QED
    BY <2>1, <2>2
<1>5. \A k \in 0 .. Len(seq) : k \in G
  <2> HIDE DEF G
  <2> QED
    BY <1>2, <1>4, CountingUp
<1>6. Len(seq) \in 0 .. Len(seq) /\ ToSet(seq) = {seq[i] : i \in 1 .. Len(seq)}
  BY <1>2 DEF ToSet
<1> QED
  BY <1>1, <1>5, <1>6 DEF UploadsStepwise


(* A pass updates what it has registered.                                  *)
LEMMA PassUpdatedOf ==
  ASSUME NEW e \in Fitting, Fresh(e), NEW r, r.uniforms \in Seq(DataNode), r.blocks \in Seq(Backed(e)),
         r.attributes \in Seq(Backed(e)), NEW time \in Nat, NEW bad
  PROVE  LET f == PassUpdated(e, r, time, bad)
         IN  /\ Kept(e, f)
             /\ ~ f.failed => \A b \in StaticBlock \intersect ToSet(r.blocks) : b \notin f.changed
<1> DEFINE u == UpdateAll(e, r.uniforms, time, bad)
           b == UpdateAndUpload(u, r.blocks, time, bad)
           a == UpdateAndUpload(b, r.attributes, time, bad)
<1>1. Kept(e, u) /\ u \in Fitting /\ Fresh(u) /\ Backed(u) = Backed(e)
  <2>1. Kept(e, u)
    BY UpdateAllOf
  <2> HIDE DEF u
  <2> QED
    BY <2>1, FreshIsKept DEF Kept, Backed
<1> HIDE DEF u
<1>2. /\ Kept(u, b) /\ b \in Fitting /\ Fresh(b) /\ Backed(b) = Backed(e)
      /\ ~ b.failed => \A c \in StaticBlock \intersect ToSet(r.blocks) : c \notin b.changed
  <2>1. /\ Kept(u, b)
        /\ ~ b.failed => \A c \in StaticBlock \intersect ToSet(r.blocks) : c \notin b.changed
    BY <1>1, UpdateAndUploadOf
  <2> HIDE DEF b
  <2> QED
    BY <1>1, <2>1, FreshIsKept DEF Kept, Backed
<1> HIDE DEF b
<1>3. Kept(b, a) /\ (b.failed => a = b)
  BY <1>2, UpdateAndUploadOf
<1> HIDE DEF a
<1>4. Kept(e, a)
  BY <1>1, <1>2, <1>3, KeptIsTransitive
<1>5. ~ a.failed => \A c \in StaticBlock \intersect ToSet(r.blocks) : c \notin a.changed
  BY <1>2, <1>3 DEF Kept
<1> QED
  BY <1>4, <1>5 DEF PassUpdated, a, b, u

(***************************************************************************)
(* The initialisation and the end of nodes                                 *)
(***************************************************************************)
LEMMA InitNodesOf ==
  ASSUME NEW e \in Fitting, NEW S, NEW values \in [Uniform \union Static -> Int]
  PROVE  LET f == InitNodes(e, S, values)
         IN  f \in Fitting /\ SameBuffers(e, f) /\ f.changed = e.changed \union (S \intersect Block)
<1> DEFINE f == InitNodes(e, S, values)
           val == [n \in DataNode |-> IF n \in S THEN InitialValue(e, n, values) ELSE e.val[n]]
           data == [b \in Block |-> IF b \in S THEN BlockInit(val, b) ELSE e.data[b]]
           changed == e.changed \union (S \intersect Block)
<1>1. /\ e \in Store /\ e.data \in [Block -> Seq(Int)] /\ e.changed \in SUBSET Block
      /\ e.val \in [DataNode -> Int] /\ \A b \in Block : DOMAIN e.data[b] = DOMAIN Fields[b]
  BY DEF Fitting, Store, DataFit
<1>2. f = [e EXCEPT !.val = val, !.data = data, !.changed = changed]
  BY DEF InitNodes
<1>3. val \in [DataNode -> Int]
  <2>1. ASSUME NEW n \in DataNode
        PROVE  InitialValue(e, n, values) \in Int
    BY <1>1, <2>1, OneClass DEF InitialValue, UniformInit, BufferInit
  <2> QED
    BY <1>1, <2>1
<1> HIDE DEF val
<1>4. data \in [Block -> Seq(Int)] /\ \A b \in Block : DOMAIN data[b] = DOMAIN Fields[b]
  <2>1. ASSUME NEW b \in Block
        PROVE  BlockInit(val, b) \in Seq(Int) /\ DOMAIN BlockInit(val, b) = DOMAIN Fields[b]
    <3>1. Fields[b] \in Seq(DataNode)
      BY GpuDataAssumption
    <3>2. Len(Fields[b]) \in Nat /\ \A i \in 1 .. Len(Fields[b]) : val[Fields[b][i]] \in Int
      BY <1>3, <3>1
    <3>3. BlockInit(val, b) = [i \in 1 .. Len(Fields[b]) |-> val[Fields[b][i]]]
      BY <3>1 DEF BlockInit
    <3> QED
      BY <3>1, <3>2, <3>3
  <2> QED
    BY <1>1, <2>1
<1>5. changed \in SUBSET Block
  BY <1>1
<1> HIDE DEF f, data, changed
<1>6. f \in Store /\ f.data = data /\ f.changed = changed /\ SameBuffers(e, f)
  BY <1>1, <1>2, <1>3, <1>4, <1>5 DEF Store, SameBuffers
<1>7. f \in Fitting
  BY <1>4, <1>6 DEF Fitting, DataFit, BuffersFit, SameBuffers
<1> QED
  BY <1>6, <1>7 DEF f, changed

LEMMA UninitNodesOf ==
  ASSUME NEW e \in Fitting, NEW S
  PROVE  LET f == UninitNodes(e, S)
         IN  /\ f \in Fitting /\ f.refs = e.refs /\ f.gpu = e.gpu /\ f.changed = e.changed \ S
             /\ \A r \in Resource \ S : f.uploaded[r] = e.uploaded[r]
<1> DEFINE f == UninitNodes(e, S)
           last == [n \in Node |-> IF n \in S THEN Never ELSE e.last[n]]
           val == [n \in DataNode |-> IF n \in S THEN 0 ELSE e.val[n]]
           index == [n \in Streamed |-> IF n \in S THEN 1 ELSE e.index[n]]
           data == [b \in Block |-> IF b \in S THEN NoData.data[b] ELSE e.data[b]]
           uploaded == [r \in Resource |-> IF r \in S THEN 0 ELSE e.uploaded[r]]
<1>1. /\ e \in Store /\ e.data \in [Block -> Seq(Int)] /\ e.changed \in SUBSET Block /\ e.live \in SUBSET Uniform
      /\ e.last \in [Node -> Int] /\ e.val \in [DataNode -> Int] /\ e.index \in [Streamed -> Nat \ {0}]
      /\ e.uploaded \in [Resource -> Int] /\ \A b \in Block : DOMAIN e.data[b] = DOMAIN Fields[b]
  BY DEF Fitting, Store, DataFit
<1>2. f = [e EXCEPT !.last = last, !.val = val, !.live = @ \ S, !.index = index, !.data = data,
                    !.changed = @ \ S, !.uploaded = uploaded]
  BY DEF UninitNodes
<1>3. /\ last \in [Node -> Int] /\ val \in [DataNode -> Int] /\ index \in [Streamed -> Nat \ {0}]
      /\ uploaded \in [Resource -> Int] /\ \A r \in Resource \ S : uploaded[r] = e.uploaded[r]
  BY <1>1 DEF Never
<1>4. data \in [Block -> Seq(Int)] /\ \A b \in Block : DOMAIN data[b] = DOMAIN Fields[b]
  <2>1. ASSUME NEW b \in Block
        PROVE  NoData.data[b] \in Seq(Int) /\ DOMAIN NoData.data[b] = DOMAIN Fields[b]
    <3>1. Fields[b] \in Seq(DataNode)
      BY GpuDataAssumption
    <3>2. NoData.data[b] = [i \in 1 .. Len(Fields[b]) |-> 0] /\ Len(Fields[b]) \in Nat
      BY <3>1 DEF NoData
    <3> QED
      BY <3>1, <3>2
  <2> QED
    BY <1>1, <2>1
<1> HIDE DEF f, last, val, index, data, uploaded
<1>5. /\ f \in Store /\ f.data = data /\ f.changed = e.changed \ S /\ f.refs = e.refs /\ f.gpu = e.gpu
      /\ f.uploaded = uploaded
  BY <1>1, <1>2, <1>3, <1>4 DEF Store
<1>6. f \in Fitting
  BY <1>4, <1>5 DEF Fitting, DataFit, BuffersFit
<1> QED
  BY <1>3, <1>5, <1>6 DEF f

LEMMA ReleaseNodesOf ==
  ASSUME NEW e \in Fitting, NEW S
  PROVE  LET f == ReleaseNodes([e EXCEPT !.failed = FALSE], S)
         IN  f \in Fitting /\ SameBuffers(e, f) /\ f.changed = e.changed
<1> DEFINE f == ReleaseNodes([e EXCEPT !.failed = FALSE], S)
           last == [n \in Node |-> IF n \in S THEN Never ELSE e.last[n]]
<1>1. e \in Store /\ e.last \in [Node -> Int]
  BY DEF Fitting, Store
<1>2. f = [e EXCEPT !.failed = FALSE, !.last = last]
  BY <1>1 DEF ReleaseNodes, Store
<1>3. last \in [Node -> Int]
  BY <1>1 DEF Never
<1> HIDE DEF f, last
<1>4. f \in Store /\ f.data = e.data /\ f.changed = e.changed /\ SameBuffers(e, f)
  BY <1>1, <1>2, <1>3 DEF Store, SameBuffers
<1>5. f \in Fitting
  BY <1>4 DEF Fitting, DataFit, BuffersFit, SameBuffers
<1> QED
  BY <1>4, <1>5 DEF f

LEMMA SetLiveOf ==
  ASSUME NEW e \in Fitting, NEW n \in Uniform, NEW v \in Int
  PROVE  LET f == SetLive(e, n, v)
         IN  f \in Fitting /\ SameBuffers(e, f) /\ f.changed = e.changed
<1> DEFINE f == SetLive(e, n, v)
           val == [e.val EXCEPT ![n] = v]
           live == e.live \union {n}
<1>1. e \in Store /\ e.val \in [DataNode -> Int] /\ e.live \in SUBSET Uniform
  BY DEF Fitting, Store
<1>2. f = [e EXCEPT !.val = val, !.live = live]
  BY DEF SetLive
<1>3. val \in [DataNode -> Int] /\ live \in SUBSET Uniform
  <2>1. n \in DataNode
    BY DEF DataNode
  <2> QED
    BY <1>1, <2>1
<1> HIDE DEF f, val, live
<1>4. f \in Store /\ f.data = e.data /\ f.changed = e.changed /\ SameBuffers(e, f)
  BY <1>1, <1>2, <1>3 DEF Store, SameBuffers
<1>5. f \in Fitting
  BY <1>4 DEF Fitting, DataFit, BuffersFit, SameBuffers
<1> QED
  BY <1>4, <1>5 DEF f


(***************************************************************************)
(* The references                                                          *)
(***************************************************************************)
(* The uses of a resource by the first nodes of a sequence.                *)
Uses(seq, r, k) == Cardinality({i \in 1 .. k : Target(seq[i]) = r})

LEMMA UsesStep ==
  ASSUME NEW seq, NEW r, NEW k \in Nat
  PROVE  /\ Uses(seq, r, 0) = 0 /\ Uses(seq, r, k) \in Nat
         /\ Uses(seq, r, k + 1) = Uses(seq, r, k) + (IF Target(seq[k + 1]) = r THEN 1 ELSE 0)
<1> DEFINE S == {i \in 1 .. k : Target(seq[i]) = r}
           T == {i \in 1 .. k + 1 : Target(seq[i]) = r}
<1>1. IsFiniteSet(S) /\ Cardinality(S) \in Nat
  <2>1. IsFiniteSet(1 .. k) /\ S \in SUBSET (1 .. k)
    BY FS_Interval
  <2> HIDE DEF S
  <2> QED
    BY <2>1, FS_Subset, FS_CardinalityType
<1>2. Uses(seq, r, 0) = 0
  <2>1. {i \in 1 .. 0 : Target(seq[i]) = r} = {}
    OBVIOUS
  <2> QED
    BY <2>1, FS_EmptySet DEF Uses
<1>3. k + 1 \notin S /\ T = IF Target(seq[k + 1]) = r THEN S \union {k + 1} ELSE S
  OBVIOUS
<1>4. Cardinality(T) = Cardinality(S) + (IF Target(seq[k + 1]) = r THEN 1 ELSE 0)
  <2> HIDE DEF S, T
  <2> QED
    BY <1>1, <1>3, FS_AddElement
<1> QED
  BY <1>1, <1>2, <1>4 DEF Uses

(* The uses of two sequences one after the other.                          *)
LEMMA UsesConcat ==
  ASSUME NEW T, NEW a \in Seq(T), NEW b \in Seq(T), NEW r
  PROVE  Uses(a \o b, r, Len(a \o b)) = Uses(a, r, Len(a)) + Uses(b, r, Len(b))
<1>1. /\ Len(a) \in Nat /\ Len(b) \in Nat /\ Len(a \o b) = Len(a) + Len(b) /\ a \o b \in Seq(T)
      /\ \A i \in 1 .. Len(a) : (a \o b)[i] = a[i]
      /\ \A i \in 1 .. Len(b) : (a \o b)[Len(a) + i] = b[i]
  OBVIOUS
<1> DEFINE c == a \o b
           G == {k \in 0 .. Len(b) : Uses(c, r, Len(a) + k) = Uses(a, r, Len(a)) + Uses(b, r, k)}
<1>2. Uses(c, r, Len(a)) = Uses(a, r, Len(a))
  <2>1. {i \in 1 .. Len(a) : Target(c[i]) = r} = {i \in 1 .. Len(a) : Target(a[i]) = r}
    BY <1>1
  <2> QED
    BY <2>1 DEF Uses
<1>3. \A i \in 1 .. Len(b) : c[Len(a) + i] = b[i]
  BY <1>1
<1> HIDE DEF c
<1>4. 0 \in G /\ \A k \in 0 .. Len(b) - 1 : k \in G => k + 1 \in G
  <2>1. 0 \in G
    BY <1>1, <1>2, UsesStep
  <2>2. ASSUME NEW k \in 0 .. Len(b) - 1, k \in G
        PROVE  k + 1 \in G
    <3>1. k \in Nat /\ k + 1 \in 1 .. Len(b) /\ Len(a) + k \in Nat /\ Len(a) + (k + 1) = (Len(a) + k) + 1
      BY <1>1
    <3>2. c[(Len(a) + k) + 1] = b[k + 1]
      BY <1>3, <3>1
    <3>3. /\ Uses(c, r, Len(a) + k) \in Nat /\ Uses(b, r, k) \in Nat /\ Uses(a, r, Len(a)) \in Nat
          /\ Uses(c, r, (Len(a) + k) + 1) = Uses(c, r, Len(a) + k) + (IF Target(b[k + 1]) = r THEN 1 ELSE 0)
          /\ Uses(b, r, k + 1) = Uses(b, r, k) + (IF Target(b[k + 1]) = r THEN 1 ELSE 0)
      <4> DEFINE m == Len(a) + k
      <4>1. m \in Nat /\ c[m + 1] = b[k + 1]
        BY <3>1, <3>2
      <4> HIDE DEF m
      <4>2. Uses(c, r, m) \in Nat /\ Uses(c, r, m + 1) = Uses(c, r, m) + (IF Target(c[m + 1]) = r THEN 1 ELSE 0)
        BY <4>1, UsesStep
      <4>3. Uses(b, r, k) \in Nat /\ Uses(b, r, k + 1) = Uses(b, r, k) + (IF Target(b[k + 1]) = r THEN 1 ELSE 0)
        BY <3>1, UsesStep
      <4>4. Uses(a, r, Len(a)) \in Nat
        BY <1>1, UsesStep
      <4>5. Target(c[m + 1]) = Target(b[k + 1])
        BY <4>1
      <4> QED
        BY <4>2, <4>3, <4>4, <4>5 DEF m
    <3>4. Uses(c, r, Len(a) + k) = Uses(a, r, Len(a)) + Uses(b, r, k)
      BY <2>2
    <3>5. Uses(c, r, Len(a) + (k + 1)) = Uses(a, r, Len(a)) + Uses(b, r, k + 1)
      BY <3>1, <3>3, <3>4
    <3> QED
      BY <3>1, <3>5
  <2> QED
    BY <2>1, <2>2
<1>5. \A k \in 0 .. Len(b) : k \in G
  <2> HIDE DEF G
  <2> QED
    BY <1>1, <1>4, CountingUp
<1>6. Len(b) \in 0 .. Len(b)
  BY <1>1
<1> QED
  BY <1>1, <1>5, <1>6 DEF c

(* The uses of what a pass has registered, in either order.                *)
Registers ==
  {x \in [Registered -> Seq(Bound \union DataNode \union Texture)] :
     /\ x.indices \in Seq(Bound) /\ x.attributes \in Seq(Bound) /\ x.blocks \in Seq(Bound)
     /\ x.uniforms \in Seq(DataNode) /\ x.textures \in Seq(Texture)}

UsesIn(x, r) ==
  LET refs == x.indices \o x.attributes \o x.blocks
  IN  Cardinality({i \in DOMAIN refs : Target(refs[i]) = r})

LEMMA UsesInOrder ==
  ASSUME NEW x \in Registers, NEW r
  PROVE  LET up == x.indices \o x.attributes \o x.blocks
             down == x.indices \o x.blocks \o x.attributes
         IN  /\ up \in Seq(Bound) /\ down \in Seq(Bound) /\ UsesIn(x, r) \in Nat
             /\ Uses(up, r, Len(up)) = UsesIn(x, r) /\ Uses(down, r, Len(down)) = UsesIn(x, r)
<1> DEFINE i == x.indices
           a == x.attributes
           b == x.blocks
           N(s) == Uses(s, r, Len(s))
<1>1. i \in Seq(Bound) /\ a \in Seq(Bound) /\ b \in Seq(Bound)
  BY DEF Registers
<1>2. UsesIn(x, r) = N((i \o a) \o b)
  <2>1. (i \o a) \o b \in Seq(Bound)
    BY <1>1
  <2> DEFINE c == (i \o a) \o b
  <2>2. DOMAIN c = 1 .. Len(c) /\ UsesIn(x, r) = Cardinality({k \in DOMAIN c : Target(c[k]) = r})
    BY <2>1 DEF UsesIn
  <2> HIDE DEF c
  <2>3. UsesIn(x, r) = N(c)
    BY <2>2 DEF Uses
  <2> QED
    BY <2>3 DEF c
<1> HIDE DEF i, a, b
<1>3. i \o a \in Seq(Bound) /\ i \o b \in Seq(Bound) /\ (i \o a) \o b \in Seq(Bound) /\ (i \o b) \o a \in Seq(Bound)
  BY <1>1
<1>4. /\ N(i \o a) = N(i) + N(a) /\ N(i \o b) = N(i) + N(b)
      /\ N((i \o a) \o b) = N(i \o a) + N(b) /\ N((i \o b) \o a) = N(i \o b) + N(a)
  BY <1>1, <1>3, UsesConcat
<1>5. N(i) \in Nat /\ N(a) \in Nat /\ N(b) \in Nat
  <2>1. Len(i) \in Nat /\ Len(a) \in Nat /\ Len(b) \in Nat
    BY <1>1
  <2> QED
    BY <2>1, UsesStep
<1> HIDE DEF N
<1>6. UsesIn(x, r) \in Nat /\ N((i \o a) \o b) = UsesIn(x, r) /\ N((i \o b) \o a) = UsesIn(x, r)
  BY <1>2, <1>4, <1>5
<1> QED
  BY <1>3, <1>6 DEF N, i, a, b


(* What references and unreferences add up to.                             *)
Referenced(e, f, r, n) ==
  /\ f.refs[r] = e.refs[r] + n
  /\ e.refs[r] > 0 => f.gpu[r] = e.gpu[r] /\ f.uploaded[r] = e.uploaded[r]
  /\ e.refs[r] = 0 /\ n > 0 => f.gpu[r] = Content(e, r) /\ f.uploaded[r] = Never

LEMMA RefManyOf ==
  ASSUME NEW e \in Fitting, NEW seq \in Seq(Bound), \A r \in Resource : e.refs[r] >= 0
  PROVE  LET f == FoldLeft(Ref, e, seq)
         IN  /\ f \in Fitting /\ SameData(e, f)
             /\ \A r \in Resource : Referenced(e, f, r, Uses(seq, r, Len(seq)))
<1>1. PICK g \in [0 .. Len(seq) -> Fitting] : RefsStepwise(g, e, seq)
  BY RefSteps, Zenon
<1>2. Len(seq) \in Nat /\ \A k \in 0 .. Len(seq) - 1 : g[k] \in Fitting /\ seq[k + 1] \in Bound
  OBVIOUS
<1>3. e.refs \in [Resource -> Int]
  BY DEF Fitting, Store
<1> DEFINE Ok(k) == SameData(e, g[k]) /\ \A r \in Resource : Referenced(e, g[k], r, Uses(seq, r, k))
           G == {k \in 0 .. Len(seq) : Ok(k)}
<1>4. 0 \in G /\ \A k \in 0 .. Len(seq) - 1 : k \in G => k + 1 \in G
  <2>1. 0 \in G
    <3>1. g[0] = e /\ SameData(e, e)
      BY <1>1 DEF RefsStepwise, SameData
    <3>2. \A r \in Resource : Uses(seq, r, 0) = 0 /\ e.refs[r] \in Int
      BY <1>3, UsesStep
    <3>3. \A r \in Resource : Referenced(e, e, r, 0)
      BY <3>2 DEF Referenced
    <3>4. 0 \in 0 .. Len(seq)
      BY <1>2
    <3>5. Ok(0)
      BY <3>1, <3>2, <3>3
    <3> QED
      BY <3>4, <3>5
  <2>2. ASSUME NEW k \in 0 .. Len(seq) - 1, k \in G
        PROVE  k + 1 \in G
    <3> DEFINE q == Target(seq[k + 1])
    <3>1. k \in Nat /\ k + 1 \in 0 .. Len(seq) /\ Ok(k) /\ g[k] \in Fitting /\ g[k].refs \in [Resource -> Int]
      BY <1>2, <2>2 DEF Fitting, Store
    <3>2. /\ q \in Resource /\ SameData(g[k], g[k + 1]) /\ g[k + 1].refs = [g[k].refs EXCEPT ![q] = @ + 1]
          /\ \A r \in Resource : r # q \/ g[k].refs[q] # 0 =>
               g[k + 1].gpu[r] = g[k].gpu[r] /\ g[k + 1].uploaded[r] = g[k].uploaded[r]
          /\ g[k].refs[q] = 0 => g[k + 1].gpu[q] = Content(g[k], q) /\ g[k + 1].uploaded[q] = Never
      <4> DEFINE h == g[k]
                 n == seq[k + 1]
                 f == g[k + 1]
      <4>1. f = Ref(h, n) /\ n \in Bound /\ h \in Fitting
        BY <1>1, <1>2, <3>1 DEF RefsStepwise
      <4> HIDE DEF h, n, f
      <4>2. Target(n) \in Resource
        BY <4>1, ContentExists
      <4> QED
        BY <4>1, <4>2, RefOf, SMTT(30) DEF h, n, f
    <3>3. SameData(e, g[k + 1]) /\ Content(g[k], q) = Content(e, q)
      BY <3>1, <3>2 DEF SameData, Content
    <3>4. ASSUME NEW r \in Resource
          PROVE  Referenced(e, g[k + 1], r, Uses(seq, r, k + 1))
      <4>1. /\ Uses(seq, r, k) \in Nat /\ Uses(seq, r, k + 1) = Uses(seq, r, k) + (IF q = r THEN 1 ELSE 0)
        BY <3>1, UsesStep
      <4>2. Referenced(e, g[k], r, Uses(seq, r, k)) /\ e.refs[r] \in Int /\ e.refs[r] >= 0
        BY <1>3, <3>1
      <4>3. CASE q # r
        <5>1. /\ g[k + 1].refs[r] = g[k].refs[r] /\ g[k + 1].gpu[r] = g[k].gpu[r]
              /\ g[k + 1].uploaded[r] = g[k].uploaded[r] /\ Uses(seq, r, k + 1) = Uses(seq, r, k)
          BY <3>1, <3>2, <4>1, <4>3
        <5> QED
          BY <4>2, <5>1 DEF Referenced
      <4>4. CASE q = r
        <5>1. g[k + 1].refs[r] = e.refs[r] + Uses(seq, r, k + 1)
          <6>1. g[k + 1].refs[r] = g[k].refs[r] + 1 /\ Uses(seq, r, k + 1) = Uses(seq, r, k) + 1
            BY <3>1, <3>2, <4>1, <4>4
          <6>2. g[k].refs[r] = e.refs[r] + Uses(seq, r, k)
            BY <4>2 DEF Referenced
          <6> QED
            BY <4>1, <4>2, <6>1, <6>2
        <5>2. g[k].refs[r] = 0 <=> e.refs[r] = 0 /\ Uses(seq, r, k) = 0
          BY <4>1, <4>2 DEF Referenced
        <5>3. CASE g[k].refs[r] = 0
          BY <3>2, <3>3, <4>1, <4>2, <4>4, <5>1, <5>2, <5>3 DEF Referenced
        <5>4. CASE g[k].refs[r] # 0
          BY <3>2, <4>1, <4>2, <4>4, <5>1, <5>2, <5>4 DEF Referenced
        <5> QED
          BY <5>3, <5>4
      <4> QED
        BY <4>3, <4>4
    <3> QED
      BY <3>1, <3>3, <3>4
  <2> QED
    BY <2>1, <2>2
<1>5. \A k \in 0 .. Len(seq) : k \in G
  <2> HIDE DEF G
  <2> QED
    BY <1>2, <1>4, CountingUp
<1>6. Len(seq) \in 0 .. Len(seq) /\ g[Len(seq)] \in Fitting
  BY <1>2
<1> QED
  BY <1>1, <1>5, <1>6 DEF RefsStepwise

Unreferenced(e, f, r, n) ==
  /\ f.refs[r] = e.refs[r] - n
  /\ f.refs[r] > 0 => f.gpu[r] = e.gpu[r]

LEMMA UnrefManyOf ==
  ASSUME NEW e \in Fitting, NEW seq \in Seq(Bound)
  PROVE  LET f == FoldLeft(Unref, e, seq)
         IN  /\ f \in Fitting /\ SameData(e, f) /\ f.uploaded = e.uploaded
             /\ \A r \in Resource : Unreferenced(e, f, r, Uses(seq, r, Len(seq)))
<1>1. PICK g \in [0 .. Len(seq) -> Fitting] : UnrefsStepwise(g, e, seq)
  BY UnrefSteps, Zenon
<1>2. Len(seq) \in Nat /\ \A k \in 0 .. Len(seq) - 1 : g[k] \in Fitting /\ seq[k + 1] \in Bound
  OBVIOUS
<1>3. e.refs \in [Resource -> Int]
  BY DEF Fitting, Store
<1> DEFINE Ok(k) == /\ SameData(e, g[k]) /\ g[k].uploaded = e.uploaded
                    /\ \A r \in Resource : Unreferenced(e, g[k], r, Uses(seq, r, k))
           G == {k \in 0 .. Len(seq) : Ok(k)}
<1>4. 0 \in G /\ \A k \in 0 .. Len(seq) - 1 : k \in G => k + 1 \in G
  <2>1. 0 \in G
    <3>1. g[0] = e /\ SameData(e, e)
      BY <1>1 DEF UnrefsStepwise, SameData
    <3>2. \A r \in Resource : Uses(seq, r, 0) = 0 /\ e.refs[r] \in Int
      BY <1>3, UsesStep
    <3>3. \A r \in Resource : Unreferenced(e, e, r, 0)
      BY <3>2 DEF Unreferenced
    <3>4. 0 \in 0 .. Len(seq)
      BY <1>2
    <3>5. Ok(0)
      BY <3>1, <3>2, <3>3
    <3> QED
      BY <3>4, <3>5
  <2>2. ASSUME NEW k \in 0 .. Len(seq) - 1, k \in G
        PROVE  k + 1 \in G
    <3> DEFINE q == Target(seq[k + 1])
    <3>1. k \in Nat /\ k + 1 \in 0 .. Len(seq) /\ Ok(k) /\ g[k] \in Fitting /\ g[k].refs \in [Resource -> Int]
      BY <1>2, <2>2 DEF Fitting, Store
    <3>2. /\ q \in Resource /\ SameData(g[k], g[k + 1]) /\ g[k + 1].refs = [g[k].refs EXCEPT ![q] = @ - 1]
          /\ g[k + 1].uploaded = g[k].uploaded
          /\ \A r \in Resource : r # q \/ g[k].refs[q] # 1 => g[k + 1].gpu[r] = g[k].gpu[r]
      <4> DEFINE h == g[k]
                 n == seq[k + 1]
                 f == g[k + 1]
      <4>1. f = Unref(h, n) /\ n \in Bound /\ h \in Fitting
        BY <1>1, <1>2, <3>1 DEF UnrefsStepwise
      <4> HIDE DEF h, n, f
      <4>2. Target(n) \in Resource
        BY <4>1, ContentExists
      <4>3. /\ SameData(h, f) /\ f.uploaded = h.uploaded /\ f.refs = [h.refs EXCEPT ![Target(n)] = @ - 1]
            /\ \A r \in Resource : r # Target(n) \/ h.refs[Target(n)] # 1 => f.gpu[r] = h.gpu[r]
        BY <4>1, UnrefOf
      <4> QED
        BY <4>2, <4>3 DEF h, n, f
    <3>3. SameData(e, g[k + 1]) /\ g[k + 1].uploaded = e.uploaded
      BY <3>1, <3>2 DEF SameData
    <3>4. ASSUME NEW r \in Resource
          PROVE  Unreferenced(e, g[k + 1], r, Uses(seq, r, k + 1))
      <4>1. /\ Uses(seq, r, k) \in Nat /\ Uses(seq, r, k + 1) = Uses(seq, r, k) + (IF q = r THEN 1 ELSE 0)
        BY <3>1, UsesStep
      <4>2. Unreferenced(e, g[k], r, Uses(seq, r, k)) /\ e.refs[r] \in Int
        BY <1>3, <3>1
      <4>3. CASE q # r
        BY <3>1, <3>2, <4>1, <4>2, <4>3 DEF Unreferenced
      <4>4. CASE q = r
        BY <3>1, <3>2, <4>1, <4>2, <4>4 DEF Unreferenced
      <4> QED
        BY <4>3, <4>4
    <3> QED
      BY <3>1, <3>3, <3>4
  <2> QED
    BY <2>1, <2>2
<1>5. \A k \in 0 .. Len(seq) : k \in G
  <2> HIDE DEF G
  <2> QED
    BY <1>2, <1>4, CountingUp
<1>6. Len(seq) \in 0 .. Len(seq) /\ g[Len(seq)] \in Fitting
  BY <1>2
<1> QED
  BY <1>1, <1>5, <1>6 DEF UnrefsStepwise


LEMMA OrderIsOnto ==
  /\ Len(Order) \in Nat /\ DOMAIN Order = 1 .. Len(Order) /\ IsFiniteSet(1 .. Len(Order))
  /\ Order \in Surjection(1 .. Len(Order), Pass)
<1>1. Order \in Seq(Pass) /\ ToSet(Order) = Pass
  BY PassesAssumption
<1>2. Len(Order) \in Nat /\ DOMAIN Order = 1 .. Len(Order) /\ Pass = {Order[i] : i \in DOMAIN Order}
  BY <1>1 DEF ToSet
<1>3. Order \in [1 .. Len(Order) -> Pass]
  BY <1>1, <1>2
<1>4. \A p \in Pass : \E i \in 1 .. Len(Order) : Order[i] = p
  BY <1>2
<1>5. IsFiniteSet(1 .. Len(Order))
  BY <1>2, FS_Interval
<1> QED
  BY <1>2, <1>3, <1>4, <1>5 DEF Surjection

LEMMA PassesAreFinite == IsFiniteSet(Pass)
BY OrderIsOnto, FS_Surjection

(* The uses of a resource by what the passes have registered.              *)
UsesOfAll(r, rg) == [p \in Pass |-> UsesIn(rg[p], r)]
TotalUses(r, rg) == FoldFunction(+, 0, UsesOfAll(r, rg))

LEMMA UsesType ==
  ASSUME NEW rg \in [Pass -> Registers], NEW r
  PROVE  UsesOfAll(r, rg) \in [Pass -> Nat] /\ UsesOfAll(r, rg) \in [Pass -> Int]
<1>1. \A p \in Pass : UsesIn(rg[p], r) \in Nat
  BY UsesInOrder
<1> QED
  BY <1>1 DEF UsesOfAll

LEMMA TotalIsSum ==
  ASSUME NEW rg \in [Pass -> Registers], NEW r
  PROVE  \E it : IsSum(it, UsesOfAll(r, rg), Pass) /\ TotalUses(r, rg) = it[Pass]
<1> DEFINE f == UsesOfAll(r, rg)
           it == CHOOSE it : it = [s \in SUBSET DOMAIN f |-> IF s = {} THEN 0 ELSE
                   f[CHOOSE x \in s : TRUE] + it[s \ {CHOOSE x \in s : TRUE}]]
<1>1. DOMAIN f = Pass /\ f \in [Pass -> Int]
  BY UsesType
<1>2. TotalUses(r, rg) = it[DOMAIN f]
  BY DEF TotalUses, FoldFunction, FoldFunctionOnSet, MapThenFoldSet
<1> HIDE DEF f
<1>3. \E i : i = [s \in SUBSET DOMAIN f |-> IF s = {} THEN 0 ELSE
                    f[CHOOSE x \in s : TRUE] + i[s \ {CHOOSE x \in s : TRUE}]]
  <2>1. PICK i : IsSum(i, f, Pass)
    BY <1>1, PassesAreFinite, SumExists
  <2> QED
    BY <1>1, <2>1 DEF IsSum
<1>4. it = [s \in SUBSET DOMAIN f |-> IF s = {} THEN 0 ELSE
              f[CHOOSE x \in s : TRUE] + it[s \ {CHOOSE x \in s : TRUE}]]
  BY <1>3
<1> HIDE DEF it
<1>5. IsSum(it, f, Pass)
  BY <1>1, <1>4 DEF IsSum
<1> QED
  BY <1>1, <1>2, <1>5 DEF f

LEMMA TotalBounds ==
  ASSUME NEW rg \in [Pass -> Registers], NEW r
  PROVE  TotalUses(r, rg) \in Nat /\ \A p \in Pass : TotalUses(r, rg) >= UsesIn(rg[p], r)
<1>1. PICK it : IsSum(it, UsesOfAll(r, rg), Pass) /\ TotalUses(r, rg) = it[Pass]
  BY TotalIsSum
<1>2. it[Pass] \in Nat /\ \A p \in Pass : it[Pass] >= UsesOfAll(r, rg)[p]
  BY <1>1, PassesAreFinite, UsesType, SumOfNaturals
<1> QED
  BY <1>1, <1>2 DEF UsesOfAll

LEMMA TotalChanges ==
  ASSUME NEW rg \in [Pass -> Registers], NEW p \in Pass, NEW x \in Registers, NEW r
  PROVE  TotalUses(r, [rg EXCEPT ![p] = x]) = TotalUses(r, rg) + (UsesIn(x, r) - UsesIn(rg[p], r))
<1> DEFINE rh == [rg EXCEPT ![p] = x]
<1>1. rh \in [Pass -> Registers] /\ rh[p] = x /\ \A q \in Pass \ {p} : rh[q] = rg[q]
  OBVIOUS
<1> HIDE DEF rh
<1>2. PICK i : IsSum(i, UsesOfAll(r, rg), Pass) /\ TotalUses(r, rg) = i[Pass]
  BY TotalIsSum
<1>3. PICK j : IsSum(j, UsesOfAll(r, rh), Pass) /\ TotalUses(r, rh) = j[Pass]
  BY <1>1, TotalIsSum
<1>4. UsesOfAll(r, rg) \in [Pass -> Int] /\ UsesOfAll(r, rh) \in [Pass -> Int]
  BY <1>1, UsesType
<1>5. \A q \in Pass \ {p} : UsesOfAll(r, rh)[q] = UsesOfAll(r, rg)[q]
  BY <1>1 DEF UsesOfAll
<1>6. \A s \in SUBSET Pass : j[s] = i[s] + (IF p \in s THEN UsesOfAll(r, rh)[p] - UsesOfAll(r, rg)[p] ELSE 0)
  BY <1>2, <1>3, <1>4, <1>5, PassesAreFinite, SumChanges
<1>7. j[Pass] = i[Pass] + (UsesOfAll(r, rh)[p] - UsesOfAll(r, rg)[p])
  BY <1>6
<1>8. UsesOfAll(r, rh)[p] = UsesIn(x, r) /\ UsesOfAll(r, rg)[p] = UsesIn(rg[p], r)
  BY <1>1 DEF UsesOfAll
<1> QED
  BY <1>2, <1>3, <1>7, <1>8 DEF rh

LEMMA NothingIsUsed ==
  ASSUME NEW r
  PROVE  /\ Nothing \in Registers /\ UsesIn(Nothing, r) = 0
         /\ TotalUses(r, [p \in Pass |-> Nothing]) = 0
<1>1. Nothing \in Registers
  <2>1. /\ Nothing.indices = <<>> /\ Nothing.attributes = <<>> /\ Nothing.blocks = <<>> /\ Nothing.uniforms = <<>>
        /\ Nothing.textures = <<>>
    BY DEF Nothing, Registered
  <2>2. /\ <<>> \in Seq(Bound) /\ <<>> \in Seq(DataNode) /\ <<>> \in Seq(Texture)
        /\ <<>> \in Seq(Bound \union DataNode \union Texture)
    OBVIOUS
  <2>3. Nothing \in [Registered -> Seq(Bound \union DataNode \union Texture)]
    BY <2>2 DEF Nothing
  <2> QED
    BY <2>1, <2>2, <2>3 DEF Registers
<1>2. UsesIn(Nothing, r) = 0
  <2>1. Nothing.indices \o Nothing.attributes \o Nothing.blocks = <<>>
    BY DEF Nothing, Registered
  <2>2. {i \in DOMAIN <<>> : Target((<<>>)[i]) = r} = {}
    OBVIOUS
  <2> QED
    BY <2>1, <2>2, FS_EmptySet DEF UsesIn
<1> DEFINE rg == [p \in Pass |-> Nothing]
<1>3. rg \in [Pass -> Registers]
  BY <1>1
<1>4. \A p \in Pass : UsesOfAll(r, rg)[p] = 0
  BY <1>2 DEF UsesOfAll
<1> HIDE DEF rg
<1>5. PICK it : IsSum(it, UsesOfAll(r, rg), Pass) /\ TotalUses(r, rg) = it[Pass]
  BY <1>3, TotalIsSum
<1>6. it[Pass] = 0
  BY <1>3, <1>4, <1>5, UsesType, PassesAreFinite, SumOfZeros
<1> QED
  BY <1>1, <1>2, <1>5, <1>6 DEF rg


(***************************************************************************)
(* What is registered                                                      *)
(***************************************************************************)
Distinct(seq) == \A i, j \in DOMAIN seq : seq[i] = seq[j] => i = j

LEMMA OnlyOf ==
  ASSUME NEW T, NEW seq \in Seq(T), NEW S
  PROVE  LET kept == Only(seq, S)
         IN  /\ kept \in Seq(T) /\ ToSet(kept) = ToSet(seq) \intersect S
             /\ Distinct(seq) => Distinct(kept)
<1>1. PICK g \in [0 .. Len(seq) -> Seq(T)] : OnlyStepwise(g, seq, S)
  BY OnlySteps, Zenon
<1>2. Len(seq) \in Nat /\ DOMAIN seq = 1 .. Len(seq) /\ \A k \in DOMAIN seq : seq[k] \in T
  OBVIOUS
<1> DEFINE First(k) == {seq[i] : i \in 1 .. k}
           Ok(k) == ToSet(g[k]) = First(k) \intersect S /\ (Distinct(seq) => Distinct(g[k]))
           G == {k \in 0 .. Len(seq) : Ok(k)}
<1>3. 0 \in G /\ \A k \in 0 .. Len(seq) - 1 : k \in G => k + 1 \in G
  <2>1. 0 \in G
    <3>1. ToSet(g[0]) = {} /\ First(0) = {} /\ Distinct(g[0])
      BY <1>1 DEF ToSet, Distinct, OnlyStepwise
    <3> QED
      BY <1>2, <3>1
  <2>2. ASSUME NEW k \in 0 .. Len(seq) - 1, k \in G
        PROVE  k + 1 \in G
    <3> DEFINE h == g[k]
               x == seq[k + 1]
    <3>1. k \in Nat /\ k + 1 \in 0 .. Len(seq) /\ k + 1 \in DOMAIN seq /\ h \in Seq(T) /\ x \in T /\ Ok(k)
      BY <1>2, <2>2, SMTT(30)
    <3>2. First(k + 1) = First(k) \union {x}
      <4>1. \A i \in 1 .. k + 1 : i \in 1 .. k \/ i = k + 1
        BY <3>1
      <4>2. k + 1 \in 1 .. k + 1 /\ \A i \in 1 .. k : i \in 1 .. k + 1
        BY <3>1
      <4> QED
        BY <4>1, <4>2
    <3>3. CASE x \notin S
      <4>1. g[k + 1] = h
        BY <1>1, <3>3 DEF OnlyStepwise
      <4>2. First(k + 1) \intersect S = First(k) \intersect S
        BY <3>2, <3>3
      <4> HIDE DEF First, h, x
      <4> QED
        BY <3>1, <4>1, <4>2 DEF h
    <3>4. CASE x \in S
      <4>1. g[k + 1] = Append(h, x)
        BY <1>1, <3>4 DEF OnlyStepwise
      <4>2. /\ DOMAIN Append(h, x) = 1 .. Len(h) + 1 /\ DOMAIN h = 1 .. Len(h) /\ Len(h) \in Nat
            /\ \A i \in 1 .. Len(h) : Append(h, x)[i] = h[i]
            /\ Append(h, x)[Len(h) + 1] = x
        BY <3>1
      <4>3. ToSet(g[k + 1]) = ToSet(h) \union {x}
        <5>1. \A i \in 1 .. Len(h) + 1 : i \in 1 .. Len(h) \/ i = Len(h) + 1
          BY <4>2
        <5>2. Len(h) + 1 \in 1 .. Len(h) + 1 /\ \A i \in 1 .. Len(h) : i \in 1 .. Len(h) + 1
          BY <4>2
        <5> HIDE DEF h, x
        <5> QED
          BY <4>1, <4>2, <5>1, <5>2 DEF ToSet
      <4>4. ToSet(h) = First(k) \intersect S /\ (Distinct(seq) => Distinct(h))
        BY <3>1
      <4>5. ASSUME Distinct(seq)
            PROVE  Distinct(g[k + 1])
        <5>1. x \notin ToSet(h)
          <6>1. \A i \in 1 .. k : i \in DOMAIN seq /\ i # k + 1
            BY <1>2, <3>1
          <6>2. \A i \in 1 .. k : seq[i] # x
            BY <3>1, <4>5, <6>1 DEF Distinct
          <6> QED
            BY <4>4, <6>2
        <5>2. \A i \in 1 .. Len(h) : h[i] # x
          BY <4>2, <5>1 DEF ToSet
        <5>3. Distinct(h)
          BY <4>4, <4>5
        <5> HIDE DEF h, x
        <5> QED
          BY <4>1, <4>2, <5>2, <5>3 DEF Distinct
      <4>6. First(k + 1) \intersect S = (First(k) \intersect S) \union {x}
        BY <3>2, <3>4
      <4> HIDE DEF First, h, x
      <4> QED
        BY <3>1, <4>3, <4>4, <4>5, <4>6
    <3> QED
      BY <3>3, <3>4
  <2> QED
    BY <2>1, <2>2
<1>4. \A k \in 0 .. Len(seq) : k \in G
  <2> HIDE DEF G
  <2> QED
    BY <1>2, <1>3, CountingUp
<1>5. Len(seq) \in 0 .. Len(seq) /\ ToSet(seq) = First(Len(seq)) /\ g[Len(seq)] \in Seq(T)
  BY <1>2 DEF ToSet
<1> HIDE DEF First
<1> QED
  BY <1>1, <1>4, <1>5 DEF OnlyStepwise

Stages == Stage \union {"none"}

(* What a pass may register.                                               *)
LEMMA DeclaredOf ==
  ASSUME NEW p \in Pass
  PROVE  /\ Param[p].indices \in Seq(Buffer) /\ Attributes(p) \in Seq(Buffer \union DOMAIN BlockOf)
         /\ Uniforms(p) \in Seq(DataNode) /\ Textures(p) \in Seq(Texture) /\ Blocks(p) \in Seq(Block)
         /\ ToSet(Attributes(p)) \subseteq ToSet(Param[p].attributes)
         /\ ToSet(Uniforms(p)) \subseteq ToSet(Param[p].uniforms)
         /\ ToSet(Textures(p)) \subseteq ToSet(Param[p].textures)
         /\ ToSet(Blocks(p)) = ToSet(Param[p].blocks) \intersect Shader[p].names
         /\ \A b \in ToSet(Blocks(p)) : Fields[b] # <<>>
<1>1. Param \in [Pass -> ParamType] /\ \A q \in Pass : \A b \in Shader[q].names \intersect Block : Fields[b] # <<>>
  BY PassesAssumption
<1>2. /\ Param[p].indices \in Seq(Buffer) /\ Param[p].attributes \in Seq(Buffer \union DOMAIN BlockOf)
      /\ Param[p].uniforms \in Seq(DataNode) /\ Param[p].textures \in Seq(Texture)
      /\ Param[p].blocks \in Seq(Block)
  BY <1>1 DEF ParamType
<1>3. /\ Attributes(p) = Only(Param[p].attributes, Shader[p].names)
      /\ Uniforms(p) = Only(Param[p].uniforms, Shader[p].names)
      /\ Textures(p) = Only(Param[p].textures, Shader[p].names)
      /\ Blocks(p) = Only(Param[p].blocks, Shader[p].names)
  BY DEF Attributes, Uniforms, Textures, Blocks, Declared
<1>4. /\ Attributes(p) \in Seq(Buffer \union DOMAIN BlockOf)
      /\ ToSet(Attributes(p)) = ToSet(Param[p].attributes) \intersect Shader[p].names
  BY <1>2, <1>3, OnlyOf
<1>5. Uniforms(p) \in Seq(DataNode) /\ ToSet(Uniforms(p)) = ToSet(Param[p].uniforms) \intersect Shader[p].names
  BY <1>2, <1>3, OnlyOf
<1>6. Textures(p) \in Seq(Texture) /\ ToSet(Textures(p)) = ToSet(Param[p].textures) \intersect Shader[p].names
  BY <1>2, <1>3, OnlyOf
<1>7. Blocks(p) \in Seq(Block) /\ ToSet(Blocks(p)) = ToSet(Param[p].blocks) \intersect Shader[p].names
  BY <1>2, <1>3, OnlyOf
<1>8. \A b \in ToSet(Blocks(p)) : b \in Block
  BY <1>7 DEF ToSet
<1> QED
  BY <1>1, <1>2, <1>4, <1>5, <1>6, <1>7, <1>8


(* What a pass is given: nodes, textures and a program.                    *)
LEMMA GivenOf ==
  ASSUME NEW p \in Pass
  PROVE  /\ Given(p) \subseteq Node \union Texture \union Program
         /\ \A n \in ToSet(Param[p].indices) \union ToSet(Param[p].attributes) \union ToSet(Param[p].blocks) :
              n \in Given(p) /\ Target(n) \in Given(p)
         /\ \A n \in ToSet(Param[p].uniforms) \union ToSet(Param[p].textures) : n \in Given(p)
         /\ \A b \in ToSet(Param[p].blocks) : b \in Block /\ ToSet(Fields[b]) \subseteq Given(p)
         /\ Param[p].program # Default => Param[p].program \in Program \intersect Given(p)
<1> DEFINE direct == UNION {ToSet(Param[p][k]) : k \in Registered}
           blocks == (direct \intersect Block) \union {BlockOf[n] : n \in direct \intersect DOMAIN BlockOf}
           fields == UNION {ToSet(Fields[b]) : b \in blocks}
           program == {Param[p].program} \ {Default}
<1>1. Given(p) = direct \union blocks \union fields \union program
  BY DEF Given
<1>2. Param[p] \in ParamType
  BY PassesAssumption
<1>3. direct = ToSet(Param[p].indices) \union ToSet(Param[p].attributes) \union ToSet(Param[p].uniforms)
                 \union ToSet(Param[p].textures) \union ToSet(Param[p].blocks)
  BY <1>2 DEF Registered, ParamType
<1>4. /\ ToSet(Param[p].indices) \subseteq Buffer /\ ToSet(Param[p].attributes) \subseteq Buffer \union DOMAIN BlockOf
      /\ ToSet(Param[p].uniforms) \subseteq DataNode /\ ToSet(Param[p].textures) \subseteq Texture
      /\ ToSet(Param[p].blocks) \subseteq Block /\ Param[p].program \in Program \union {Default}
  BY <1>2 DEF ParamType, ToSet
<1>5. /\ Buffer \subseteq DataNode /\ \A n \in DOMAIN BlockOf : BlockOf[n] \in Block
      /\ \A b \in Block : ToSet(Fields[b]) \subseteq DataNode
  BY GpuDataAssumption DEF DataNode, ToSet
<1>6. direct \subseteq Node \union Texture /\ blocks \subseteq Block
  <2> HIDE DEF direct
  <2> QED
    BY <1>3, <1>4, <1>5 DEF Node
<1>7. fields \subseteq DataNode /\ program \subseteq Program
  <2> HIDE DEF blocks
  <2> QED
    BY <1>4, <1>5, <1>6
<1>8. \A n \in direct : Target(n) \in direct \union blocks
  BY DEF Target
<1>9. \A b \in blocks : ToSet(Fields[b]) \subseteq fields
  OBVIOUS
<1>10. \A b \in ToSet(Param[p].blocks) : b \in Block /\ b \in blocks
  BY <1>3, <1>4
<1>11. Param[p].program # Default => Param[p].program \in Program \intersect program
  BY <1>4
<1> HIDE DEF direct, blocks, fields, program
<1>12. Given(p) \subseteq Node \union Texture \union Program
  BY <1>1, <1>6, <1>7 DEF Node
<1>13. /\ \A n \in ToSet(Param[p].indices) \union ToSet(Param[p].attributes) \union ToSet(Param[p].blocks) :
            n \in direct
       /\ \A n \in ToSet(Param[p].uniforms) \union ToSet(Param[p].textures) : n \in direct
  BY <1>3
<1>14. direct \subseteq Given(p) /\ blocks \subseteq Given(p) /\ fields \subseteq Given(p) /\ program \subseteq Given(p)
  BY <1>1
<1> QED
  BY <1>8, <1>9, <1>10, <1>11, <1>12, <1>13, <1>14

LEMMA RegisteredOf ==
  ASSUME NEW p \in Pass, NEW stage \in Stages
  PROVE  LET x == RegisteredBefore(p, stage)
         IN  /\ x \in Registers
             /\ ToSet(x.uniforms) \subseteq Given(p) /\ ToSet(x.textures) \subseteq Given(p)
             /\ \A n \in ToSet(x.indices) \union ToSet(x.attributes) \union ToSet(x.blocks) : Target(n) \in Given(p)
             /\ ToSet(x.blocks) \subseteq Given(p) \intersect Block
             /\ stage = "none" => /\ x.indices = Param[p].indices /\ x.attributes = Attributes(p)
                                  /\ x.uniforms = Uniforms(p) /\ x.textures = Textures(p) /\ x.blocks = Blocks(p)
<1> DEFINE x == RegisteredBefore(p, stage)
<1>1. /\ x \in [Registered -> {x[k] : k \in Registered}]
      /\ x.indices \in {<<>>, Param[p].indices} /\ x.attributes \in {<<>>, Attributes(p)}
      /\ x.uniforms \in {<<>>, Uniforms(p)} /\ x.textures \in {<<>>, Textures(p)} /\ x.blocks \in {<<>>, Blocks(p)}
      /\ stage = "none" => /\ x.indices = Param[p].indices /\ x.attributes = Attributes(p)
                           /\ x.uniforms = Uniforms(p) /\ x.textures = Textures(p) /\ x.blocks = Blocks(p)
  <2> DEFINE all == [indices |-> Param[p].indices, attributes |-> Attributes(p), uniforms |-> Uniforms(p),
                     textures |-> Textures(p), blocks |-> Blocks(p)]
             done == CASE stage = "program"    -> {}
                       [] stage = "attributes" -> {"indices"}
                       [] stage = "textures"   -> {"indices", "attributes", "uniforms"}
                       [] OTHER                -> Registered
  <2>1. x = [k \in Registered |-> IF k \in done THEN all[k] ELSE <<>>]
    BY DEF RegisteredBefore
  <2>2. stage = "none" => done = Registered
    OBVIOUS
  <2>3. /\ all["indices"] = Param[p].indices /\ all["attributes"] = Attributes(p) /\ all["uniforms"] = Uniforms(p)
        /\ all["textures"] = Textures(p) /\ all["blocks"] = Blocks(p)
    OBVIOUS
  <2> HIDE DEF x, done, all
  <2>4. \A k \in Registered : x[k] \in {<<>>, all[k]} /\ (stage = "none" => x[k] = all[k])
    BY <2>1, <2>2
  <2>5. x \in [Registered -> {x[k] : k \in Registered}]
    BY <2>1
  <2>6. {"indices", "attributes", "uniforms", "textures", "blocks"} \subseteq Registered
    BY DEF Registered
  <2> QED
    BY <2>3, <2>4, <2>5, <2>6
<1>2. stage = "none" => /\ x.indices = Param[p].indices /\ x.attributes = Attributes(p)
                        /\ x.uniforms = Uniforms(p) /\ x.textures = Textures(p) /\ x.blocks = Blocks(p)
  BY <1>1
<1> HIDE DEF x
<1>3. Param[p].indices \in Seq(Bound) /\ Attributes(p) \in Seq(Bound) /\ Blocks(p) \in Seq(Bound)
  <2>1. \A n \in Buffer : n \in Bound
    BY GpuDataAssumption, OneClass DEF Bound, Target, DataNode
  <2>2. \A n \in DOMAIN BlockOf : n \in Bound
    BY GpuDataAssumption DEF Bound, Target
  <2>3. \A b \in Block : Fields[b] # <<>> => b \in Bound
    BY OneClass DEF Bound, Target
  <2>4. Param[p].indices \in Seq(Bound) /\ Attributes(p) \in Seq(Bound)
    BY <2>1, <2>2, DeclaredOf
  <2>5. \A i \in DOMAIN Blocks(p) : Blocks(p)[i] \in Bound
    BY <2>3, DeclaredOf DEF ToSet
  <2> QED
    BY <2>4, <2>5, DeclaredOf
<1>4. Uniforms(p) \in Seq(DataNode) /\ Textures(p) \in Seq(Texture)
  BY DeclaredOf
<1>5. /\ x.indices \in Seq(Bound) /\ x.attributes \in Seq(Bound) /\ x.blocks \in Seq(Bound)
      /\ x.uniforms \in Seq(DataNode) /\ x.textures \in Seq(Texture)
  <2>1. <<>> \in Seq(Bound) /\ <<>> \in Seq(DataNode) /\ <<>> \in Seq(Texture)
    OBVIOUS
  <2>2. /\ x.indices = <<>> \/ x.indices = Param[p].indices
        /\ x.attributes = <<>> \/ x.attributes = Attributes(p)
        /\ x.blocks = <<>> \/ x.blocks = Blocks(p)
        /\ x.uniforms = <<>> \/ x.uniforms = Uniforms(p)
        /\ x.textures = <<>> \/ x.textures = Textures(p)
    BY <1>1
  <2> QED
    BY <1>3, <1>4, <2>1, <2>2
<1>6. x \in Registers
  <2> DEFINE U == Bound \union DataNode \union Texture
  <2>1. /\ x.indices \in Seq(U) /\ x.attributes \in Seq(U) /\ x.blocks \in Seq(U)
        /\ x.uniforms \in Seq(U) /\ x.textures \in Seq(U)
    BY <1>5
  <2>2. \A k \in Registered : x[k] \in Seq(U)
    BY <2>1 DEF Registered
  <2>3. x \in [Registered -> Seq(U)]
    BY <1>1, <2>2
  <2> QED
    BY <1>5, <2>3 DEF Registers
<1>7. ToSet(<<>>) = {}
  BY DEF ToSet
<1>8. /\ ToSet(x.indices) \subseteq ToSet(Param[p].indices) /\ ToSet(x.attributes) \subseteq ToSet(Param[p].attributes)
      /\ ToSet(x.uniforms) \subseteq ToSet(Param[p].uniforms) /\ ToSet(x.textures) \subseteq ToSet(Param[p].textures)
      /\ ToSet(x.blocks) \subseteq ToSet(Param[p].blocks)
  BY <1>1, <1>7, DeclaredOf
<1>9. /\ \A b \in ToSet(Param[p].blocks) : b \in Block /\ b \in Given(p)
      /\ \A n \in ToSet(Param[p].indices) \union ToSet(Param[p].attributes) \union ToSet(Param[p].blocks) :
           Target(n) \in Given(p)
      /\ \A n \in ToSet(Param[p].uniforms) \union ToSet(Param[p].textures) : n \in Given(p)
  BY GivenOf
<1>10. /\ ToSet(x.uniforms) \subseteq Given(p) /\ ToSet(x.textures) \subseteq Given(p)
       /\ \A n \in ToSet(x.indices) \union ToSet(x.attributes) \union ToSet(x.blocks) : Target(n) \in Given(p)
       /\ ToSet(x.blocks) \subseteq Given(p) \intersect Block
  BY <1>8, <1>9
<1> QED
  BY <1>2, <1>6, <1>10 DEF x

(***************************************************************************)
(* The worker goes through the passes of the scene                         *)
(***************************************************************************)
LEMMA HeadOf ==
  ASSUME NEW T, NEW seq \in Seq(T), seq # <<>>, Distinct(seq)
  PROVE  /\ Head(seq) \in T /\ Head(seq) \in ToSet(seq)
         /\ Tail(seq) \in Seq(T) /\ Distinct(Tail(seq)) /\ ToSet(Tail(seq)) = ToSet(seq) \ {Head(seq)}
<1>1. /\ Len(seq) \in Nat \ {0} /\ DOMAIN seq = 1 .. Len(seq) /\ \A i \in 1 .. Len(seq) : seq[i] \in T
      /\ Head(seq) = seq[1] /\ Tail(seq) \in Seq(T) /\ DOMAIN Tail(seq) = 1 .. Len(seq) - 1
      /\ \A i \in 1 .. Len(seq) - 1 : Tail(seq)[i] = seq[i + 1]
  OBVIOUS
<1>2. 1 \in 1 .. Len(seq) /\ \A i \in 1 .. Len(seq) - 1 : i + 1 \in 1 .. Len(seq) /\ i + 1 # 1
  BY <1>1
<1>3. \A i \in 1 .. Len(seq) : i = 1 \/ (i - 1 \in 1 .. Len(seq) - 1 /\ (i - 1) + 1 = i)
  BY <1>1
<1>4. Distinct(Tail(seq))
  BY <1>1, <1>2 DEF Distinct
<1>5. Head(seq) \in ToSet(seq) /\ Head(seq) \in T
  BY <1>1, <1>2 DEF ToSet
<1>6. ASSUME NEW x
      PROVE  x \in ToSet(Tail(seq)) <=> x \in ToSet(seq) /\ x # Head(seq)
  <2>1. ASSUME x \in ToSet(Tail(seq))
        PROVE  x \in ToSet(seq) /\ x # Head(seq)
    <3>1. PICK i \in 1 .. Len(seq) - 1 : x = seq[i + 1]
      BY <1>1, <2>1 DEF ToSet
    <3> QED
      BY <1>1, <1>2, <3>1 DEF ToSet, Distinct
  <2>2. ASSUME x \in ToSet(seq), x # Head(seq)
        PROVE  x \in ToSet(Tail(seq))
    <3>1. PICK i \in 1 .. Len(seq) : x = seq[i]
      BY <1>1, <2>2 DEF ToSet
    <3>2. i - 1 \in 1 .. Len(seq) - 1 /\ Tail(seq)[i - 1] = x
      BY <1>1, <1>3, <2>2, <3>1
    <3> QED
      BY <1>1, <3>2 DEF ToSet
  <2> QED
    BY <2>1, <2>2
<1> QED
  BY <1>1, <1>4, <1>5, <1>6

LEMMA PushedOn ==
  ASSUME NEW T, NEW seq \in Seq(T), NEW x \in T, x \notin ToSet(seq), Distinct(seq)
  PROVE  /\ <<x>> \o seq \in Seq(T) /\ Distinct(<<x>> \o seq)
         /\ ToSet(<<x>> \o seq) = ToSet(seq) \union {x}
<1> DEFINE s == <<x>> \o seq
<1>1. /\ Len(seq) \in Nat /\ DOMAIN seq = 1 .. Len(seq) /\ s \in Seq(T) /\ DOMAIN s = 1 .. Len(seq) + 1
      /\ s[1] = x /\ \A i \in 1 .. Len(seq) : s[i + 1] = seq[i]
  OBVIOUS
<1> HIDE DEF s
<1>2. \A i \in 1 .. Len(seq) + 1 : i = 1 \/ (i - 1 \in 1 .. Len(seq) /\ s[i] = seq[i - 1])
  <2>1. ASSUME NEW i \in 1 .. Len(seq) + 1, i # 1
        PROVE  i - 1 \in 1 .. Len(seq) /\ (i - 1) + 1 = i
    BY <1>1, <2>1
  <2> QED
    BY <1>1, <2>1
<1>3. 1 \in 1 .. Len(seq) + 1 /\ \A i \in 1 .. Len(seq) : i + 1 \in 1 .. Len(seq) + 1 /\ seq[i] # x
  BY <1>1 DEF ToSet
<1>4. Distinct(s)
  <2>1. ASSUME NEW i \in 1 .. Len(seq) + 1, NEW j \in 1 .. Len(seq) + 1, s[i] = s[j]
        PROVE  i = j
    <3>1. CASE i = 1
      BY <1>1, <1>2, <1>3, <2>1, <3>1
    <3>2. CASE i # 1
      <4>1. j # 1 /\ i - 1 \in 1 .. Len(seq) /\ j - 1 \in 1 .. Len(seq) /\ seq[i - 1] = seq[j - 1]
        BY <1>1, <1>2, <1>3, <2>1, <3>2
      <4>2. i - 1 = j - 1
        BY <1>1, <4>1 DEF Distinct
      <4> QED
        BY <1>1, <4>2
    <3> QED
      BY <3>1, <3>2
  <2> QED
    BY <1>1, <2>1 DEF Distinct
<1>5. ToSet(s) = ToSet(seq) \union {x}
  <2>1. /\ \A i \in 1 .. Len(seq) + 1 : s[i] = x \/ \E j \in 1 .. Len(seq) : s[i] = seq[j]
        /\ \A j \in 1 .. Len(seq) : \E i \in 1 .. Len(seq) + 1 : s[i] = seq[j]
        /\ \E i \in 1 .. Len(seq) + 1 : s[i] = x
    BY <1>1, <1>2, <1>3
  <2>2. ToSet(s) = {s[i] : i \in 1 .. Len(seq) + 1} /\ ToSet(seq) = {seq[i] : i \in 1 .. Len(seq)}
    BY <1>1 DEF ToSet
  <2> QED
    BY <2>1, <2>2
<1> QED
  BY <1>1, <1>4, <1>5 DEF s

(* The order of a scene.                                                   *)
LEMMA OrderedOf ==
  ASSUME NEW S \in SUBSET Pass
  PROVE  Ordered(S) \in Seq(Pass) /\ Distinct(Ordered(S)) /\ ToSet(Ordered(S)) = S
<1>1. Order \in Seq(Pass) /\ ToSet(Order) = Pass /\ Len(Order) = Cardinality(Pass)
  BY PassesAssumption
<1>2. Cardinality(1 .. Len(Order)) = Len(Order)
  <2>1. Len(Order) \in Nat
    BY <1>1
  <2>2. Cardinality(1 .. Len(Order)) = IF 1 > Len(Order) THEN 0 ELSE Len(Order) - 1 + 1
    BY <2>1, FS_Interval
  <2> QED
    BY <2>1, <2>2
<1>3. Order \in Injection(1 .. Len(Order), Pass)
  BY <1>1, <1>2, OrderIsOnto, FS_Surjection
<1>4. Distinct(Order)
  BY <1>3, OrderIsOnto DEF Distinct, Injection, IsInjective
<1>5. Pass \intersect S = S
  OBVIOUS
<1> QED
  BY <1>1, <1>4, <1>5, OnlyOf DEF Ordered

(***************************************************************************)
(* What the worker does of the passes, whatever their data                 *)
(***************************************************************************)
Lists ==
  /\ scene \in Seq(Pass) /\ Distinct(scene)
  /\ next \in Seq(Pass) /\ Distinct(next)
  /\ todo \in Seq(Pass) /\ Distinct(todo)

(* What a pass has registered depends on the stage its init has reached.   *)
Registrations ==
  /\ attached \in SUBSET Pass /\ ready \in SUBSET attached
  /\ regs \in [Pass -> Registers]
  /\ \A p \in Pass \ attached : regs[p] = Nothing
  /\ \A p \in attached : \E stage \in Stages : regs[p] = RegisteredBefore(p, stage)
  /\ \A p \in ready : regs[p] = RegisteredBefore(p, "none")

Visits ==
  /\ phase \in {"idle", "detach", "attach", "undo", "update", "draw"}
  /\ t \in Nat /\ active \in SUBSET Pass
  /\ phase \in {"idle", "update", "draw"} => attached = ToSet(scene) /\ ready = attached
  /\ phase \in {"detach", "undo"} => ToSet(todo) = attached
  /\ phase \in {"undo", "attach"} => scene = <<>>
  /\ phase = "attach" => /\ ready = attached /\ ToSet(next) = attached \union ToSet(todo)
                         /\ attached \intersect ToSet(todo) = {}
  /\ phase \in {"update", "draw"} => ToSet(todo) \subseteq ToSet(scene) \intersect active
  /\ phase = "idle" => todo = <<>>
  /\ phase # "attach" => next = <<>>

Control == Lists /\ Registrations /\ Visits

LEMMA NoPass ==
  /\ <<>> \in Seq(Pass) /\ Distinct(<<>>) /\ ToSet(<<>>) = {}
  /\ \A s \in Seq(Pass) : ToSet(s) \subseteq Pass
BY DEF Distinct, ToSet

LEMMA InitControl == Init => Control
<1> SUFFICES ASSUME Init
             PROVE  Control
  OBVIOUS
<1>1. Lists
  BY NoPass DEF Init, Lists
<1>2. Registrations
  BY NothingIsUsed DEF Init, Registrations
<1>3. Visits
  BY NoPass DEF Init, Visits
<1> QED
  BY <1>1, <1>2, <1>3 DEF Control

LEMMA NextControl ==
  ASSUME Control, [Next]_vars
  PROVE  Control'
<1> USE DEF dataVars, sceneVars, frameVars, passVars, programVars
<1>1. Lists /\ Registrations /\ Visits
  BY DEF Control
<1>2. /\ scene \in Seq(Pass) /\ next \in Seq(Pass) /\ todo \in Seq(Pass)
      /\ Distinct(scene) /\ Distinct(next) /\ Distinct(todo)
      /\ attached \in SUBSET Pass /\ ready \in SUBSET attached
  BY <1>1 DEF Lists, Registrations
<1>3. ASSUME UNCHANGED <<regs, attached, ready>>
      PROVE  Registrations'
  BY <1>1, <1>3 DEF Registrations
<1>4. ASSUME todo # <<>>
      PROVE  /\ Head(todo) \in Pass /\ Head(todo) \in ToSet(todo)
             /\ Tail(todo) \in Seq(Pass) /\ Distinct(Tail(todo)) /\ ToSet(Tail(todo)) = ToSet(todo) \ {Head(todo)}
  BY <1>2, <1>4, HeadOf
<1>5. CASE DetachScene
  <2>1. Lists'
    BY <1>1, <1>5 DEF Lists, DetachScene
  <2>2. Visits'
    BY <1>1, <1>5 DEF Visits, DetachScene
  <2> QED
    BY <1>3, <1>5, <2>1, <2>2 DEF Control, DetachScene
<1>6. ASSUME NEW S \in Scenes, SetScene(S)
      PROVE  Control'
  <2>1. Ordered(S) \in Seq(Pass) /\ Distinct(Ordered(S)) /\ ToSet(Ordered(S)) = S
    BY PassesAssumption, OrderedOf
  <2>2. Lists'
    BY <1>1, <1>6, <2>1, NoPass DEF Lists, SetScene
  <2>3. attached = {} /\ ready = {}
    BY <1>1, <1>2, <1>6, NoPass DEF Visits, SetScene
  <2>4. Visits'
    BY <1>1, <1>6, <2>1, <2>3 DEF Visits, SetScene
  <2> QED
    BY <1>3, <1>6, <2>2, <2>4 DEF Control, SetScene
<1>7. CASE Reconfigure
  <2>1. Lists'
    BY <1>1, <1>7, NoPass DEF Lists, Reconfigure
  <2>2. attached = {} /\ ready = {}
    BY <1>1, <1>2, <1>7, NoPass DEF Visits, Reconfigure
  <2>3. Visits'
    BY <1>1, <1>7, <2>2 DEF Visits, Reconfigure
  <2> QED
    BY <1>3, <1>7, <2>1, <2>3 DEF Control, Reconfigure
<1>8. ASSUME NEW p \in Pass, NEW stage \in Stage \union {"none"}, PassInit(p, stage)
      PROVE  Control'
  <2>1. /\ phase = "attach" /\ todo # <<>> /\ p = Head(todo) /\ attached' = attached \union {p}
        /\ regs' = [regs EXCEPT ![p] = RegisteredBefore(p, stage)]
        /\ UNCHANGED <<scene, frameVars>>
        /\ IF stage = "none" THEN ready' = ready \union {p} /\ todo' = Tail(todo) /\ UNCHANGED <<phase, next>>
           ELSE /\ phase' = "undo" /\ todo' = <<p>> \o Ordered(attached \ {p}) /\ next' = <<>> /\ UNCHANGED ready
    BY <1>8 DEF PassInit
  <2>2. p \notin attached /\ ready = attached /\ ToSet(next) = attached \union ToSet(todo) /\ scene = <<>>
    BY <1>1, <1>4, <2>1 DEF Visits
  <2>3. Registrations'
    <3>1. RegisteredBefore(p, stage) \in Registers /\ stage \in Stages
      BY RegisteredOf DEF Stages
    <3>2. regs \in [Pass -> Registers] /\ regs' \in [Pass -> Registers] /\ regs'[p] = RegisteredBefore(p, stage)
          /\ \A q \in Pass \ {p} : regs'[q] = regs[q]
      BY <1>1, <2>1, <3>1 DEF Registrations
    <3>3. ready' \in SUBSET attached' /\ attached' \in SUBSET Pass /\ (p \in ready' => stage = "none")
          /\ ready' \ {p} \subseteq ready
      BY <1>2, <2>1, <2>2
    <3>4. \A q \in Pass \ attached' : regs'[q] = Nothing
      BY <1>1, <2>1, <3>2 DEF Registrations
    <3>5. \A q \in attached' : \E s \in Stages : regs'[q] = RegisteredBefore(q, s)
      BY <1>1, <1>2, <2>1, <3>1, <3>2 DEF Registrations
    <3>6. \A q \in ready' : regs'[q] = RegisteredBefore(q, "none")
      BY <1>1, <1>2, <3>2, <3>3 DEF Registrations
    <3> QED
      BY <3>2, <3>3, <3>4, <3>5, <3>6 DEF Registrations
  <2>4. CASE stage = "none"
    <3>1. Lists'
      BY <1>1, <1>4, <2>1, <2>4 DEF Lists
    <3>2. Visits'
      BY <1>1, <1>4, <2>1, <2>2, <2>4 DEF Visits
    <3> QED
      BY <2>3, <3>1, <3>2 DEF Control
  <2>5. CASE stage # "none"
    <3> DEFINE rest == Ordered(attached \ {p})
    <3>1. rest \in Seq(Pass) /\ Distinct(rest) /\ ToSet(rest) = attached
      BY <1>2, <2>2, OrderedOf
    <3> HIDE DEF rest
    <3>2. <<p>> \o rest \in Seq(Pass) /\ Distinct(<<p>> \o rest) /\ ToSet(<<p>> \o rest) = attached \union {p}
      BY <2>2, <3>1, PushedOn
    <3>3. todo' = <<p>> \o rest
      BY <2>1, <2>5 DEF rest
    <3>4. Lists'
      BY <1>1, <2>1, <2>5, <3>2, <3>3, NoPass DEF Lists
    <3>5. Visits'
      BY <1>1, <2>1, <2>2, <2>5, <3>2, <3>3 DEF Visits
    <3> QED
      BY <2>3, <3>4, <3>5 DEF Control
  <2> QED
    BY <2>4, <2>5
<1>9. CASE AttachDone
  <2>1. Lists'
    BY <1>1, <1>9, NoPass DEF Lists, AttachDone
  <2>2. Visits'
    BY <1>1, <1>9, NoPass DEF Visits, AttachDone
  <2> QED
    BY <1>3, <1>9, <2>1, <2>2 DEF Control, AttachDone
<1>10. ASSUME NEW p \in Pass, PassUninit(p)
       PROVE  Control'
  <2>1. /\ phase \in {"detach", "undo"} /\ todo # <<>> /\ p = Head(todo) /\ attached' = attached \ {p}
        /\ ready' = ready \ {p} /\ regs' = [regs EXCEPT ![p] = Nothing] /\ todo' = Tail(todo)
        /\ UNCHANGED <<sceneVars, frameVars, phase>>
    BY <1>10 DEF PassUninit
  <2>2. Lists'
    BY <1>1, <1>4, <2>1 DEF Lists
  <2>3. Visits'
    BY <1>1, <1>4, <2>1 DEF Visits
  <2>4. Registrations'
    <3>1. regs \in [Pass -> Registers] /\ regs' \in [Pass -> Registers] /\ regs'[p] = Nothing
          /\ \A q \in Pass \ {p} : regs'[q] = regs[q]
      BY <1>1, <2>1, NothingIsUsed DEF Registrations
    <3> QED
      BY <1>1, <2>1, <3>1 DEF Registrations
  <2> QED
    BY <2>2, <2>3, <2>4 DEF Control
<1>11. CASE UndoDone
  <2>1. attached = {} /\ ready = {} /\ scene = <<>>
    BY <1>1, <1>2, <1>11, NoPass DEF Visits, UndoDone
  <2>2. Lists' /\ Visits'
    BY <1>1, <1>11, <2>1, NoPass DEF Lists, Visits, UndoDone
  <2> QED
    BY <1>3, <1>11, <2>2 DEF Control, UndoDone
<1>12. ASSUME NEW time \in Time, NEW A \in Actives, Draw(time, A \intersect ToSet(scene))
       PROVE  Control'
  <2> DEFINE B == A \intersect ToSet(scene)
  <2>1. Only(scene, B) \in Seq(Pass) /\ ToSet(Only(scene, B)) = ToSet(scene) \intersect B /\ Distinct(Only(scene, B))
    BY <1>2, OnlyOf
  <2>2. B \in SUBSET Pass /\ time \in Nat
    BY GpuDataAssumption, <1>2, NoPass
  <2> HIDE DEF B
  <2>3. /\ phase = "idle" /\ phase' = "update" /\ t' = time /\ active' = B /\ todo' = Only(scene, B)
        /\ UNCHANGED <<sceneVars, regs, attached, ready>>
    BY <1>12 DEF Draw, B
  <2>4. Lists'
    BY <1>1, <2>1, <2>3 DEF Lists
  <2>5. Visits'
    BY <1>1, <2>1, <2>2, <2>3 DEF Visits
  <2> QED
    BY <1>3, <2>3, <2>4, <2>5 DEF Control
<1>13. ASSUME NEW p \in Pass, NEW bad, UpdatePass(p, bad)
       PROVE  Control'
  <2>1. /\ phase = "update" /\ todo # <<>> /\ UNCHANGED <<sceneVars, regs, attached, ready>>
        /\ \/ phase' = "idle" /\ todo' = <<>> /\ t' = 0 /\ active' = {}
           \/ todo' = Tail(todo) /\ UNCHANGED <<phase, frameVars>>
    BY <1>13 DEF UpdatePass, FrameEnds
  <2>2. Lists'
    BY <1>1, <1>4, <2>1, NoPass DEF Lists
  <2>3. CASE phase' = "idle" /\ todo' = <<>> /\ t' = 0 /\ active' = {}
    <3>1. Visits'
      BY <1>1, <2>1, <2>3 DEF Visits
    <3> QED
      BY <1>3, <2>1, <2>2, <3>1 DEF Control
  <2>4. CASE todo' = Tail(todo) /\ UNCHANGED <<phase, frameVars>>
    <3>1. Visits'
      BY <1>1, <1>4, <2>1, <2>4 DEF Visits
    <3> QED
      BY <1>3, <2>1, <2>2, <3>1 DEF Control
  <2> QED
    BY <2>1, <2>3, <2>4
<1>14. ASSUME NEW p \in Pass, SkipPass(p)
       PROVE  Control'
  <2>1. Lists' /\ Visits'
    BY <1>1, <1>4, <1>14 DEF Lists, Visits, SkipPass
  <2> QED
    BY <1>3, <1>14, <2>1 DEF Control, SkipPass
<1>15. CASE UpdateDone
  <2>1. Only(scene, active) \in Seq(Pass) /\ Distinct(Only(scene, active))
        /\ ToSet(Only(scene, active)) = ToSet(scene) \intersect active
    BY <1>2, OnlyOf
  <2>2. Lists' /\ Visits'
    BY <1>1, <1>15, <2>1 DEF Lists, Visits, UpdateDone
  <2> QED
    BY <1>3, <1>15, <2>2 DEF Control, UpdateDone
<1>16. ASSUME NEW p \in Pass, ExecPass(p)
       PROVE  Control'
  <2>1. phase = "draw" /\ todo # <<>> /\ todo' = Tail(todo) /\ UNCHANGED <<sceneVars, frameVars, passVars, phase>>
    BY <1>16 DEF ExecPass
  <2>2. Lists' /\ Visits'
    BY <1>1, <1>4, <2>1 DEF Lists, Visits
  <2> QED
    BY <1>3, <2>1, <2>2 DEF Control
<1>17. CASE DrawDone
  <2>1. Lists' /\ Visits'
    BY <1>1, <1>17, NoPass DEF Lists, Visits, DrawDone, FrameEnds
  <2> QED
    BY <1>3, <1>17, <2>1 DEF Control, DrawDone
<1>18. ASSUME NEW n \in Uniform, LiveChange(n)
       PROVE  Control'
  <2>1. Lists' /\ Visits'
    BY <1>1, <1>18 DEF Lists, Visits, LiveChange
  <2> QED
    BY <1>3, <1>18, <2>1 DEF Control, LiveChange
<1>19. CASE UNCHANGED vars
  <2>1. Lists' /\ Visits'
    BY <1>1, <1>19 DEF Lists, Visits, vars
  <2> QED
    BY <1>3, <1>19, <2>1 DEF Control, vars
<1> QED
  BY <1>5, <1>6, <1>7, <1>8, <1>9, <1>10, <1>11, <1>12, <1>13, <1>14, <1>15, <1>16, <1>17, <1>18, <1>19 DEF Next

(***************************************************************************)
(* The programs                                                            *)
(***************************************************************************)
LEMMA OwnersOf ==
  /\ IsFiniteSet(Owner)
  /\ \A p \in Pass : /\ OwnerOf(p) \in Owner
                     /\ OwnerOf(p) = p \/ OwnerOf(p) \in Program \intersect Given(p)
  /\ \A p, q \in Pass : p \notin Given(q)
  /\ Program \intersect Pass = {}
<1>1. IsFiniteSet(Program) /\ Program \intersect Pass = {}
      /\ (Node \union Texture) \intersect (Program \union Pass) = {} /\ Param \in [Pass -> ParamType]
  BY PassesAssumption
<1>2. IsFiniteSet(Owner)
  BY <1>1, PassesAreFinite, FS_Union DEF Owner
<1>3. ASSUME NEW p \in Pass
      PROVE  OwnerOf(p) \in Owner /\ (OwnerOf(p) = p \/ OwnerOf(p) \in Program \intersect Given(p))
  <2>1. Param[p].program \in Program \union {Default}
    BY <1>1 DEF ParamType
  <2> QED
    BY <2>1, GivenOf DEF Owner, OwnerOf
<1>4. ASSUME NEW p \in Pass, NEW q \in Pass
      PROVE  p \notin Given(q)
  BY <1>1, GivenOf
<1> QED
  BY <1>1, <1>2, <1>3, <1>4

(* There is a name that no program has.                                    *)
LEMMA FreshProgramOf ==
  ASSUME NEW ids \in [Owner -> Nat]
  PROVE  FreshProgram(ids) \in Nat \ {0} /\ \A o \in Owner : ids[o] # FreshProgram(ids)
<1> DEFINE names == {ids[o] : o \in Owner}
           used == names \union {gl_program}
           n == Cardinality(Owner) + 2
           free == (1 .. n) \ used
<1>1. IsFiniteSet(names) /\ Cardinality(names) <= Cardinality(Owner)
  <2>1. ids \in [Owner -> names] /\ \A x \in names : \E o \in Owner : ids[o] = x
    OBVIOUS
  <2>2. ids \in Surjection(Owner, names)
    BY <2>1 DEF Surjection
  <2> HIDE DEF names
  <2> QED
    BY <2>2, OwnersOf, FS_Surjection
<1>2. Cardinality(names) \in Nat /\ Cardinality(Owner) \in Nat
  <2> HIDE DEF names
  <2> QED
    BY <1>1, OwnersOf, FS_CardinalityType
<1>3. IsFiniteSet(used) /\ Cardinality(used) <= Cardinality(Owner) + 1 /\ Cardinality(used) \in Nat
  <2> HIDE DEF names
  <2>1. IsFiniteSet(used) /\ Cardinality(used) = IF gl_program \in names THEN Cardinality(names) ELSE Cardinality(names) + 1
    BY <1>1, FS_AddElement
  <2> HIDE DEF used
  <2> QED
    BY <1>1, <1>2, <2>1
<1>4. IsFiniteSet(1 .. n) /\ Cardinality(1 .. n) = n /\ n \in Nat
  <2>1. n \in Nat /\ 1 \in Int /\ ~ 1 > n
    BY <1>2
  <2> HIDE DEF n
  <2>2. IsFiniteSet(1 .. n) /\ Cardinality(1 .. n) = n - 1 + 1
    BY <2>1, FS_Interval
  <2> QED
    BY <2>1, <2>2
<1>5. free # {}
  <2> SUFFICES ASSUME free = {}
               PROVE  FALSE
    OBVIOUS
  <2>1. 1 .. n \subseteq used
    OBVIOUS
  <2>2. Cardinality(1 .. n) <= Cardinality(used)
    <3> HIDE DEF used, n
    <3> QED
      BY <1>3, <2>1, FS_Subset
  <2> QED
    BY <1>2, <1>3, <1>4, <2>2
<1>6. free \in SUBSET Nat
  BY <1>4
<1>7. \E i \in free : \A j \in free : i <= j
  <2> HIDE DEF free
  <2> QED
    BY <1>5, <1>6, LeastExists
<1> DEFINE P(i) == i \in 1 .. n /\ i \notin used /\ \A j \in 1 .. i - 1 : j \in used
<1>8. \E i : P(i)
  <2>1. PICK i \in free : \A j \in free : i <= j
    BY <1>7
  <2>2. \A j \in 1 .. i - 1 : j \in 1 .. n /\ ~ i <= j
    BY <1>4, <2>1
  <2> HIDE DEF used, n
  <2> QED
    BY <2>1, <2>2
<1>9. FreshProgram(ids) = CHOOSE i : P(i)
  BY DEF FreshProgram
<1>10. P(CHOOSE i : P(i))
  <2> HIDE DEF P
  <2> QED
    BY <1>8
<1>11. FreshProgram(ids) \in 1 .. n /\ FreshProgram(ids) \notin used
  <2> HIDE DEF used, n
  <2> QED
    BY <1>9, <1>10
<1> QED
  BY <1>4, <1>11

(* Every pass that is ready has a program of its own or shares one with    *)
(* the passes that have the same Program node.                             *)
Programs ==
  /\ id \in [Owner -> Nat]
  /\ program_id = gl_program
  /\ \A o, q \in Owner : id[o] = id[q] /\ id[o] # 0 => o = q
  /\ \A p \in ready : id[OwnerOf(p)] # 0

LEMMA NextPrograms ==
  ASSUME Control, Programs, [Next]_vars
  PROVE  Programs'
<1> USE DEF dataVars, sceneVars, frameVars, passVars, programVars
<1>1. ready \in SUBSET Pass /\ attached \in SUBSET Pass /\ ready \subseteq attached
  BY DEF Control, Registrations
<1>2. ASSUME UNCHANGED <<ready, id>>, program_id' = gl_program'
      PROVE  Programs'
  BY <1>2 DEF Programs
<1>3. ASSUME UNCHANGED <<ready, programVars>>
      PROVE  Programs'
  BY <1>3 DEF Programs
<1>4. CASE DetachScene
  BY <1>3, <1>4 DEF DetachScene
<1>5. ASSUME NEW S \in Scenes, SetScene(S)
      PROVE  Programs'
  BY <1>3, <1>5 DEF SetScene
<1>6. CASE Reconfigure
  BY <1>2, <1>6 DEF Reconfigure
<1>7. ASSUME NEW p \in Pass, NEW stage \in Stage \union {"none"}, PassInit(p, stage)
      PROVE  Programs'
  <2>1. /\ id' = WithProgram(id, p) /\ ready' \subseteq ready \union {p}
        /\ UNCHANGED <<program_id, gl_program>>
    BY <1>7 DEF PassInit
  <2>2. /\ FreshProgram(id) \in Nat \ {0} /\ \A o \in Owner : id[o] # FreshProgram(id)
        /\ OwnerOf(p) \in Owner /\ \A q \in Pass : OwnerOf(q) \in Owner
    BY FreshProgramOf, OwnersOf DEF Programs
  <2>3. id' \in [Owner -> Nat] /\ id'[OwnerOf(p)] # 0
        /\ \A o \in Owner : id'[o] = id[o] \/ (o = OwnerOf(p) /\ id[o] = 0 /\ id'[o] = FreshProgram(id))
    BY <2>1, <2>2 DEF Programs, WithProgram
  <2>4. \A o \in Owner : id[o] # 0 => id'[o] # 0
    BY <2>2, <2>3
  <2>5. \A o, q \in Owner : id'[o] = id'[q] /\ id'[o] # 0 => o = q
    BY <2>2, <2>3 DEF Programs
  <2>6. \A q \in ready' : id'[OwnerOf(q)] # 0
    BY <1>1, <2>1, <2>2, <2>3, <2>4 DEF Programs
  <2> QED
    BY <2>1, <2>3, <2>5, <2>6 DEF Programs
<1>8. CASE AttachDone
  BY <1>3, <1>8 DEF AttachDone
<1>9. ASSUME NEW p \in Pass, PassUninit(p)
      PROVE  Programs'
  <2> DEFINE gone == Given(p) \ Children(attached \ {p})
  <2>1. /\ id' = WithoutProgram(id, p, gone) /\ ready' = ready \ {p} /\ UNCHANGED <<program_id, gl_program>>
    BY <1>9 DEF PassUninit
  <2>2. ASSUME NEW q \in ready, q # p
        PROVE  OwnerOf(q) # p /\ OwnerOf(q) \notin gone
    <3>1. q \in attached \ {p} /\ q \in Pass
      BY <1>1, <2>2
    <3>2. Given(q) \subseteq Children(attached \ {p})
      BY <3>1 DEF Children
    <3> QED
      BY <2>2, <3>1, <3>2, OwnersOf
  <2> HIDE DEF gone
  <2>3. id' = [o \in Owner |-> IF o = p \/ o \in gone THEN 0 ELSE id[o]]
    BY <2>1 DEF WithoutProgram
  <2>4. id' \in [Owner -> Nat] /\ \A o \in Owner : id'[o] = 0 \/ id'[o] = id[o]
    BY <2>3 DEF Programs
  <2>5. \A q \in ready' : id'[OwnerOf(q)] = id[OwnerOf(q)]
    BY <1>1, <2>1, <2>2, <2>3, OwnersOf
  <2> QED
    BY <2>1, <2>4, <2>5 DEF Programs
<1>10. CASE UndoDone
  BY <1>3, <1>10 DEF UndoDone
<1>11. ASSUME NEW time \in Time, NEW A, Draw(time, A)
       PROVE  Programs'
  BY <1>3, <1>11 DEF Draw
<1>12. ASSUME NEW p \in Pass, NEW bad, UpdatePass(p, bad)
       PROVE  Programs'
  BY <1>3, <1>12 DEF UpdatePass
<1>13. ASSUME NEW p \in Pass, SkipPass(p)
       PROVE  Programs'
  BY <1>3, <1>13 DEF SkipPass
<1>14. CASE UpdateDone
  BY <1>3, <1>14 DEF UpdateDone
<1>15. ASSUME NEW p \in Pass, ExecPass(p)
       PROVE  Programs'
  <2>1. UNCHANGED <<ready, id>> /\ program_id' = gl_program'
    BY <1>15 DEF ExecPass, UseProgram, Programs
  <2> QED
    BY <1>2, <2>1
<1>16. CASE DrawDone
  BY <1>3, <1>16 DEF DrawDone
<1>17. ASSUME NEW n \in Uniform, LiveChange(n)
       PROVE  Programs'
  BY <1>3, <1>17 DEF LiveChange
<1>18. CASE UNCHANGED vars
  BY <1>3, <1>18 DEF vars
<1> QED
  BY <1>4, <1>5, <1>6, <1>7, <1>8, <1>9, <1>10, <1>11, <1>12, <1>13, <1>14, <1>15, <1>16, <1>17, <1>18 DEF Next

(* The program that is in use is the one ctx->program_id names, and no     *)
(* pass is drawn with the program of another.                              *)
THEOREM ProgramsAreOwn == Spec => []ProgramIsInUse
<1>1. Init => Control /\ Programs
  BY InitControl DEF Init, Programs
<1>2. Control /\ Programs /\ [Next]_vars => (Control /\ Programs)'
  BY NextControl, NextPrograms
<1>3. Control /\ Programs => ProgramIsInUse
  BY OwnersOf DEF Control, Registrations, Programs, ProgramIsInUse
<1> QED
  BY <1>1, <1>2, <1>3, PTL DEF Spec

(***************************************************************************)
(* The buffers                                                             *)
(***************************************************************************)
(* A pass uses the targets of what it has registered to be bound.          *)
BoundIn(x) == ToSet(x.indices) \union ToSet(x.attributes) \union ToSet(x.blocks)

LEMMA UsedBy ==
  ASSUME NEW x \in Registers, NEW r
  PROVE  UsesIn(x, r) \in Nat /\ (UsesIn(x, r) > 0 <=> \E n \in BoundIn(x) : Target(n) = r)
<1> DEFINE i == x.indices
           a == x.attributes
           b == x.blocks
           up == (i \o a) \o b
           S == {k \in DOMAIN up : Target(up[k]) = r}
<1>1. i \in Seq(Bound) /\ a \in Seq(Bound) /\ b \in Seq(Bound)
  BY DEF Registers
<1>2. UsesIn(x, r) = Cardinality(S)
  BY DEF UsesIn
<1> HIDE DEF i, a, b
<1>3. /\ up \in Seq(Bound) /\ Len(i) \in Nat /\ Len(a) \in Nat /\ Len(b) \in Nat
      /\ DOMAIN up = 1 .. Len(i) + Len(a) + Len(b)
      /\ \A k \in 1 .. Len(i) : up[k] = i[k]
      /\ \A k \in 1 .. Len(a) : up[Len(i) + k] = a[k]
      /\ \A k \in 1 .. Len(b) : up[Len(i) + Len(a) + k] = b[k]
  BY <1>1
<1> HIDE DEF up
<1>4. IsFiniteSet(S)
  <2>1. IsFiniteSet(DOMAIN up) /\ S \in SUBSET DOMAIN up
    <3>1. 1 \in Int /\ Len(i) + Len(a) + Len(b) \in Int
      BY <1>3
    <3> QED
      BY <1>3, <3>1, FS_Interval
  <2> HIDE DEF S
  <2> QED
    BY <2>1, FS_Subset
<1>5. Cardinality(S) \in Nat /\ (Cardinality(S) = 0 <=> S = {})
  <2> HIDE DEF S
  <2> QED
    BY <1>4, FS_CardinalityType, FS_EmptySet
<1>6. BoundIn(x) = ToSet(i) \union ToSet(a) \union ToSet(b)
  BY DEF BoundIn, i, a, b
<1>7. ToSet(i) = {i[k] : k \in 1 .. Len(i)} /\ ToSet(a) = {a[k] : k \in 1 .. Len(a)}
      /\ ToSet(b) = {b[k] : k \in 1 .. Len(b)}
  BY <1>1 DEF ToSet
<1>8. ASSUME NEW n \in BoundIn(x)
      PROVE  \E k \in DOMAIN up : up[k] = n
  <2>1. CASE n \in ToSet(i)
    <3>1. PICK k \in 1 .. Len(i) : n = i[k]
      BY <1>7, <2>1
    <3>2. k \in 1 .. Len(i) + Len(a) + Len(b) /\ up[k] = n
      BY <1>3, <3>1
    <3> QED
      BY <1>3, <3>2
  <2>2. CASE n \in ToSet(a)
    <3>1. PICK k \in 1 .. Len(a) : n = a[k]
      BY <1>7, <2>2
    <3>2. Len(i) + k \in 1 .. Len(i) + Len(a) + Len(b) /\ up[Len(i) + k] = n
      BY <1>3, <3>1
    <3> QED
      BY <1>3, <3>2
  <2>3. CASE n \in ToSet(b)
    <3>1. PICK k \in 1 .. Len(b) : n = b[k]
      BY <1>7, <2>3
    <3>2. Len(i) + Len(a) + k \in 1 .. Len(i) + Len(a) + Len(b) /\ up[Len(i) + Len(a) + k] = n
      BY <1>3, <3>1
    <3> QED
      BY <1>3, <3>2
  <2> QED
    BY <1>6, <2>1, <2>2, <2>3
<1>9. ASSUME NEW k \in DOMAIN up
      PROVE  up[k] \in BoundIn(x)
  <2>1. CASE k \in 1 .. Len(i)
    BY <1>3, <1>6, <1>7, <2>1
  <2>2. CASE k - Len(i) \in 1 .. Len(a)
    <3>1. Len(i) + (k - Len(i)) = k
      BY <1>3
    <3> QED
      BY <1>3, <1>6, <1>7, <2>2, <3>1
  <2>3. CASE k - Len(i) - Len(a) \in 1 .. Len(b)
    <3>1. Len(i) + Len(a) + (k - Len(i) - Len(a)) = k
      BY <1>3
    <3> QED
      BY <1>3, <1>6, <1>7, <2>3, <3>1
  <2> QED
    BY <1>3, <2>1, <2>2, <2>3
<1>10. S # {} <=> \E n \in BoundIn(x) : Target(n) = r
  BY <1>8, <1>9
<1> HIDE DEF S
<1> QED
  BY <1>2, <1>5, <1>10

LEMMA RefAllOf ==
  ASSUME NEW e \in Fitting, NEW x \in Registers, \A r \in Resource : e.refs[r] >= 0
  PROVE  LET f == RefAll(e, x)
         IN  f \in Fitting /\ SameData(e, f) /\ \A r \in Resource : Referenced(e, f, r, UsesIn(x, r))
<1> DEFINE up == x.indices \o x.attributes \o x.blocks
<1>1. up \in Seq(Bound) /\ \A r : Uses(up, r, Len(up)) = UsesIn(x, r)
  BY UsesInOrder
<1>2. RefAll(e, x) = FoldLeft(Ref, e, up)
  BY DEF RefAll
<1> HIDE DEF up
<1> QED
  BY <1>1, <1>2, RefManyOf

LEMMA UnrefAllOf ==
  ASSUME NEW e \in Fitting, NEW x \in Registers
  PROVE  LET f == UnrefAll(e, x)
         IN  /\ f \in Fitting /\ SameData(e, f) /\ f.uploaded = e.uploaded
             /\ \A r \in Resource : Unreferenced(e, f, r, UsesIn(x, r))
<1> DEFINE down == x.indices \o x.blocks \o x.attributes
<1>1. down \in Seq(Bound) /\ \A r : Uses(down, r, Len(down)) = UsesIn(x, r)
  BY UsesInOrder
<1>2. UnrefAll(e, x) = FoldLeft(Unref, e, down)
  BY DEF UnrefAll
<1> HIDE DEF down
<1> QED
  BY <1>1, <1>2, UnrefManyOf

(* A compute pass stores to the buffers there are.                         *)
AfterStores(e, S) ==
  [e EXCEPT !.gpu = [r \in Resource |-> [i \in DOMAIN @[r] |-> IF <<r, i>> \in S THEN Computed ELSE @[r][i]]]]

LEMMA StoresOf ==
  ASSUME NEW e \in Fitting, NEW S
  PROVE  LET f == AfterStores(e, S)
         IN  /\ f \in Fitting /\ SameData(e, f) /\ f.refs = e.refs /\ f.uploaded = e.uploaded
             /\ \A r \in Resource : /\ DOMAIN f.gpu[r] = DOMAIN e.gpu[r]
                                    /\ \A i \in DOMAIN e.gpu[r] :
                                         f.gpu[r][i] = IF <<r, i>> \in S THEN Computed ELSE e.gpu[r][i]
<1> DEFINE gpu == [r \in Resource |-> [i \in DOMAIN e.gpu[r] |-> IF <<r, i>> \in S THEN Computed ELSE e.gpu[r][i]]]
           f == AfterStores(e, S)
<1>0. f = [e EXCEPT !.gpu = gpu]
  BY DEF AfterStores
<1>1. e \in Store /\ e.gpu \in [Resource -> Seq(Int)]
  BY DEF Fitting, Store
<1>2. ASSUME NEW r \in Resource
      PROVE  gpu[r] \in Seq(Int) /\ DOMAIN gpu[r] = DOMAIN e.gpu[r] /\ (gpu[r] = <<>> <=> e.gpu[r] = <<>>)
  <2>1. e.gpu[r] \in Seq(Int) /\ Len(e.gpu[r]) \in Nat /\ DOMAIN e.gpu[r] = 1 .. Len(e.gpu[r])
        /\ \A i \in DOMAIN e.gpu[r] : e.gpu[r][i] \in Int
    BY <1>1
  <2>2. gpu[r] = [i \in 1 .. Len(e.gpu[r]) |-> IF <<r, i>> \in S THEN Computed ELSE e.gpu[r][i]]
    BY <2>1
  <2>3. \A i \in 1 .. Len(e.gpu[r]) : (IF <<r, i>> \in S THEN Computed ELSE e.gpu[r][i]) \in Int
    BY <2>1 DEF Computed
  <2> HIDE DEF gpu
  <2>4. gpu[r] \in Seq(Int) /\ Len(gpu[r]) = Len(e.gpu[r])
    BY <2>1, <2>2, <2>3
  <2> QED
    BY <2>1, <2>2, <2>4
<1>3. gpu \in [Resource -> Seq(Int)]
  BY <1>2
<1>4. \A r \in Resource : \A i \in DOMAIN e.gpu[r] :
        gpu[r][i] = IF <<r, i>> \in S THEN Computed ELSE e.gpu[r][i]
  OBVIOUS
<1> HIDE DEF gpu, f
<1>5. /\ f \in Store /\ SameData(e, f) /\ f.refs = e.refs /\ f.uploaded = e.uploaded /\ f.gpu = gpu
  BY <1>0, <1>1, <1>3 DEF Store, SameData
<1>6. f \in Fitting
  BY <1>2, <1>5 DEF Fitting, DataFit, BuffersFit, SameData, NoBuffer
<1> QED
  BY <1>2, <1>4, <1>5, <1>6 DEF f, gpu

(* Each buffer has a reference for every use of it.                        *)
Counted ==
  /\ d \in Fitting /\ Fresh(d)
  /\ param \in [Uniform \union Static -> Int]
  /\ \A r \in Resource : d.refs[r] = TotalUses(r, regs)

(* What is referenced is a child of the passes that are attached.          *)
LEMMA UsedIsGiven ==
  ASSUME Control
  PROVE  /\ regs \in [Pass -> Registers]
         /\ \A p \in Pass : \A r : UsesIn(regs[p], r) > 0 => p \in attached /\ r \in Given(p)
         /\ \A p \in Pass : ToSet(regs[p].blocks) \subseteq Block
<1>1. /\ regs \in [Pass -> Registers] /\ \A p \in Pass \ attached : regs[p] = Nothing
      /\ \A p \in attached : \E stage \in Stages : regs[p] = RegisteredBefore(p, stage)
  BY DEF Control, Registrations
<1>2. \A r : UsesIn(Nothing, r) = 0
  BY NothingIsUsed
<1>3. ASSUME NEW p \in Pass, NEW r, UsesIn(regs[p], r) > 0
      PROVE  p \in attached /\ r \in Given(p)
  <2>1. p \in attached
    BY <1>1, <1>2, <1>3
  <2>2. PICK stage \in Stages : regs[p] = RegisteredBefore(p, stage)
    BY <1>1, <2>1
  <2>3. PICK n \in BoundIn(regs[p]) : Target(n) = r
    BY <1>1, <1>3, UsedBy
  <2>4. \A m \in BoundIn(RegisteredBefore(p, stage)) : Target(m) \in Given(p)
    BY RegisteredOf DEF BoundIn
  <2> QED
    BY <2>1, <2>2, <2>3, <2>4
<1>4. ASSUME NEW p \in Pass
      PROVE  ToSet(regs[p].blocks) \subseteq Block
  <2>1. CASE p \in attached
    <3>1. PICK stage \in Stages : regs[p] = RegisteredBefore(p, stage)
      BY <1>1, <2>1
    <3>2. ToSet(RegisteredBefore(p, stage).blocks) \subseteq Block
      BY RegisteredOf
    <3> QED
      BY <3>1, <3>2
  <2>2. CASE p \notin attached
    <3>1. regs[p] = Nothing /\ Nothing.blocks = <<>>
      BY <1>1, <2>2 DEF Nothing, Registered
    <3> QED
      BY <3>1, NoPass
  <2> QED
    BY <2>1, <2>2
<1> QED
  BY <1>1, <1>3, <1>4

LEMMA ReferencedIsGiven ==
  ASSUME Control, Counted, NEW r \in Resource, d.refs[r] > 0
  PROVE  r \in Children(attached)
<1> SUFFICES ASSUME r \notin Children(attached)
             PROVE  FALSE
  OBVIOUS
<1>1. regs \in [Pass -> Registers] /\ \A p \in Pass : UsesIn(regs[p], r) \in Nat
  BY UsedIsGiven, UsesInOrder
<1>2. \A p \in Pass : UsesIn(regs[p], r) = 0
  BY <1>1, UsedIsGiven DEF Children
<1>3. \A p \in Pass : UsesOfAll(r, regs)[p] = 0
  BY <1>2 DEF UsesOfAll
<1>4. PICK it : IsSum(it, UsesOfAll(r, regs), Pass) /\ TotalUses(r, regs) = it[Pass]
  BY <1>1, TotalIsSum
<1>5. it[Pass] = 0
  BY <1>1, <1>3, <1>4, UsesType, PassesAreFinite, SumOfZeros
<1> QED
  BY <1>4, <1>5 DEF Counted

(* What a pass has registered is backed by a buffer.                       *)
LEMMA RegisteredIsBacked ==
  ASSUME Control, Counted, NEW p \in Pass
  PROVE  /\ regs[p] \in Registers
         /\ \A n \in BoundIn(regs[p]) : Target(n) \in Resource /\ d.refs[Target(n)] > 0
         /\ regs[p].uniforms \in Seq(DataNode) /\ regs[p].indices \in Seq(Backed(d))
         /\ regs[p].attributes \in Seq(Backed(d)) /\ regs[p].blocks \in Seq(Backed(d))
<1> DEFINE x == regs[p]
<1>1. x \in Registers /\ d \in Fitting
  BY UsedIsGiven DEF Counted
<1>2. x.indices \in Seq(Bound) /\ x.attributes \in Seq(Bound) /\ x.blocks \in Seq(Bound) /\ x.uniforms \in Seq(DataNode)
  BY <1>1 DEF Registers
<1>3. ASSUME NEW n \in BoundIn(x)
      PROVE  n \in Bound /\ Target(n) \in Resource /\ d.refs[Target(n)] > 0
  <2>1. n \in Bound
    BY <1>2 DEF BoundIn, ToSet
  <2>2. Target(n) \in Resource
    BY <1>1, <2>1, ContentExists
  <2>3. UsesIn(x, Target(n)) \in Nat /\ UsesIn(x, Target(n)) > 0
    BY <1>1, UsedBy
  <2>4. TotalUses(Target(n), regs) \in Nat /\ TotalUses(Target(n), regs) >= UsesIn(x, Target(n))
    BY UsedIsGiven, TotalBounds
  <2> QED
    BY <2>1, <2>2, <2>3, <2>4 DEF Counted
<1> HIDE DEF x
<1>4. ASSUME NEW s \in Seq(Bound), ToSet(s) \subseteq BoundIn(x)
      PROVE  s \in Seq(Backed(d))
  <2>1. Len(s) \in Nat /\ DOMAIN s = 1 .. Len(s) /\ s = [i \in 1 .. Len(s) |-> s[i]]
    OBVIOUS
  <2>2. \A i \in 1 .. Len(s) : s[i] \in Backed(d)
    BY <1>3, <1>4, <2>1 DEF Backed, ToSet
  <2> QED
    BY <2>1, <2>2
<1>5. /\ x.indices \in Seq(Backed(d)) /\ x.attributes \in Seq(Backed(d)) /\ x.blocks \in Seq(Backed(d))
  BY <1>2, <1>4 DEF BoundIn
<1> QED
  BY <1>1, <1>2, <1>3, <1>5 DEF x

LEMMA InitCounted == Init => Counted
<1> SUFFICES ASSUME Init
             PROVE  Counted
  OBVIOUS
<1>1. d = NoData /\ regs = [p \in Pass |-> Nothing] /\ param = [n \in Uniform \union Static |-> 1]
  BY DEF Init
<1>2. ASSUME NEW b \in Block
      PROVE  [i \in DOMAIN Fields[b] |-> 0] \in Seq(Int)
  <2>1. Fields[b] \in Seq(DataNode)
    BY GpuDataAssumption
  <2>2. DOMAIN Fields[b] = 1 .. Len(Fields[b]) /\ Len(Fields[b]) \in Nat
    BY <2>1
  <2> QED
    BY <2>2
<1>3. <<>> \in Seq(Int) /\ Never \in Int
  BY DEF Never
<1>4. NoData \in Store
  BY <1>2, <1>3 DEF NoData, Store, NoBuffer
<1>5. NoData \in Fitting /\ Fresh(NoData)
  BY <1>4 DEF Fitting, DataFit, BuffersFit, NoData, NoBuffer, Fresh
<1>6. \A r \in Resource : NoData.refs[r] = 0
  BY DEF NoData
<1> QED
  BY <1>1, <1>5, <1>6, NothingIsUsed DEF Counted

(* What each step does to the buffers.                                     *)
LEMMA PassInitOf ==
  ASSUME Control, Counted, NEW p \in Pass, NEW stage \in Stage \union {"none"}, PassInit(p, stage)
  PROVE  LET x == RegisteredBefore(p, stage)
             new == Given(p) \ Children(attached)
         IN  /\ x \in Registers /\ regs[p] = Nothing
             /\ d' \in Fitting /\ d'.changed = d.changed \union (new \intersect Block)
             /\ \A r \in Resource : /\ d'.refs[r] = d.refs[r] + UsesIn(x, r)
                                    /\ d.refs[r] > 0 => d'.gpu[r] = d.gpu[r] /\ d'.uploaded[r] = d.uploaded[r]
                                    /\ d.refs[r] = 0 /\ d'.refs[r] > 0 => d'.uploaded[r] = Never
<1> DEFINE x == RegisteredBefore(p, stage)
           new == Given(p) \ Children(attached)
           e == InitNodes(d, new \intersect Node, param)
<1>1. x \in Registers
  BY RegisteredOf DEF Stages
<1>2. regs[p] = Nothing
  <2>1. todo # <<>> /\ p = Head(todo) /\ phase = "attach"
    BY DEF PassInit
  <2>2. p \in ToSet(todo)
    BY <2>1, HeadOf DEF Control, Lists
  <2> QED
    BY <2>1, <2>2 DEF Control, Visits, Registrations
<1>3. d' = RefAll(e, x)
  BY DEF PassInit
<1>4. d \in Fitting /\ \A r \in Resource : d.refs[r] \in Int /\ d.refs[r] >= 0
  <2>1. \A r : TotalUses(r, regs) \in Nat
    BY UsedIsGiven, TotalBounds
  <2> QED
    BY <2>1 DEF Counted
<1> HIDE DEF x
<1>5. e \in Fitting /\ SameBuffers(d, e) /\ e.changed = d.changed \union (new \intersect Block)
  <2>1. e \in Fitting /\ SameBuffers(d, e) /\ e.changed = d.changed \union ((new \intersect Node) \intersect Block)
    BY <1>4, InitNodesOf DEF Counted
  <2>2. (new \intersect Node) \intersect Block = new \intersect Block
    BY DEF Node
  <2> QED
    BY <2>1, <2>2
<1> HIDE DEF e, new
<1>6. e.refs = d.refs /\ e.gpu = d.gpu /\ e.uploaded = d.uploaded
  BY <1>5 DEF SameBuffers
<1>7. d' \in Fitting /\ SameData(e, d') /\ \A r \in Resource : Referenced(e, d', r, UsesIn(x, r))
  BY <1>1, <1>3, <1>4, <1>5, <1>6, RefAllOf
<1>8. \A r : UsesIn(x, r) \in Nat
  BY <1>1, UsesInOrder
<1>9. \A r \in Resource : /\ d'.refs[r] = d.refs[r] + UsesIn(x, r)
                          /\ d.refs[r] > 0 => d'.gpu[r] = d.gpu[r] /\ d'.uploaded[r] = d.uploaded[r]
                          /\ d.refs[r] = 0 /\ d'.refs[r] > 0 => d'.uploaded[r] = Never
  BY <1>4, <1>6, <1>7, <1>8 DEF Referenced
<1>10. d'.changed = d.changed \union (new \intersect Block)
  BY <1>5, <1>7 DEF SameData
<1> QED
  BY <1>1, <1>2, <1>7, <1>9, <1>10 DEF x, new

LEMMA PassUninitOf ==
  ASSUME Control, Counted, NEW p \in Pass, PassUninit(p)
  PROVE  LET gone == Given(p) \ Children(attached \ {p})
         IN  /\ regs[p] \in Registers
             /\ d' \in Fitting /\ d'.changed = d.changed \ gone
             /\ \A r \in Resource : /\ d'.refs[r] = d.refs[r] - UsesIn(regs[p], r)
                                    /\ d'.refs[r] > 0 => d.refs[r] > 0 /\ d'.gpu[r] = d.gpu[r]
                                    /\ r \notin gone => d'.uploaded[r] = d.uploaded[r]
<1> DEFINE gone == Given(p) \ Children(attached \ {p})
           e == UnrefAll(d, regs[p])
<1>1. regs[p] \in Registers /\ d \in Fitting
  BY UsedIsGiven DEF Counted
<1>2. d' = UninitNodes(e, gone \intersect Node)
  BY DEF PassUninit
<1>3. /\ e \in Fitting /\ SameData(d, e) /\ e.uploaded = d.uploaded
      /\ \A r \in Resource : Unreferenced(d, e, r, UsesIn(regs[p], r))
  BY <1>1, UnrefAllOf
<1> HIDE DEF e, gone
<1>4. /\ d' \in Fitting /\ d'.refs = e.refs /\ d'.gpu = e.gpu /\ d'.changed = e.changed \ (gone \intersect Node)
      /\ \A r \in Resource \ (gone \intersect Node) : d'.uploaded[r] = e.uploaded[r]
  BY <1>2, <1>3, UninitNodesOf
<1>5. \A r : UsesIn(regs[p], r) \in Nat
  BY <1>1, UsesInOrder
<1>6. d.changed \subseteq Block /\ d.refs \in [Resource -> Int] /\ Block \subseteq Node
  BY <1>1 DEF Fitting, Store, Node
<1>7. \A r \in Resource : /\ d'.refs[r] = d.refs[r] - UsesIn(regs[p], r)
                          /\ d'.refs[r] > 0 => d.refs[r] > 0 /\ d'.gpu[r] = d.gpu[r]
                          /\ r \notin gone => d'.uploaded[r] = d.uploaded[r]
  BY <1>3, <1>4, <1>5, <1>6 DEF Unreferenced
<1>8. d'.changed = d.changed \ gone
  BY <1>3, <1>4, <1>6 DEF SameData
<1> QED
  BY <1>1, <1>4, <1>7, <1>8 DEF gone

LEMMA UpdatePassOf ==
  ASSUME Control, Counted, NEW p \in Pass, NEW bad, UpdatePass(p, bad)
  PROVE  /\ Kept(d, d')
         /\ ~ d'.failed => \A b \in StaticBlock \intersect ToSet(regs[p].blocks) : b \notin d'.changed
<1> DEFINE x == regs[p]
<1>1. x.uniforms \in Seq(DataNode) /\ x.attributes \in Seq(Backed(d)) /\ x.blocks \in Seq(Backed(d))
  BY RegisteredIsBacked
<1>2. d' = PassUpdated(d, x, t, bad) /\ t \in Nat /\ d \in Fitting /\ Fresh(d)
  BY DEF UpdatePass, Control, Visits, Counted
<1> HIDE DEF x
<1>3. /\ Kept(d, PassUpdated(d, x, t, bad))
      /\ ~ PassUpdated(d, x, t, bad).failed =>
           \A b \in StaticBlock \intersect ToSet(x.blocks) : b \notin PassUpdated(d, x, t, bad).changed
  BY <1>1, <1>2, PassUpdatedOf
<1> QED
  BY <1>2, <1>3 DEF x

LEMMA ExecPassOf ==
  ASSUME Counted, NEW p \in Pass, ExecPass(p)
  PROVE  /\ d' \in Fitting /\ SameData(d, d') /\ d'.refs = d.refs /\ d'.uploaded = d.uploaded
         /\ \A r \in Resource : /\ DOMAIN d'.gpu[r] = DOMAIN d.gpu[r]
                                /\ \A i \in DOMAIN d.gpu[r] :
                                     d'.gpu[r][i] = IF <<r, i>> \in Stores(p) THEN Computed ELSE d.gpu[r][i]
<1> DEFINE S == Stores(p)
<1>1. d \in Fitting /\ d' = AfterStores(d, S)
  BY DEF Counted, ExecPass, AfterStores
<1> HIDE DEF S
<1>2. /\ d' \in Fitting /\ SameData(d, d') /\ d'.refs = d.refs /\ d'.uploaded = d.uploaded
      /\ \A r \in Resource : /\ DOMAIN d'.gpu[r] = DOMAIN d.gpu[r]
                             /\ \A i \in DOMAIN d.gpu[r] :
                                  d'.gpu[r][i] = IF <<r, i>> \in S THEN Computed ELSE d.gpu[r][i]
  BY <1>1, StoresOf
<1> QED
  BY <1>2 DEF S

LEMMA NextCounted ==
  ASSUME Control, Counted, [Next]_vars
  PROVE  Counted'
<1> USE DEF dataVars, sceneVars, frameVars, passVars, programVars
<1>1. /\ d \in Fitting /\ Fresh(d) /\ param \in [Uniform \union Static -> Int]
      /\ \A r \in Resource : d.refs[r] = TotalUses(r, regs)
  BY DEF Counted
<1>2. ASSUME UNCHANGED <<d, param, regs>>
      PROVE  Counted'
  <2>1. \A r \in Resource : TotalUses(r, regs') = TotalUses(r, regs)
    BY <1>2
  <2>2. Fresh(d')
    BY <1>1, <1>2
  <2> QED
    BY <1>1, <1>2, <2>1, <2>2 DEF Counted
<1>3. ASSUME d' \in Fitting, d'.refs = d.refs, Fresh(d'), UNCHANGED <<param, regs>>
      PROVE  Counted'
  <2>1. \A r \in Resource : TotalUses(r, regs') = TotalUses(r, regs)
    BY <1>3
  <2> QED
    BY <1>1, <1>3, <2>1 DEF Counted
<1>4. ASSUME NEW e \in Fitting, SameBuffers(d, e), e.changed = d.changed
      PROVE  Fresh(e) /\ e.refs = d.refs
  BY <1>1, <1>4 DEF Fresh, SameBuffers
<1>5. ASSUME NEW p \in Pass, NEW stage \in Stage \union {"none"}, PassInit(p, stage)
      PROVE  Counted'
  <2> DEFINE x == RegisteredBefore(p, stage)
             new == Given(p) \ Children(attached)
  <2>1. /\ x \in Registers /\ regs[p] = Nothing
        /\ d' \in Fitting /\ d'.changed = d.changed \union (new \intersect Block)
        /\ \A r \in Resource : /\ d'.refs[r] = d.refs[r] + UsesIn(x, r)
                               /\ d.refs[r] > 0 => d'.gpu[r] = d.gpu[r] /\ d'.uploaded[r] = d.uploaded[r]
                               /\ d.refs[r] = 0 /\ d'.refs[r] > 0 => d'.uploaded[r] = Never
    BY <1>5, PassInitOf
  <2>2. regs' = [regs EXCEPT ![p] = x] /\ param' = param
    BY <1>5 DEF PassInit
  <2> HIDE DEF x
  <2>3. ASSUME NEW r \in Resource
        PROVE  TotalUses(r, regs') = TotalUses(r, regs) + (UsesIn(x, r) - 0)
    <3>1. regs \in [Pass -> Registers] /\ Nothing \in Registers /\ UsesIn(Nothing, r) = 0
      BY UsedIsGiven, NothingIsUsed
    <3>2. TotalUses(r, [regs EXCEPT ![p] = x]) = TotalUses(r, regs) + (UsesIn(x, r) - UsesIn(regs[p], r))
      BY <2>1, <3>1, TotalChanges, ZenonT(60)
    <3> QED
      BY <2>1, <2>2, <3>1, <3>2
  <2>4. \A r \in Resource : UsesIn(x, r) \in Nat /\ TotalUses(r, regs) \in Nat
    BY <2>1, UsesInOrder, UsedIsGiven, TotalBounds
  <2>5. \A r \in Resource : d'.refs[r] = TotalUses(r, regs')
    BY <1>1, <2>1, <2>3, <2>4
  <2>6. Fresh(d')
    <3>1. ASSUME NEW b \in StaticBlock, b \in d'.changed, d'.refs[b] > 0
          PROVE  d'.uploaded[b] = Never
      <4>1. b \in Resource
        BY DEF StaticBlock, Resource
      <4>2. CASE d.refs[b] > 0
        <5>1. b \notin new
          BY <4>1, <4>2, ReferencedIsGiven
        <5>2. b \in d.changed
          BY <2>1, <3>1, <5>1
        <5> QED
          BY <1>1, <2>1, <4>1, <4>2, <5>2 DEF Fresh
      <4>3. CASE d.refs[b] = 0
        BY <2>1, <3>1, <4>1, <4>3
      <4> QED
        BY <1>1, <2>4, <4>1, <4>2, <4>3
    <3> QED
      BY <3>1 DEF Fresh
  <2> QED
    BY <1>1, <2>1, <2>2, <2>5, <2>6 DEF Counted
<1>6. ASSUME NEW p \in Pass, PassUninit(p)
      PROVE  Counted'
  <2> DEFINE gone == Given(p) \ Children(attached \ {p})
  <2>1. /\ regs[p] \in Registers
        /\ d' \in Fitting /\ d'.changed = d.changed \ gone
        /\ \A r \in Resource : /\ d'.refs[r] = d.refs[r] - UsesIn(regs[p], r)
                               /\ d'.refs[r] > 0 => d.refs[r] > 0 /\ d'.gpu[r] = d.gpu[r]
                               /\ r \notin gone => d'.uploaded[r] = d.uploaded[r]
    BY <1>6, PassUninitOf
  <2>2. regs' = [regs EXCEPT ![p] = Nothing] /\ param' = param
    BY <1>6 DEF PassUninit
  <2>3. ASSUME NEW r \in Resource
        PROVE  TotalUses(r, regs') = TotalUses(r, regs) + (0 - UsesIn(regs[p], r))
    <3>1. regs \in [Pass -> Registers] /\ Nothing \in Registers /\ UsesIn(Nothing, r) = 0
      BY UsedIsGiven, NothingIsUsed
    <3>2. TotalUses(r, [regs EXCEPT ![p] = Nothing]) = TotalUses(r, regs) + (UsesIn(Nothing, r) - UsesIn(regs[p], r))
      BY <2>1, <3>1, TotalChanges, ZenonT(60)
    <3> QED
      BY <2>1, <2>2, <3>1, <3>2
  <2>4. \A r \in Resource : UsesIn(regs[p], r) \in Nat /\ TotalUses(r, regs) \in Nat
    BY <2>1, UsesInOrder, UsedIsGiven, TotalBounds
  <2>5. \A r \in Resource : d'.refs[r] = TotalUses(r, regs')
    BY <1>1, <2>1, <2>3, <2>4
  <2>6. Fresh(d')
    <3>1. \A b \in StaticBlock : b \in Resource
      BY DEF StaticBlock, Resource
    <3> QED
      BY <1>1, <2>1, <3>1 DEF Fresh
  <2> QED
    BY <1>1, <2>1, <2>2, <2>5, <2>6 DEF Counted
<1>7. ASSUME NEW time, NEW A, Draw(time, A)
      PROVE  Counted'
  <2>1. d' = ReleaseNodes([d EXCEPT !.failed = FALSE], Node \ Children(A)) /\ UNCHANGED <<param, regs>>
    BY <1>7 DEF Draw
  <2>2. d' \in Fitting /\ SameBuffers(d, d') /\ d'.changed = d.changed
    BY <1>1, <2>1, ReleaseNodesOf
  <2> QED
    BY <1>3, <1>4, <2>1, <2>2
<1>8. ASSUME NEW p \in Pass, NEW bad, UpdatePass(p, bad)
      PROVE  Counted'
  <2>1. Kept(d, d') /\ UNCHANGED <<param, regs>>
    BY <1>8, UpdatePassOf DEF UpdatePass
  <2>2. Fresh(d') /\ d' \in Fitting /\ d'.refs = d.refs
    BY <1>1, <2>1, FreshIsKept DEF Kept
  <2> QED
    BY <1>3, <2>1, <2>2
<1>9. ASSUME NEW p \in Pass, ExecPass(p)
      PROVE  Counted'
  <2>1. d' \in Fitting /\ SameData(d, d') /\ d'.refs = d.refs /\ d'.uploaded = d.uploaded
    BY <1>9, ExecPassOf
  <2>2. Fresh(d') /\ UNCHANGED <<param, regs>>
    BY <1>1, <1>9, <2>1 DEF Fresh, SameData, ExecPass
  <2> QED
    BY <1>3, <2>1, <2>2
<1>10. ASSUME NEW n \in Uniform, LiveChange(n)
       PROVE  Counted'
  <2>1. /\ param' = [param EXCEPT ![n] = @ + 1] /\ regs' = regs
        /\ d' = IF n \in Children(attached) THEN SetLive(d, n, param[n] + 1) ELSE d
    BY <1>10 DEF LiveChange
  <2>2. param' \in [Uniform \union Static -> Int] /\ param[n] + 1 \in Int
    BY <1>1, <2>1
  <2>3. SetLive(d, n, param[n] + 1) \in Fitting /\ SameBuffers(d, SetLive(d, n, param[n] + 1))
        /\ SetLive(d, n, param[n] + 1).changed = d.changed
    BY <1>1, <2>2, SetLiveOf
  <2>4. d' \in Fitting /\ SameBuffers(d, d') /\ d'.changed = d.changed
    BY <1>1, <2>1, <2>3 DEF SameBuffers
  <2>5. \A r \in Resource : TotalUses(r, regs') = TotalUses(r, regs)
    BY <2>1
  <2> QED
    BY <1>1, <1>4, <2>2, <2>4, <2>5 DEF Counted
<1>11. CASE \/ DetachScene \/ Reconfigure \/ AttachDone \/ UndoDone \/ UpdateDone \/ DrawDone \/ UNCHANGED vars
            \/ \E S \in Scenes : SetScene(S)
            \/ \E p \in Pass : SkipPass(p)
  <2>1. UNCHANGED <<d, param, regs>>
    BY <1>11 DEF DetachScene, Reconfigure, AttachDone, UndoDone, UpdateDone, DrawDone, vars, SetScene, SkipPass
  <2> QED
    BY <1>2, <2>1
<1> QED
  BY <1>5, <1>6, <1>7, <1>8, <1>9, <1>10, <1>11 DEF Next

(* A buffer exists exactly while a pass has it registered.                 *)
THEOREM BuffersAreCounted == Spec => []BuffersCounted
<1>1. Init => Control /\ Counted
  BY InitControl, InitCounted
<1>2. Control /\ Counted /\ [Next]_vars => (Control /\ Counted)'
  BY NextControl, NextCounted
<1>3. Control /\ Counted => BuffersCounted
  <2> SUFFICES ASSUME Control, Counted, NEW r \in Resource
               PROVE  /\ d.refs[r] = FoldFunction(+, 0, [p \in Pass |-> UsesOf(p, r)])
                      /\ d.gpu[r] # NoBuffer <=> d.refs[r] > 0
    BY DEF BuffersCounted
  <2>1. d.gpu[r] # NoBuffer <=> d.refs[r] > 0
    BY DEF Counted, Fitting, BuffersFit, NoBuffer
  <2>2. [p \in Pass |-> UsesOf(p, r)] = UsesOfAll(r, regs)
    BY DEF UsesOfAll, UsesOf, UsesIn
  <2>3. d.refs[r] = FoldFunction(+, 0, UsesOfAll(r, regs))
    BY DEF Counted, TotalUses
  <2> QED
    BY <2>1, <2>2, <2>3
<1> QED
  BY <1>1, <1>2, <1>3, PTL DEF Spec

(***************************************************************************)
(* What compute passes store                                               *)
(***************************************************************************)
Writable == UNION {Writes[p] : p \in Compute}

LEMMA WritableOf ==
  /\ \A f \in Writable : f[1] \in Block /\ f[1] \in Resource /\ f = <<f[1], f[2]>> /\ f[2] \in DOMAIN Fields[f[1]]
  /\ \A p \in Pass : /\ Stores(p) \subseteq Writable
                     /\ \A f \in Stores(p) : f[1] \in ToSet(Blocks(p)) /\ f[1] \in Given(p)
<1>1. /\ Compute \subseteq Pass /\ Writes \in [Compute -> SUBSET (Block \X Nat)]
      /\ \A p \in Compute : \A f \in Writes[p] :
           f[1] \in ToSet(Param[p].blocks) \intersect Shader[p].names /\ f[2] \in DOMAIN Fields[f[1]]
  BY PassesAssumption
<1>2. ASSUME NEW p \in Compute, NEW f \in Writes[p]
      PROVE  /\ f[1] \in Block /\ f[1] \in Resource /\ f = <<f[1], f[2]>> /\ f[2] \in DOMAIN Fields[f[1]]
             /\ f[1] \in ToSet(Blocks(p)) /\ f[1] \in Given(p)
  <2>1. p \in Pass /\ f \in Block \X Nat
    BY <1>1
  <2>2. f[1] \in ToSet(Blocks(p)) /\ f[1] \in Given(p)
    BY <1>1, <2>1, DeclaredOf, GivenOf
  <2> QED
    BY <1>1, <2>1, <2>2 DEF Resource
<1>3. \A f \in Writable : \E p \in Compute : f \in Writes[p]
  BY DEF Writable
<1>4. ASSUME NEW p \in Pass
      PROVE  Stores(p) \subseteq Writable /\ \A f \in Stores(p) : p \in Compute /\ f \in Writes[p]
  BY DEF Stores, Writable
<1> QED
  BY <1>2, <1>3, <1>4

(* The blocks without dynamic fields that a pass has updated wait for no   *)
(* upload; what is stored belongs to a child of the scene, and is in the   *)
(* buffer of such a block as long as the buffer is.                        *)
StoredIn(f) ==
  /\ f[1] \in Children(attached)
  /\ f[1] \in StaticBlock /\ d.refs[f[1]] > 0 => f[1] \notin d.changed /\ d.gpu[f[1]][f[2]] = written[f]

Uploaded(p) == p \in ready /\ \A b \in StaticBlock \intersect ToSet(regs[p].blocks) : b \notin d.changed

Unspoilt ==
  /\ DOMAIN updated = Pass /\ DOMAIN written = Writable
  /\ \A p \in Pass : updated[p] # Never => Uploaded(p)
  /\ \A f \in Writable : written[f] # 0 => StoredIn(f)
  /\ phase = "attach" => (\A p \in Pass : updated[p] = Never) /\ (\A f \in Writable : written[f] = 0)
  /\ phase = "update" => \A p \in (ToSet(scene) \intersect active) \ ToSet(todo) : updated[p] = t
  /\ phase = "draw" => \A p \in ToSet(scene) \intersect active : updated[p] = t

LEMMA InitUnspoilt == Init => Unspoilt
BY DEF Init, Unspoilt, Writable

LEMMA NextUnspoilt ==
  ASSUME Control, Counted, Unspoilt, [Next]_vars
  PROVE  Unspoilt'
<1> USE DEF dataVars, sceneVars, frameVars, passVars, programVars
<1>1. /\ DOMAIN updated = Pass /\ DOMAIN written = Writable
      /\ \A p \in Pass : updated[p] # Never => Uploaded(p)
      /\ \A f \in Writable : written[f] # 0 => StoredIn(f)
  BY DEF Unspoilt
<1>2. /\ attached \in SUBSET Pass /\ ready \in SUBSET attached /\ regs \in [Pass -> Registers]
      /\ \A p \in ready : regs[p] = RegisteredBefore(p, "none")
      /\ t \in Nat /\ t # Never
  BY DEF Control, Registrations, Visits, Never
<1>3. ASSUME todo # <<>>
      PROVE  /\ Head(todo) \in Pass /\ Head(todo) \in ToSet(todo) /\ ToSet(Tail(todo)) = ToSet(todo) \ {Head(todo)}
  BY <1>3, HeadOf DEF Control, Lists
<1>4. ASSUME d'.changed = d.changed, d'.refs = d.refs, d'.gpu = d.gpu, UNCHANGED <<updated, regs, attached, ready, written>>
      PROVE  /\ DOMAIN updated' = Pass /\ DOMAIN written' = Writable
             /\ \A p \in Pass : updated'[p] # Never => Uploaded(p)'
             /\ \A f \in Writable : written'[f] # 0 => StoredIn(f)'
  <2>1. \A p \in Pass : Uploaded(p) => Uploaded(p)'
    BY <1>4 DEF Uploaded
  <2>2. \A f \in Writable : StoredIn(f) => StoredIn(f)'
    BY <1>4 DEF StoredIn
  <2> QED
    BY <1>1, <1>4, <2>1, <2>2
<1>5. CASE DetachScene
  BY <1>4, <1>5 DEF DetachScene, Unspoilt
<1>6. CASE Reconfigure \/ \E S \in Scenes : SetScene(S)
  <2>1. phase = "detach" /\ todo = <<>> /\ phase' = "attach"
    BY <1>6 DEF Reconfigure, SetScene
  <2>2. attached = {}
    BY <2>1, NoPass DEF Control, Visits
  <2>3. \A p \in Pass : updated[p] = Never
    BY <1>1, <1>2, <2>2 DEF Uploaded
  <2>4. \A f \in Writable : written[f] = 0
    BY <1>1, <2>2 DEF StoredIn, Children
  <2>5. UNCHANGED <<d, updated, regs, attached, ready, written>>
    BY <1>6 DEF Reconfigure, SetScene
  <2> QED
    BY <1>4, <2>1, <2>3, <2>4, <2>5 DEF Unspoilt
<1>7. ASSUME NEW p \in Pass, NEW stage \in Stage \union {"none"}, PassInit(p, stage)
      PROVE  Unspoilt'
  <2>1. phase = "attach" /\ phase' \in {"attach", "undo"} /\ UNCHANGED <<updated, written>>
    BY <1>7 DEF PassInit
  <2>2. (\A q \in Pass : updated[q] = Never) /\ (\A f \in Writable : written[f] = 0)
    BY <2>1 DEF Unspoilt
  <2> QED
    BY <1>1, <2>1, <2>2 DEF Unspoilt
<1>8. CASE AttachDone
  BY <1>4, <1>8 DEF AttachDone, Unspoilt
<1>9. ASSUME NEW p \in Pass, PassUninit(p)
      PROVE  Unspoilt'
  <2> DEFINE gone == Given(p) \ Children(attached \ {p})
  <2>1. /\ phase \in {"detach", "undo"} /\ phase' = phase
        /\ attached' = attached \ {p} /\ ready' = ready \ {p} /\ regs' = [regs EXCEPT ![p] = Nothing]
        /\ updated' = [updated EXCEPT ![p] = Never]
        /\ written' = [f \in DOMAIN written |-> IF f[1] \in gone THEN 0 ELSE written[f]]
    BY <1>9 DEF PassUninit
  <2>2. /\ d'.changed = d.changed \ gone
        /\ \A r \in Resource : d'.refs[r] > 0 => d.refs[r] > 0 /\ d'.gpu[r] = d.gpu[r]
    BY <1>9, PassUninitOf
  <2>3. Children(attached) \ gone \subseteq Children(attached \ {p})
    BY DEF Children
  <2> HIDE DEF gone
  <2>4. \A q \in Pass : updated'[q] # Never => Uploaded(q)'
    <3>1. ASSUME NEW q \in Pass, updated'[q] # Never
          PROVE  Uploaded(q)'
      <4>1. q # p /\ updated[q] # Never
        BY <1>1, <2>1, <3>1
      <4>2. regs'[q] = regs[q] /\ Uploaded(q)
        BY <1>1, <1>2, <2>1, <4>1
      <4> QED
        BY <2>1, <2>2, <4>1, <4>2 DEF Uploaded
    <3> QED
      BY <3>1
  <2>5. \A f \in Writable : written'[f] # 0 => StoredIn(f)'
    <3>1. ASSUME NEW f \in Writable, written'[f] # 0
          PROVE  StoredIn(f)'
      <4>1. f[1] \notin gone /\ written'[f] = written[f] /\ written[f] # 0
        BY <1>1, <2>1, <3>1
      <4>2. f[1] \in Resource
        BY WritableOf
      <4>3. StoredIn(f)
        BY <1>1, <4>1
      <4>4. f[1] \in Children(attached')
        BY <2>1, <2>3, <4>1, <4>3 DEF StoredIn
      <4> QED
        BY <2>2, <4>1, <4>2, <4>3, <4>4 DEF StoredIn
    <3> QED
      BY <3>1
  <2>6. DOMAIN updated' = Pass /\ DOMAIN written' = Writable
    BY <1>1, <2>1
  <2> QED
    BY <2>1, <2>4, <2>5, <2>6 DEF Unspoilt
<1>10. CASE UndoDone
  BY <1>4, <1>10 DEF UndoDone, Unspoilt
<1>11. ASSUME NEW time \in Time, NEW A \in Actives, Draw(time, A \intersect ToSet(scene))
       PROVE  Unspoilt'
  <2> DEFINE B == A \intersect ToSet(scene)
  <2> HIDE DEF B
  <2>1. /\ phase' = "update" /\ active' = B /\ todo' = Only(scene, B)
        /\ updated' = [p \in Pass |-> IF p \in B THEN updated[p] ELSE Never]
        /\ d' = ReleaseNodes([d EXCEPT !.failed = FALSE], Node \ Children(B))
        /\ UNCHANGED <<written, scene, regs, attached, ready>>
    BY <1>11 DEF Draw, B
  <2>2. d'.refs = d.refs /\ d'.gpu = d.gpu /\ d'.changed = d.changed
    BY <2>1, ReleaseNodesOf DEF Counted, SameBuffers
  <2>3. ToSet(todo') = ToSet(scene) \intersect B
    BY <2>1, OnlyOf DEF Control, Lists
  <2>4. \A p \in Pass : updated'[p] # Never => Uploaded(p)'
    <3>1. \A p \in Pass : Uploaded(p) => Uploaded(p)'
      BY <2>1, <2>2 DEF Uploaded
    <3> QED
      BY <1>1, <2>1, <3>1
  <2>5. \A f \in Writable : written'[f] # 0 => StoredIn(f)'
    <3>1. \A f \in Writable : StoredIn(f) => StoredIn(f)'
      BY <2>1, <2>2 DEF StoredIn
    <3> QED
      BY <1>1, <2>1, <3>1
  <2> QED
    BY <1>1, <2>1, <2>3, <2>4, <2>5 DEF Unspoilt
<1>12. ASSUME NEW p \in Pass, NEW bad, UpdatePass(p, bad)
       PROVE  Unspoilt'
  <2>1. /\ phase = "update" /\ todo # <<>> /\ p = Head(todo)
        /\ UNCHANGED <<written, scene, regs, attached, ready>>
        /\ IF d'.failed THEN phase' = "idle" /\ updated' = updated
           ELSE /\ todo' = Tail(todo) /\ updated' = [updated EXCEPT ![p] = t]
                /\ UNCHANGED <<phase, t, active>>
    BY <1>12 DEF UpdatePass
  <2>2. /\ Kept(d, d')
        /\ ~ d'.failed => \A b \in StaticBlock \intersect ToSet(regs[p].blocks) : b \notin d'.changed
    BY <1>12, UpdatePassOf
  <2>3. p \in ready
    BY <1>3, <2>1 DEF Control, Visits
  <2>4. \A q \in Pass : Uploaded(q) => Uploaded(q)'
    BY <2>1, <2>2 DEF Uploaded, Kept
  <2>5. \A f \in Writable : StoredIn(f) => StoredIn(f)'
    BY <2>1, <2>2 DEF StoredIn, Kept
  <2>6. \A f \in Writable : written'[f] # 0 => StoredIn(f)'
    BY <1>1, <2>1, <2>5
  <2>7. CASE d'.failed
    BY <1>1, <2>1, <2>4, <2>6, <2>7 DEF Unspoilt
  <2>8. CASE ~ d'.failed
    <3>1. Uploaded(p)'
      BY <2>1, <2>2, <2>3, <2>8 DEF Uploaded
    <3>2. \A q \in Pass : updated'[q] # Never => Uploaded(q)'
      BY <1>1, <2>1, <2>4, <2>8, <3>1
    <3>3. \A q \in (ToSet(scene) \intersect active) \ ToSet(Tail(todo)) : updated'[q] = t
      <4>1. \A q \in (ToSet(scene) \intersect active) \ ToSet(todo) : updated[q] = t
        BY <2>1 DEF Unspoilt
      <4>2. ToSet(scene) \subseteq Pass
        BY NoPass DEF Control, Lists
      <4> QED
        BY <1>1, <1>3, <2>1, <2>8, <4>1, <4>2
    <3> QED
      BY <1>1, <2>1, <2>6, <2>8, <3>2, <3>3 DEF Unspoilt
  <2> QED
    BY <2>7, <2>8
<1>13. ASSUME NEW p \in Pass, SkipPass(p)
       PROVE  Unspoilt'
  <2>1. /\ phase = "update" /\ todo # <<>> /\ p = Head(todo) /\ updated[p] = t /\ todo' = Tail(todo)
        /\ UNCHANGED <<d, scene, t, active, updated, regs, attached, ready, written, phase>>
    BY <1>13 DEF SkipPass
  <2>2. \A q \in (ToSet(scene) \intersect active) \ ToSet(Tail(todo)) : updated[q] = t
    BY <1>3, <2>1 DEF Unspoilt
  <2> QED
    BY <1>4, <2>1, <2>2 DEF Unspoilt
<1>14. CASE UpdateDone
  <2>1. /\ phase = "update" /\ todo = <<>> /\ phase' = "draw"
        /\ UNCHANGED <<d, scene, t, active, updated, regs, attached, ready, written>>
    BY <1>14 DEF UpdateDone
  <2>2. \A p \in ToSet(scene) \intersect active : updated[p] = t
    BY <2>1, NoPass DEF Unspoilt
  <2> QED
    BY <1>4, <2>1, <2>2 DEF Unspoilt
<1>15. ASSUME NEW p \in Pass, ExecPass(p)
       PROVE  Unspoilt'
  <2>1. /\ phase = "draw" /\ todo # <<>> /\ p = Head(todo)
        /\ written' = [f \in DOMAIN written |-> IF f \in Stores(p) THEN Computed ELSE written[f]]
        /\ UNCHANGED <<scene, t, active, updated, regs, attached, ready, phase>>
    BY <1>15 DEF ExecPass
  <2>2. /\ d'.changed = d.changed /\ d'.refs = d.refs
        /\ \A r \in Resource : \A i \in DOMAIN d.gpu[r] :
             d'.gpu[r][i] = IF <<r, i>> \in Stores(p) THEN Computed ELSE d.gpu[r][i]
    BY <1>15, ExecPassOf DEF SameData
  <2>3. p \in ready /\ p \in attached /\ updated[p] = t
    BY <1>2, <1>3, <2>1 DEF Control, Visits, Unspoilt
  <2>4. Uploaded(p) /\ regs[p].blocks = Blocks(p)
    BY <1>1, <1>2, <2>3, RegisteredOf DEF Stages
  <2>5. ASSUME NEW f \in Writable, written'[f] # 0
        PROVE  StoredIn(f)'
    <3>1. f[1] \in Resource /\ f[1] \in Block /\ f = <<f[1], f[2]>> /\ f[2] \in DOMAIN Fields[f[1]]
      BY WritableOf
    <3>2. d.refs[f[1]] > 0 => f[2] \in DOMAIN d.gpu[f[1]]
      BY <3>1 DEF Counted, Fitting, BuffersFit
    <3>3. CASE f \in Stores(p)
      <4>1. f[1] \in ToSet(regs[p].blocks) /\ f[1] \in Children(attached)
        BY <2>3, <2>4, <3>3, WritableOf DEF Children
      <4>2. f[1] \in StaticBlock => f[1] \notin d.changed
        BY <2>4, <4>1 DEF Uploaded
      <4>3. written'[f] = Computed
        BY <1>1, <2>1, <3>3
      <4>4. d.refs[f[1]] > 0 => d'.gpu[f[1]][f[2]] = Computed
        BY <2>2, <3>1, <3>2, <3>3
      <4> QED
        BY <2>1, <2>2, <4>1, <4>2, <4>3, <4>4 DEF StoredIn
    <3>4. CASE f \notin Stores(p)
      <4>1. written'[f] = written[f] /\ StoredIn(f)
        BY <1>1, <2>1, <2>5, <3>4
      <4>2. d.refs[f[1]] > 0 => d'.gpu[f[1]][f[2]] = d.gpu[f[1]][f[2]]
        BY <2>2, <3>1, <3>2, <3>4
      <4> QED
        BY <2>1, <2>2, <4>1, <4>2 DEF StoredIn
    <3> QED
      BY <3>3, <3>4
  <2>6. \A q \in Pass : updated'[q] # Never => Uploaded(q)'
    BY <1>1, <2>1, <2>2 DEF Uploaded
  <2> QED
    BY <1>1, <2>1, <2>5, <2>6 DEF Unspoilt
<1>16. CASE DrawDone
  BY <1>4, <1>16 DEF DrawDone, Unspoilt
<1>17. ASSUME NEW n \in Uniform, LiveChange(n)
       PROVE  Unspoilt'
  <2>1. /\ phase = "idle" /\ d' = IF n \in Children(attached) THEN SetLive(d, n, param[n] + 1) ELSE d
        /\ UNCHANGED <<written, updated, regs, attached, ready, phase>>
    BY <1>17 DEF LiveChange
  <2>2. d \in Fitting /\ param[n] + 1 \in Int
    BY DEF Counted
  <2>3. d'.changed = d.changed /\ d'.refs = d.refs /\ d'.gpu = d.gpu
    BY <2>1, <2>2, SetLiveOf DEF SameBuffers
  <2> QED
    BY <1>4, <2>1, <2>3 DEF Unspoilt
<1>18. CASE UNCHANGED vars
  BY <1>4, <1>18 DEF vars, Unspoilt
<1> QED
  BY <1>5, <1>6, <1>7, <1>8, <1>9, <1>10, <1>11, <1>12, <1>13, <1>14, <1>15, <1>16, <1>17, <1>18 DEF Next

(* What a compute pass stores in a block without dynamic fields stays.     *)
THEOREM StoresAreKept == Spec => []StoresKept
<1>1. Init => Control /\ Counted /\ Unspoilt
  BY InitControl, InitCounted, InitUnspoilt
<1>2. Control /\ Counted /\ Unspoilt /\ [Next]_vars => (Control /\ Counted /\ Unspoilt)'
  BY NextControl, NextCounted, NextUnspoilt
<1>3. Control /\ Counted /\ Unspoilt => StoresKept
  BY WritableOf DEF Unspoilt, StoredIn, StoresKept, StaticBlock
<1> QED
  BY <1>1, <1>2, <1>3, PTL DEF Spec

===============================================================================
