---------------------------- MODULE PipelineProofs ----------------------------
(***************************************************************************)
(* Theorems about the pipelines and the textures, for any passes, programs *)
(* and parameters, any frames of the media and any features of GL.         *)
(***************************************************************************)
EXTENDS Pipelines, SequenceTheorems, FiniteSetTheorems, TLAPS
INSTANCE DataTheorems WITH Vertex <- {}, CallFrame <- {}

(***************************************************************************)
(* What the state is made of                                               *)
(***************************************************************************)
Address   == Tex \X {0, 1, 2}
ImageUnit == UNION {Range(Declares[g].images) : g \in Prog}
BlockUnit == UNION {Range(Declares[g].blocks) : g \in Prog}
Variable(g) == DOMAIN Declares[g].uniforms \union Declares[g].samplers

Content == {NoContent} \union UNION {[S -> Nat] : S \in SUBSET (Nat \X Nat)}
AnyParams == [dimensions : {0, 2, 3}, width : Nat, height : Nat, depth : Nat, bytes_per_pixel : Nat,
              cubemap : BOOLEAN, external : BOOLEAN]
Structure == [target : Target \union {"none"}, id : Nat, params : AnyParams, content : Content]

TextureState ==
  [mem : UNION {[S -> Structure] : S \in SUBSET Address}, names : SUBSET (Nat \ {0}),
   units : [Unit -> [Target -> Nat]], images : [ImageUnit -> Nat], active : Unit, row_length : BOOLEAN]

Size   == Nat \X Nat \X Nat
Images == [layout : {"none"}, planes : {<<>>}, size : Size] \union
          [layout : {"default"}, planes : {<<a>> : a \in Address}, size : Size] \union
          [layout : {"nv12"}, planes : {<<a, b>> : a \in Address, b \in Address}, size : Size]

Value == UniformNode \union Pipe \union Unit \union {0, Null, "none", "default", "nv12"} \union Size
Values == {v \in [Prog -> UNION {[Variable(g) -> Value] : g \in Prog}] :
             \A g \in Prog : v[g] \in [Variable(g) -> Value]}
Arrays == [Loc -> [enabled : BOOLEAN, buffer : Buffer \union {Null}, rate : Nat]]
Bindings ==
  [program : Prog \union {Null}, values : Values, buffers : [BlockUnit -> Buffer \union {Null}],
   vao : Pipe \union {NoVao}, arrays : [Pipe \union {NoVao} -> Arrays],
   elements : [Pipe \union {NoVao} -> Buffer \union {Null}]]

Pair(p) == [name : Declares[ProgramOf[p]].samplers, texture : Address \union {NoTexture}]

LEMMA ProgramFacts ==
  ASSUME NEW p \in Pipe
  PROVE  /\ ProgramOf[p] \in Prog /\ GivenType(p) /\ DeclaredType(ProgramOf[p])
         /\ (p \in Compute => Attributes(p) = {})
         /\ Null # ProgramOf[p] /\ p # NoVao
  BY PipelinesAssumption DEF Attributes

LEMMA ValuesFacts ==
  ASSUME NEW v \in Values, NEW g \in Prog
  PROVE  /\ v[g] \in [Variable(g) -> Value]
         /\ \A w \in [Variable(g) -> Value] :
              /\ [v EXCEPT ![g] = w] \in Values /\ [v EXCEPT ![g] = w][g] = w
<1>1. DOMAIN v = Prog /\ \A h \in Prog : v[h] \in [Variable(h) -> Value]
  BY DEF Values
<1>2. ASSUME NEW w \in [Variable(g) -> Value]
      PROVE  [v EXCEPT ![g] = w] \in Values /\ [v EXCEPT ![g] = w][g] = w
  <2> DEFINE u == [v EXCEPT ![g] = w]
  <2>1. /\ u = [h \in Prog |-> IF h = g THEN w ELSE v[h]]
        /\ \A h \in Prog : u[h] \in [Variable(h) -> Value]
    BY <1>1, <1>2
  <2>2. u \in [Prog -> UNION {[Variable(h) -> Value] : h \in Prog}]
    <3> HIDE DEF Variable, Value
    <3> QED
      BY <2>1
  <2> QED
    BY <2>1, <2>2 DEF Values
<1> QED
  BY <1>1, <1>2

(***************************************************************************)
(* The textures a pipeline binds                                           *)
(***************************************************************************)
(* What SetTextures goes through: it changes the units, the image units    *)
(* and the values of the samplers.                                         *)
Texturing(tx) ==
  [mem : {tx.mem}, names : {tx.names}, units : [Unit -> [Target -> Nat]], images : [ImageUnit -> Nat],
   active : Unit, row_length : {tx.row_length}]
Going(p, tx) ==
  [t : Texturing(tx),
   values : [Variable(ProgramOf[p]) -> Value], used : SUBSET Unit, full : BOOLEAN]

LEMMA FreeUnit ==
  ASSUME NEW used, FreeUnits(used) # {}
  PROVE  NextUnit(used) \in Unit /\ NextUnit(used) \notin used
<1>1. FreeUnits(used) \in SUBSET Nat
  BY TexturesAssumption DEF FreeUnits
<1>2. PICK u \in FreeUnits(used) : \A v \in FreeUnits(used) : u <= v
  BY <1>1, LeastExists
<1>3. NextUnit(used) \in FreeUnits(used)
  BY <1>2 DEF NextUnit, Min
<1> QED
  BY <1>3 DEF FreeUnits

(* What a sampler of the pass reads.                                       *)
What(pair, junk) == IF pair.texture = NoTexture THEN [target |-> "none", id |-> 0] ELSE Read(pair.texture, junk)

LEMMA WhatType ==
  ASSUME t \in TextureState, NEW p \in Pipe, NEW pair \in Pair(p), NEW junk \in Nat
  PROVE  What(pair, junk).id \in Nat /\ What(pair, junk).target \in Target \union {"none"}
<1>1. CASE pair.texture = NoTexture
  BY <1>1 DEF What
<1>2. CASE pair.texture # NoTexture /\ pair.texture \in DOMAIN t.mem
  <2>1. t.mem[pair.texture] \in Structure
    BY <1>2 DEF TextureState
  <2> QED
    BY <1>2, <2>1 DEF What, Read, Structure
<1>3. CASE pair.texture # NoTexture /\ pair.texture \notin DOMAIN t.mem
  BY <1>3 DEF What, Read, Target
<1> QED
  BY <1>1, <1>2, <1>3

(* Only one target of the active unit changes.                             *)
BoundOnly(tx, e, target, id, f) ==
  /\ f \in Texturing(tx) /\ f.images = e.images /\ f.active = e.active
  /\ \A u \in Unit \ {e.active} : f.units[u] = e.units[u]
  /\ target \in Target => f.units[e.active][target] = id
  /\ \A other \in Target \ {target} : f.units[e.active][other] = e.units[e.active][other]

LEMMA BoundType ==
  ASSUME NEW tx, NEW e \in Texturing(tx), NEW target \in Target \union {"none"}, NEW id \in Nat,
         NEW f, f = Bound(e, target, id)
  PROVE  BoundOnly(tx, e, target, id, f)
<1>1. e.units \in [Unit -> [Target -> Nat]] /\ e.active \in Unit
  BY DEF Texturing
<1>2. CASE target \notin Target
  <2>1. Bound(e, target, id) = e
    BY <1>2 DEF Bound
  <2> QED
    BY <1>2, <2>1 DEF BoundOnly
<1>3. CASE target \in Target
  <2> DEFINE units == [e.units EXCEPT ![e.active][target] = id]
  <2>1. Bound(e, target, id) = [e EXCEPT !.units = units]
    BY <1>3 DEF Bound
  <2>2. /\ units \in [Unit -> [Target -> Nat]]
        /\ \A u \in Unit \ {e.active} : units[u] = e.units[u]
        /\ units[e.active][target] = id
        /\ \A other \in Target \ {target} : units[e.active][other] = e.units[e.active][other]
    BY <1>1, <1>3
  <2> HIDE DEF units
  <2>3. [e EXCEPT !.units = units] \in Texturing(tx)
    BY <2>2 DEF Texturing
  <2>4. /\ [e EXCEPT !.units = units].units = units
        /\ [e EXCEPT !.units = units].active = e.active
        /\ [e EXCEPT !.units = units].images = e.images
    BY DEF Texturing
  <2> QED
    BY <2>1, <2>2, <2>3, <2>4, <1>3 DEF BoundOnly
<1> QED
  BY <1>2, <1>3

(* One sampler or image.                                                   *)
ImageSet(p, b, pair, junk, c) ==
  /\ c.values = b.values /\ c.used = b.used /\ c.full = b.full /\ c.t.units = b.t.units
  /\ c.t.images[Binding(p, pair.name)] = What(pair, junk).id
  /\ \A u \in ImageUnit \ {Binding(p, pair.name)} : c.t.images[u] = b.t.images[u]

SamplerSet(b, pair, junk, c) ==
  LET unit == c.values[pair.name]
      target == What(pair, junk).target
  IN  /\ unit \in Unit /\ unit \notin b.used /\ c.used = b.used \union {unit} /\ c.full = b.full
      /\ c.t.images = b.t.images
      /\ \A u \in Unit \ {unit} : c.t.units[u] = b.t.units[u]
      /\ target \in Target => c.t.units[unit][target] = What(pair, junk).id

LEMMA SetTextureFacts ==
  ASSUME t \in TextureState, NEW p \in Pipe, NEW b \in Going(p, t), NEW pair \in Pair(p), NEW junk \in Nat,
         NEW c, c = SetTexture(p, b, pair, junk)
  PROVE  /\ c \in Going(p, t)
         /\ \A n \in Variable(ProgramOf[p]) \ {pair.name} : c.values[n] = b.values[n]
         /\ b.full => c = b
         /\ ~b.full /\ IsImage(p, pair.name) => ImageSet(p, b, pair, junk, c)
         /\ ~b.full /\ ~IsImage(p, pair.name) /\ FreeUnits(b.used) # {} => SamplerSet(b, pair, junk, c)
<1> DEFINE s == What(pair, junk)
<1>1. s.id \in Nat /\ s.target \in Target \union {"none"}
  BY WhatType
<1>2. /\ b.t \in Texturing(t) /\ b.values \in [Variable(ProgramOf[p]) -> Value] /\ b.used \in SUBSET Unit
      /\ b.full \in BOOLEAN /\ pair.name \in Variable(ProgramOf[p])
  BY DEF Going, Pair, Variable
<1>3. CASE b.full
  <2>1. c = b
    BY <1>3 DEF SetTexture
  <2> QED
    BY <1>3, <2>1
<1>4. CASE ~b.full /\ IsImage(p, pair.name)
  <2> DEFINE images == [b.t.images EXCEPT ![Binding(p, pair.name)] = s.id]
  <2>1. c = [b EXCEPT !.t = [b.t EXCEPT !.images = images]]
    BY <1>4 DEF SetTexture, What, Going
  <2>2. Binding(p, pair.name) \in ImageUnit
    BY <1>4, ProgramFacts DEF IsImage, Binding, ImageUnit, Range
  <2>3. /\ images \in [ImageUnit -> Nat] /\ images[Binding(p, pair.name)] = s.id
        /\ \A u \in ImageUnit \ {Binding(p, pair.name)} : images[u] = b.t.images[u]
    BY <1>1, <1>2, <2>2 DEF Texturing
  <2> HIDE DEF images, s
  <2>4. [b.t EXCEPT !.images = images] \in Texturing(t)
    BY <1>2, <2>3 DEF Texturing
  <2>5. /\ [b.t EXCEPT !.images = images].images = images /\ [b.t EXCEPT !.images = images].units = b.t.units
    BY <1>2 DEF Texturing
  <2>6. /\ c \in Going(p, t) /\ c.t = [b.t EXCEPT !.images = images] /\ c.values = b.values
        /\ c.used = b.used /\ c.full = b.full
    BY <2>1, <2>4 DEF Going
  <2> QED
    BY <1>4, <2>3, <2>5, <2>6 DEF s, ImageSet
<1>5. CASE ~b.full /\ ~IsImage(p, pair.name) /\ FreeUnits(b.used) = {}
  <2>1. c = [b EXCEPT !.full = TRUE]
    BY <1>5 DEF SetTexture
  <2>2. c \in Going(p, t) /\ c.values = b.values
    BY <2>1 DEF Going
  <2> QED
    BY <1>5, <2>2
<1>6. CASE ~b.full /\ ~IsImage(p, pair.name) /\ FreeUnits(b.used) # {}
  <2> DEFINE unit == NextUnit(b.used)
             on   == [b.t EXCEPT !.active = unit]
             bare == Bound(Bound(Bound(on, "2d", 0), "3d", 0), "oes", 0)
             with == Bound(on, s.target, s.id)
             values == [b.values EXCEPT ![pair.name] = unit]
  <2>1. unit \in Unit /\ unit \notin b.used
    BY <1>6, FreeUnit
  <2>2. on \in Texturing(t) /\ on.active = unit /\ on.units = b.t.units /\ on.images = b.t.images
    BY <1>2, <2>1 DEF Texturing
  <2>3. /\ with \in Texturing(t) /\ with.images = b.t.images
        /\ \A u \in Unit \ {unit} : with.units[u] = b.t.units[u]
        /\ s.target \in Target => with.units[unit][s.target] = s.id
    <3> HIDE DEF on, s, unit, with
    <3>1. with = Bound(on, s.target, s.id)
      BY DEF with
    <3>2. BoundOnly(t, on, s.target, s.id, with)
      BY <1>1, <2>2, <3>1, BoundType
    <3> QED
      BY <2>2, <3>2 DEF BoundOnly
  <2>4. /\ bare \in Texturing(t) /\ bare.images = b.t.images
        /\ \A u \in Unit \ {unit} : bare.units[u] = b.t.units[u]
    <3> DEFINE one == Bound(on, "2d", 0)
               two == Bound(one, "3d", 0)
    <3>0. {"2d", "3d", "oes"} \subseteq Target /\ 0 \in Nat
      BY DEF Target
    <3> HIDE DEF on, unit
    <3>1. /\ one \in Texturing(t) /\ one.images = b.t.images /\ one.active = unit
          /\ \A u \in Unit \ {unit} : one.units[u] = b.t.units[u]
      <4>1. BoundOnly(t, on, "2d", 0, one)
        BY <2>2, <3>0, BoundType
      <4> QED
        BY <2>2, <4>1 DEF BoundOnly
    <3> HIDE DEF one
    <3>2. /\ two \in Texturing(t) /\ two.images = b.t.images /\ two.active = unit
          /\ \A u \in Unit \ {unit} : two.units[u] = b.t.units[u]
      <4>1. BoundOnly(t, one, "3d", 0, two)
        BY <3>0, <3>1, BoundType
      <4> QED
        BY <3>1, <4>1 DEF BoundOnly
    <3> HIDE DEF two
    <3>3. /\ Bound(two, "oes", 0) \in Texturing(t) /\ Bound(two, "oes", 0).images = b.t.images
          /\ \A u \in Unit \ {unit} : Bound(two, "oes", 0).units[u] = b.t.units[u]
      <4>1. BoundOnly(t, two, "oes", 0, Bound(two, "oes", 0))
        BY <3>0, <3>2, BoundType
      <4> QED
        BY <3>2, <4>1 DEF BoundOnly
    <3> QED
      BY <3>3 DEF one, two
  <2>5. /\ values \in [Variable(ProgramOf[p]) -> Value] /\ values[pair.name] = unit
        /\ \A n \in Variable(ProgramOf[p]) \ {pair.name} : values[n] = b.values[n]
    <3>1. unit \in Value
      BY <2>1 DEF Value
    <3> HIDE DEF unit
    <3> QED
      BY <1>2, <3>1
  <2>6. c = [b EXCEPT !.values = values, !.used = b.used \union {unit},
                      !.t = IF pair.texture # NoTexture THEN with ELSE bare]
    BY <1>6, <1>2 DEF SetTexture, What
  <2>7. pair.texture = NoTexture => s.target \notin Target
    BY DEF What, Target
  <2> HIDE DEF unit, on, bare, with, values, s
  <2>8. CASE pair.texture # NoTexture
    <3>0. c = [b EXCEPT !.values = values, !.used = b.used \union {unit}, !.t = with]
      BY <2>6, <2>8
    <3>1. /\ c \in Going(p, t) /\ c.values = values /\ c.used = b.used \union {unit} /\ c.t = with
          /\ c.full = b.full
      <4>1. b.used \union {unit} \in SUBSET Unit
        BY <1>2, <2>1
      <4> QED
        BY <1>2, <2>3, <2>5, <3>0, <4>1 DEF Going
    <3> QED
      BY <1>6, <2>1, <2>3, <2>5, <3>1 DEF s, SamplerSet
  <2>9. CASE pair.texture = NoTexture
    <3>0. c = [b EXCEPT !.values = values, !.used = b.used \union {unit}, !.t = bare]
      BY <2>6, <2>9
    <3>1. /\ c \in Going(p, t) /\ c.values = values /\ c.used = b.used \union {unit} /\ c.t = bare
          /\ c.full = b.full
      <4>1. b.used \union {unit} \in SUBSET Unit
        BY <1>2, <2>1
      <4> QED
        BY <1>2, <2>4, <2>5, <3>0, <4>1 DEF Going
    <3> QED
      BY <1>6, <2>1, <2>4, <2>5, <2>7, <2>9, <3>1 DEF s, SamplerSet
  <2> QED
    BY <2>8, <2>9
<1> QED
  BY <1>2, <1>3, <1>4, <1>5, <1>6

(* SetTextures is what SetTexture makes of the pairs, one after the other. *)
SetsStepwise(g, p, seq, base, junk, result) ==
  /\ g[0] = base /\ g[Len(seq)] = result
  /\ \A k \in 0 .. Len(seq) - 1 : g[k + 1] = SetTexture(p, g[k], seq[k + 1], junk)

Beginning(p, values) == [t |-> t, values |-> values, used |-> UsedUnits[p], full |-> FALSE]

LEMMA SetTexturesSteps ==
  ASSUME t \in TextureState, NEW p \in Pipe, UpdatedPairs(p) \in Seq(Pair(p)), NEW junk \in Nat,
         NEW values, Beginning(p, values) \in Going(p, t)
  PROVE  \E g \in [0 .. Len(UpdatedPairs(p)) -> Going(p, t)] :
           SetsStepwise(g, p, UpdatedPairs(p), Beginning(p, values), junk, SetTextures(p, values, junk))
<1> DEFINE seq  == UpdatedPairs(p)
           V    == Going(p, t)
           base == Beginning(p, values)
           step == [x \in V \X Pair(p) |-> SetTexture(p, x[1], x[2], junk)]
           Folds(it) == it = [s \in SUBSET DOMAIN seq |->
                                IF s = {} THEN base
                                ELSE SetTexture(p, it[s \ {Max(s)}], seq[Max(s)], junk)]
           it == CHOOSE it : Folds(it)
<1>1. seq \in Seq(Pair(p)) /\ Len(seq) \in Nat /\ DOMAIN seq = 1 .. Len(seq) /\ \A i \in DOMAIN seq : seq[i] \in Pair(p)
  <2> HIDE DEF seq
  <2>1. seq \in Seq(Pair(p))
    BY DEF seq
  <2> QED
    BY <2>1
<1> HIDE DEF seq, V, base
<1>2. \A s \in SUBSET DOMAIN seq : s # {} => LastIn(s) = Max(s) /\ LastIn(s) \in DOMAIN seq
  BY <1>1, LastIsIn DEF LastIn, Max
<1>3. /\ step \in [V \X Pair(p) -> V]
      /\ \A a \in V, b \in Pair(p) : step[<<a, b>>] = SetTexture(p, a, b, junk)
  <2>1. \A a \in V, b \in Pair(p) : SetTexture(p, a, b, junk) \in V
    BY SetTextureFacts DEF V
  <2> QED
    BY <2>1
<1>4. base \in V
  BY DEF base, V
<1> HIDE DEF step
<1>5. \E i : Folds(i)
  <2>1. PICK i \in [SUBSET DOMAIN seq -> V] : IsLeftFold(i, seq, base, step)
    BY <1>1, <1>3, <1>4, LeftFoldExists, Zenon
  <2>2. ASSUME NEW s \in SUBSET DOMAIN seq, s # {}
        PROVE  i[s] = SetTexture(p, i[s \ {Max(s)}], seq[Max(s)], junk)
    <3>1. seq[Max(s)] \in Pair(p) /\ i[s \ {Max(s)}] \in V /\ i[s] = step[<<i[s \ {Max(s)}], seq[Max(s)]>>]
      BY <1>1, <1>2, <2>1, <2>2 DEF IsLeftFold
    <3> QED
      BY <1>3, <3>1
  <2> QED
    BY <2>1, <2>2 DEF IsLeftFold
<1>6. Folds(it)
  <2> HIDE DEF Folds
  <2> QED
    BY <1>5, Zenon
<1>7. SetTextures(p, values, junk) = it[DOMAIN seq]
  BY DEF SetTextures, FoldLeft, MapThenFoldSet, seq, base, Beginning
<1> HIDE DEF it
<1>8. TakesSteps(it, seq, V, base, step)
  <2>1. ASSUME NEW s \in SUBSET DOMAIN seq, s # {}, it[s \ {LastIn(s)}] \in V
        PROVE  it[s] = step[<<it[s \ {LastIn(s)}], seq[LastIn(s)]>>]
    <3>1. seq[Max(s)] \in Pair(p) /\ it[s] = SetTexture(p, it[s \ {Max(s)}], seq[Max(s)], junk)
      BY <1>1, <1>2, <1>6, <2>1
    <3> QED
      BY <1>2, <1>3, <2>1, <3>1
  <2> QED
    BY <1>6, <2>1 DEF TakesSteps
<1>9. PICK g \in [0 .. Len(seq) -> V] : IsStepwise(g, seq, base, step, it[DOMAIN seq])
  BY <1>1, <1>3, <1>4, <1>8, LeftFoldSteps, Zenon
<1>10. \A k \in 0 .. Len(seq) - 1 : g[k] \in V /\ seq[k + 1] \in Pair(p)
  BY <1>1
<1>11. SetsStepwise(g, p, seq, base, junk, SetTextures(p, values, junk))
  BY <1>3, <1>7, <1>9, <1>10 DEF IsStepwise, SetsStepwise
<1> QED
  BY <1>11 DEF seq, V, base

(***************************************************************************)
(* The samplers and images a pass registers                                *)
(***************************************************************************)
LEMMA Sixths ==
  ASSUME NEW n \in Nat, NEW i \in 1 .. 6 * n
  PROVE  /\ (i - 1) \div 6 + 1 \in 1 .. n /\ ((i - 1) % 6) + 1 \in 1 .. 6
         /\ i = 6 * ((i - 1) \div 6 + 1 - 1) + ((i - 1) % 6) + 1
  OBVIOUS

LEMMA SixthsBack ==
  ASSUME NEW n \in Nat, NEW a \in 1 .. n, NEW b \in 1 .. 6
  PROVE  LET i == 6 * (a - 1) + b IN
         i \in 1 .. 6 * n /\ (i - 1) \div 6 + 1 = a /\ ((i - 1) % 6) + 1 = b
  OBVIOUS

LEMMA CandidatesFacts ==
  ASSUME NEW p \in Pipe
  PROVE  LET names == TextureNames(p) \X ToSet(SamplerSuffixes)
         IN  /\ Candidates(p) \in Seq(names)
             /\ \A i, j \in 1 .. Len(Candidates(p)) : Candidates(p)[i] = Candidates(p)[j] => i = j
             /\ \A name \in names : \E i \in 1 .. Len(Candidates(p)) : Candidates(p)[i] = name
<1> DEFINE C == Candidates(p)
           given == Given[p].textures
           n == Len(given)
           at(i) == (i - 1) \div 6 + 1
           of(i) == ((i - 1) % 6) + 1
<1>1. /\ given \in Seq((STRING \ {""}) \X Tex) /\ n \in Nat /\ DOMAIN given = 1 .. n
      /\ \A i, j \in 1 .. n : given[i][1] = given[j][1] => i = j
      /\ TextureNames(p) = {given[i][1] : i \in 1 .. n}
  <2>1. given \in Seq((STRING \ {""}) \X Tex) /\ \A i, j \in DOMAIN given : given[i][1] = given[j][1] => i = j
    BY ProgramFacts DEF GivenType
  <2>2. TextureNames(p) = {given[i][1] : i \in DOMAIN given}
    BY DEF TextureNames
  <2> HIDE DEF given
  <2>3. n \in Nat /\ DOMAIN given = 1 .. n
    BY <2>1, LenProperties
  <2> QED
    BY <2>1, <2>2, <2>3
<1>2. /\ DOMAIN SamplerSuffixes = 1 .. 6
      /\ \A i, j \in 1 .. 6 : SamplerSuffixes[i] = SamplerSuffixes[j] => i = j
      /\ ToSet(SamplerSuffixes) = {SamplerSuffixes[i] : i \in 1 .. 6}
  <2>2. DOMAIN SamplerSuffixes = 1 .. 6
    BY DEF SamplerSuffixes
  <2>3. \A i, j \in 1 .. 6 : SamplerSuffixes[i] = SamplerSuffixes[j] => i = j
    BY DEF SamplerSuffixes
  <2> QED
    BY <2>2, <2>3 DEF ToSet
<1>3. DOMAIN C = 1 .. 6 * n /\ \A i \in 1 .. 6 * n : C[i] = <<given[at(i)][1], SamplerSuffixes[of(i)]>>
  BY DEF Candidates
<1>4. C = [i \in DOMAIN C |-> C[i]]
  BY DEF Candidates
<1> HIDE DEF C, given, n
<1>0. n \in Nat
  BY <1>1, Zenon
<1>5. \A i \in 1 .. 6 * n : at(i) \in 1 .. n /\ of(i) \in 1 .. 6 /\ i = 6 * (at(i) - 1) + of(i)
  BY <1>0, Sixths
<1>6. \A a \in 1 .. n, b \in 1 .. 6 : /\ 6 * (a - 1) + b \in 1 .. 6 * n
                                     /\ at(6 * (a - 1) + b) = a /\ of(6 * (a - 1) + b) = b
  BY <1>1, SixthsBack
<1> HIDE DEF at, of
<1>7. Len(C) = 6 * n /\ C \in Seq(TextureNames(p) \X ToSet(SamplerSuffixes))
  <2>1. \A i \in 1 .. 6 * n : C[i] \in TextureNames(p) \X ToSet(SamplerSuffixes)
    <3>1. ASSUME NEW i \in 1 .. 6 * n
          PROVE  C[i] \in TextureNames(p) \X ToSet(SamplerSuffixes)
      <4>1. given[at(i)][1] \in TextureNames(p) /\ SamplerSuffixes[of(i)] \in ToSet(SamplerSuffixes)
        BY <1>1, <1>2, <1>5
      <4>2. C[i] = <<given[at(i)][1], SamplerSuffixes[of(i)]>>
        BY <1>3
      <4> QED
        BY <4>1, <4>2
    <3> QED
      BY <3>1
  <2>2. C = [i \in 1 .. 6 * n |-> C[i]]
    BY <1>3, <1>4, Zenon
  <2>3. 6 * n \in Nat
    BY <1>0
  <2> QED
    BY <2>1, <2>2, <2>3
<1>8. ASSUME NEW i \in 1 .. 6 * n, NEW j \in 1 .. 6 * n, C[i] = C[j]
      PROVE  i = j
  <2>1. given[at(i)][1] = given[at(j)][1] /\ SamplerSuffixes[of(i)] = SamplerSuffixes[of(j)]
    BY <1>3, <1>8
  <2>2. at(i) = at(j) /\ of(i) = of(j)
    BY <1>1, <1>2, <1>5, <2>1
  <2> QED
    BY <1>5, <2>2
<1>9. ASSUME NEW name \in TextureNames(p) \X ToSet(SamplerSuffixes)
      PROVE  \E i \in 1 .. 6 * n : C[i] = name
  <2>1. PICK x \in TextureNames(p), y \in ToSet(SamplerSuffixes) : name = <<x, y>>
    OBVIOUS
  <2>2. PICK a \in 1 .. n : x = given[a][1]
    BY <1>1
  <2>3. PICK b \in 1 .. 6 : y = SamplerSuffixes[b]
    BY <1>2
  <2>4. C[6 * (a - 1) + b] = name /\ 6 * (a - 1) + b \in 1 .. 6 * n
    BY <1>3, <1>6, <2>1, <2>2, <2>3
  <2> QED
    BY <2>4
<1> QED
  BY <1>7, <1>8, <1>9 DEF C

(* TexturePairs is what Registered makes of them, one after the other.     *)
NewPair(p) == [name : Declares[ProgramOf[p]].samplers, texture : {NoTexture}]

RegistersStepwise(g, p, seq, result) ==
  /\ g[0] = <<>> /\ g[Len(seq)] = result
  /\ \A k \in 0 .. Len(seq) - 1 : g[k + 1] = Registered(p, g[k], seq[k + 1])

LEMMA RegisteredType ==
  ASSUME NEW p, NEW found \in Seq(NewPair(p)), NEW name
  PROVE  LET new == [name |-> name, texture |-> NoTexture] IN
         /\ Registered(p, found, name) \in Seq(NewPair(p))
         /\ name \in Declares[ProgramOf[p]].samplers =>
              /\ Len(Registered(p, found, name)) = Len(found) + 1
              /\ \A i \in 1 .. Len(found) : Registered(p, found, name)[i] = found[i]
              /\ Registered(p, found, name)[Len(found) + 1] = new
         /\ name \notin Declares[ProgramOf[p]].samplers => Registered(p, found, name) = found
<1>1. CASE name \in Declares[ProgramOf[p]].samplers
  <2> DEFINE new == [name |-> name, texture |-> NoTexture]
  <2>1. new \in NewPair(p)
    BY <1>1 DEF NewPair
  <2>2. Registered(p, found, name) = Append(found, new)
    BY <1>1 DEF Registered
  <2> HIDE DEF new
  <2>3. /\ Append(found, new) \in Seq(NewPair(p)) /\ Len(Append(found, new)) = Len(found) + 1
        /\ \A i \in 1 .. Len(found) : Append(found, new)[i] = found[i]
        /\ Append(found, new)[Len(found) + 1] = new
    BY <2>1, AppendProperties
  <2> QED
    BY <1>1, <2>2, <2>3 DEF new
<1>2. CASE name \notin Declares[ProgramOf[p]].samplers
  BY <1>2 DEF Registered
<1> QED
  BY <1>1, <1>2

LEMMA RegistersSteps ==
  ASSUME NEW p \in Pipe
  PROVE  \E g \in [0 .. Len(Candidates(p)) -> Seq(NewPair(p))] :
           RegistersStepwise(g, p, Candidates(p), TexturePairs[p])
<1> DEFINE seq  == Candidates(p)
           T    == TextureNames(p) \X ToSet(SamplerSuffixes)
           V    == Seq(NewPair(p))
           step == [x \in V \X T |-> Registered(p, x[1], x[2])]
           Folds(it) == it = [s \in SUBSET DOMAIN seq |->
                                IF s = {} THEN <<>> ELSE Registered(p, it[s \ {Max(s)}], seq[Max(s)])]
           it == CHOOSE it : Folds(it)
<1>0. seq \in Seq(T)
  BY CandidatesFacts, Zenon
<1> HIDE DEF seq, T
<1>1. Len(seq) \in Nat /\ DOMAIN seq = 1 .. Len(seq) /\ \A i \in DOMAIN seq : seq[i] \in T
  BY <1>0
<1>2. \A s \in SUBSET DOMAIN seq : s # {} => LastIn(s) = Max(s) /\ LastIn(s) \in DOMAIN seq
  BY <1>1, LastIsIn DEF LastIn, Max
<1>3. /\ step \in [V \X T -> V]
      /\ \A a \in V, b \in T : step[<<a, b>>] = Registered(p, a, b)
  <2>1. \A a \in V, b \in T : Registered(p, a, b) \in V
    BY RegisteredType
  <2> HIDE DEF V
  <2> QED
    BY <2>1
<1>4. <<>> \in V
  OBVIOUS
<1> HIDE DEF step, V
<1>5. \E i : Folds(i)
  <2>1. PICK i \in [SUBSET DOMAIN seq -> V] : IsLeftFold(i, seq, <<>>, step)
    BY <1>0, <1>3, <1>4, LeftFoldExists, Zenon
  <2>2. ASSUME NEW s \in SUBSET DOMAIN seq, s # {}
        PROVE  i[s] = Registered(p, i[s \ {Max(s)}], seq[Max(s)])
    <3>1. seq[Max(s)] \in T /\ i[s \ {Max(s)}] \in V /\ i[s] = step[<<i[s \ {Max(s)}], seq[Max(s)]>>]
      BY <1>1, <1>2, <2>1, <2>2 DEF IsLeftFold
    <3> QED
      BY <1>3, <3>1
  <2> QED
    BY <2>1, <2>2 DEF IsLeftFold
<1>6. Folds(it)
  <2> HIDE DEF Folds
  <2> QED
    BY <1>5, Zenon
<1>7. TexturePairs[p] = it[DOMAIN seq]
  BY DEF TexturePairs, FoldLeft, MapThenFoldSet, seq
<1> HIDE DEF it
<1>8. TakesSteps(it, seq, V, <<>>, step)
  <2>1. ASSUME NEW s \in SUBSET DOMAIN seq, s # {}, it[s \ {LastIn(s)}] \in V
        PROVE  it[s] = step[<<it[s \ {LastIn(s)}], seq[LastIn(s)]>>]
    <3>1. seq[Max(s)] \in T /\ it[s] = Registered(p, it[s \ {Max(s)}], seq[Max(s)])
      BY <1>1, <1>2, <1>6, <2>1
    <3> QED
      BY <1>2, <1>3, <2>1, <3>1
  <2> QED
    BY <1>6, <2>1 DEF TakesSteps
<1>9. PICK g \in [0 .. Len(seq) -> V] : IsStepwise(g, seq, <<>>, step, it[DOMAIN seq])
  BY <1>0, <1>3, <1>4, <1>8, LeftFoldSteps, Zenon
<1>10. \A k \in 0 .. Len(seq) - 1 : g[k] \in V /\ seq[k + 1] \in T
  BY <1>1
<1>11. RegistersStepwise(g, p, seq, TexturePairs[p])
  BY <1>3, <1>7, <1>9, <1>10 DEF IsStepwise, RegistersStepwise
<1> QED
  BY <1>11 DEF seq, V

(* Each sampler that the program declares for a texture of the pass has    *)
(* one pair, which has no texture yet.                                     *)
LEMMA PairsFacts ==
  ASSUME NEW p \in Pipe
  PROVE  LET P == TexturePairs[p] IN
         /\ P \in Seq(NewPair(p))
         /\ \A i, j \in 1 .. Len(P) : P[i].name = P[j].name => i = j
         /\ \A i \in 1 .. Len(P) : P[i].name[1] \in TextureNames(p)
         /\ \A name \in Declares[ProgramOf[p]].samplers :
              name[1] \in TextureNames(p) => \E i \in 1 .. Len(P) : P[i].name = name
<1> DEFINE C == Candidates(p)
           names == TextureNames(p) \X ToSet(SamplerSuffixes)
           samplers == Declares[ProgramOf[p]].samplers
<1>1. /\ C \in Seq(names)
      /\ \A i, j \in 1 .. Len(C) : C[i] = C[j] => i = j
      /\ \A name \in names : \E i \in 1 .. Len(C) : C[i] = name
  BY CandidatesFacts, Zenon
<1>2. PICK g \in [0 .. Len(C) -> Seq(NewPair(p))] : RegistersStepwise(g, p, C, TexturePairs[p])
  BY RegistersSteps, Zenon
<1>3. samplers \subseteq STRING \X ToSet(SamplerSuffixes)
  BY ProgramFacts DEF DeclaredType
<1> HIDE DEF C, names, samplers
<1>4. Len(C) \in Nat /\ \A i \in 1 .. Len(C) : C[i] \in names
  BY <1>1, LenProperties, ElementOfSeq
<1> DEFINE G == {k \in 0 .. Len(C) :
                   /\ \A i, j \in 1 .. Len(g[k]) : g[k][i].name = g[k][j].name => i = j
                   /\ \A i \in 1 .. Len(g[k]) : \E m \in 1 .. k : g[k][i].name = C[m]
                   /\ \A m \in 1 .. k : C[m] \in samplers => \E i \in 1 .. Len(g[k]) : g[k][i].name = C[m]}
<1>5. 0 \in G
  <2>1. g[0] = <<>> /\ Len(g[0]) = 0
    BY <1>2 DEF RegistersStepwise
  <2> QED
    BY <1>4, <2>1
<1>6. ASSUME NEW k \in 0 .. Len(C) - 1, k \in G
      PROVE  k + 1 \in G
  <2>1. k \in 0 .. Len(C) /\ k + 1 \in 1 .. Len(C) /\ k \in Nat /\ 1 .. k + 1 = (1 .. k) \union {k + 1}
    BY <1>4
  <2>2. g[k] \in Seq(NewPair(p)) /\ Len(g[k]) \in Nat /\ g[k + 1] = Registered(p, g[k], C[k + 1])
    BY <1>2, <2>1 DEF RegistersStepwise
  <2>3. \A m \in 1 .. k : C[m] # C[k + 1]
    BY <1>1, <1>4, <2>1
  <2>4. CASE C[k + 1] \notin samplers
    <3>1. g[k + 1] = g[k]
      BY <2>2, <2>4 DEF Registered, samplers
    <3>2. /\ \A i, j \in 1 .. Len(g[k]) : g[k][i].name = g[k][j].name => i = j
          /\ \A i \in 1 .. Len(g[k]) : \E m \in 1 .. k : g[k][i].name = C[m]
          /\ \A m \in 1 .. k : C[m] \in samplers => \E i \in 1 .. Len(g[k]) : g[k][i].name = C[m]
      BY <1>6
    <3>3. /\ \A i \in 1 .. Len(g[k]) : \E m \in 1 .. k + 1 : g[k][i].name = C[m]
          /\ \A m \in 1 .. k + 1 : C[m] \in samplers => \E i \in 1 .. Len(g[k]) : g[k][i].name = C[m]
      BY <2>1, <2>4, <3>2
    <3>4. k + 1 \in 0 .. Len(C)
      BY <2>1
    <3>5. \A i, j \in 1 .. Len(g[k + 1]) : g[k + 1][i].name = g[k + 1][j].name => i = j
      BY <3>1, <3>2, Zenon
    <3>6. \A i \in 1 .. Len(g[k + 1]) : \E m \in 1 .. k + 1 : g[k + 1][i].name = C[m]
      BY <3>1, <3>3, Zenon
    <3>7. \A m \in 1 .. k + 1 : C[m] \in samplers => \E i \in 1 .. Len(g[k + 1]) : g[k + 1][i].name = C[m]
      BY <3>1, <3>3, Zenon
    <3> QED
      BY <3>4, <3>5, <3>6, <3>7, Zenon
  <2>5. CASE C[k + 1] \in samplers
    <3>1. /\ Len(g[k + 1]) = Len(g[k]) + 1 /\ \A i \in 1 .. Len(g[k]) : g[k + 1][i] = g[k][i]
          /\ g[k + 1][Len(g[k]) + 1] = [name |-> C[k + 1], texture |-> NoTexture]
      BY <2>2, <2>5, RegisteredType DEF samplers
    <3>2. g[k + 1][Len(g[k]) + 1].name = C[k + 1]
      BY <3>1
    <3>3. 1 .. Len(g[k + 1]) = (1 .. Len(g[k])) \union {Len(g[k]) + 1}
      BY <2>2, <3>1
    <3>4. /\ \A i, j \in 1 .. Len(g[k]) : g[k][i].name = g[k][j].name => i = j
          /\ \A i \in 1 .. Len(g[k]) : \E m \in 1 .. k : g[k][i].name = C[m]
          /\ \A m \in 1 .. k : C[m] \in samplers => \E i \in 1 .. Len(g[k]) : g[k][i].name = C[m]
      BY <1>6
    <3>5. \A i \in 1 .. Len(g[k]) : g[k + 1][i].name = g[k][i].name /\ g[k + 1][i].name # C[k + 1]
      BY <2>3, <3>1, <3>4
    <3>6. \A i, j \in 1 .. Len(g[k + 1]) : g[k + 1][i].name = g[k + 1][j].name => i = j
      BY <3>2, <3>3, <3>4, <3>5
    <3>7. \A i \in 1 .. Len(g[k + 1]) : \E m \in 1 .. k + 1 : g[k + 1][i].name = C[m]
      BY <2>1, <3>2, <3>3, <3>4, <3>5
    <3>8. \A m \in 1 .. k + 1 : C[m] \in samplers => \E i \in 1 .. Len(g[k + 1]) : g[k + 1][i].name = C[m]
      BY <2>1, <3>2, <3>3, <3>4, <3>5
    <3>9. k + 1 \in 0 .. Len(C)
      BY <2>1
    <3> QED
      BY <3>6, <3>7, <3>8, <3>9, Zenon
  <2> QED
    BY <2>4, <2>5
<1>7. Len(C) \in G
  <2>1. \A k \in 0 .. Len(C) - 1 : k \in G => k + 1 \in G
    BY <1>6
  <2> HIDE DEF G
  <2>2. \A k \in 0 .. Len(C) : k \in G
    BY <1>4, <1>5, <2>1, CountingUp
  <2> QED
    BY <1>4, <2>2
<1>8. g[Len(C)] = TexturePairs[p] /\ TexturePairs[p] \in Seq(NewPair(p))
  BY <1>2, <1>4 DEF RegistersStepwise
<1>9. \A i \in 1 .. Len(TexturePairs[p]) : TexturePairs[p][i].name \in names
  BY <1>4, <1>7, <1>8
<1>10. \A i \in 1 .. Len(TexturePairs[p]) : TexturePairs[p][i].name[1] \in TextureNames(p)
  BY <1>9 DEF names
<1>11. ASSUME NEW name \in samplers, name[1] \in TextureNames(p)
       PROVE  \E i \in 1 .. Len(TexturePairs[p]) : TexturePairs[p][i].name = name
  <2>1. name \in names
    BY <1>3, <1>11 DEF names
  <2>2. PICK m \in 1 .. Len(C) : C[m] = name
    BY <1>1, <2>1
  <2> QED
    BY <1>7, <1>8, <1>11, <2>2
<1>12. \A i, j \in 1 .. Len(TexturePairs[p]) : TexturePairs[p][i].name = TexturePairs[p][j].name => i = j
  BY <1>7, <1>8
<1> QED
  BY <1>8, <1>10, <1>11, <1>12 DEF samplers

(***************************************************************************)
(* The pairs of a pipeline and the images of its textures                  *)
(***************************************************************************)
PairsFit(p) ==
  /\ pairs[p] \in Seq(Pair(p)) /\ Len(pairs[p]) = Len(TexturePairs[p])
  /\ \A i \in 1 .. Len(pairs[p]) : pairs[p][i].name = TexturePairs[p][i].name

LEMMA TextureNamedType ==
  ASSUME NEW p \in Pipe, NEW n \in TextureNames(p)
  PROVE  TextureNamed(p, n) \in Tex /\ n # ""
<1>1. PICK i \in DOMAIN Given[p].textures : Given[p].textures[i][1] = n
  BY DEF TextureNames
<1> DEFINE j == CHOOSE j \in DOMAIN Given[p].textures : Given[p].textures[j][1] = n
<1>2. j \in DOMAIN Given[p].textures
  BY <1>1
<1>3. \A m \in DOMAIN Given[p].textures : Given[p].textures[m] \in (STRING \ {""}) \X Tex
  <2> DEFINE given == Given[p].textures
             S == (STRING \ {""}) \X Tex
  <2>1. given \in Seq(S)
    BY ProgramFacts DEF GivenType
  <2> HIDE DEF given, S
  <2>2. \A m \in DOMAIN given : given[m] \in S
    BY <2>1, LenProperties, ElementOfSeq
  <2> QED
    BY <2>2 DEF given, S
<1> HIDE DEF j
<1>4. Given[p].textures[j][2] \in Tex /\ Given[p].textures[i][1] # ""
  BY <1>1, <1>2, <1>3
<1> QED
  BY <1>1, <1>4 DEF TextureNamed, j

LEMMA LayoutFacts ==
  ASSUME NEW img \in Images
  PROVE  LET S == SamplersOf(img.layout) IN
         /\ DOMAIN img.planes = DOMAIN S
         /\ \A k \in DOMAIN S : img.planes[k] \in Address /\ S[k] \in ToSet(S)
         /\ \A k, m \in DOMAIN S : S[k] = S[m] => k = m
<1> DEFINE S == SamplersOf(img.layout)
<1>1. CASE img.layout = "none"
  <2>1. S = <<>> /\ img.planes = <<>>
    BY <1>1 DEF SamplersOf, Images
  <2> QED
    BY <2>1
<1>2. CASE img.layout = "default"
  <2>1. S = <<"sampler">>
    BY <1>2 DEF SamplersOf
  <2>2. PICK a \in Address : img.planes = <<a>>
    BY <1>2 DEF Images
  <2>3. DOMAIN S = {1} /\ DOMAIN img.planes = {1} /\ img.planes[1] = a /\ S[1] = "sampler"
    BY <2>1, <2>2
  <2> HIDE DEF S
  <2> QED
    BY <2>3 DEF ToSet, S
<1>3. CASE img.layout = "nv12"
  <2>1. S = <<"y_sampler", "uv_sampler">>
    BY <1>3 DEF SamplersOf
  <2>2. PICK a \in Address, b \in Address : img.planes = <<a, b>>
    BY <1>3 DEF Images
  <2>3. /\ DOMAIN S = {1, 2} /\ DOMAIN img.planes = {1, 2} /\ img.planes[1] = a /\ img.planes[2] = b
        /\ S[1] = "y_sampler" /\ S[2] = "uv_sampler"
    BY <2>1, <2>2
  <2> HIDE DEF S
  <2> QED
    BY <2>3 DEF ToSet, S
<1> QED
  BY <1>1, <1>2, <1>3 DEF Images

(* The pairs after ngli_pipeline_update_texture: those of the samplers of  *)
(* an image have its planes.                                               *)
LEMMA UpdatedFacts ==
  ASSUME image \in [Tex -> Images], NEW p \in Pipe, PairsFit(p)
  PROVE  LET U == UpdatedPairs(p) IN
         /\ U \in Seq(Pair(p)) /\ Len(U) = Len(TexturePairs[p])
         /\ \A i \in 1 .. Len(U) : U[i].name = TexturePairs[p][i].name
         /\ \A n \in TextureNames(p) :
              LET img == image[TextureNamed(p, n)] IN
              \A k \in DOMAIN img.planes :
                LET s == <<n, SamplersOf(img.layout)[k]>> IN
                s \in Declares[ProgramOf[p]].samplers =>
                  \E i \in 1 .. Len(U) : U[i].name = s /\ U[i].texture = img.planes[k]
<1> DEFINE U == UpdatedPairs(p)
           N == Len(pairs[p])
           name(i) == TexturePairs[p][i].name
           img(i) == image[TextureNamed(p, name(i)[1])]
           plane(i) == CHOOSE k \in DOMAIN img(i).planes : SamplersOf(img(i).layout)[k] = name(i)[2]
           hit(i) == name(i)[2] \in Sampled(p, name(i)[1])
<1>1. /\ N \in Nat /\ DOMAIN pairs[p] = 1 .. N /\ N = Len(TexturePairs[p])
      /\ \A i \in 1 .. N : pairs[p][i] \in Pair(p) /\ pairs[p][i].name = name(i)
  BY LenProperties, ElementOfSeq DEF PairsFit
<1>2. \A i \in 1 .. N : name(i)[1] \in TextureNames(p) /\ img(i) \in Images
  <2>1. \A i \in 1 .. N : name(i)[1] \in TextureNames(p)
    BY <1>1, PairsFacts, Zenon
  <2>2. \A i \in 1 .. N : TextureNamed(p, name(i)[1]) \in Tex
    BY <2>1, TextureNamedType, Zenon
  <2> QED
    BY <2>1, <2>2
<1>3. /\ DOMAIN U = 1 .. N /\ U = [i \in 1 .. N |-> U[i]]
      /\ \A i \in 1 .. N : U[i] = IF hit(i) THEN [pairs[p][i] EXCEPT !.texture = img(i).planes[plane(i)]]
                                  ELSE pairs[p][i]
  <2>1. U = [i \in DOMAIN pairs[p] |->
               IF pairs[p][i].name[2] \in Sampled(p, pairs[p][i].name[1])
               THEN [pairs[p][i] EXCEPT !.texture =
                       image[TextureNamed(p, pairs[p][i].name[1])].planes[
                         CHOOSE k \in DOMAIN image[TextureNamed(p, pairs[p][i].name[1])].planes :
                           SamplersOf(image[TextureNamed(p, pairs[p][i].name[1])].layout)[k] = pairs[p][i].name[2]]]
               ELSE pairs[p][i]]
    BY DEF UpdatedPairs
  <2>2. DOMAIN U = 1 .. N /\ U = [i \in DOMAIN U |-> U[i]]
    BY <1>1, <2>1
  <2>3. ASSUME NEW i \in 1 .. N
        PROVE  U[i] = IF hit(i) THEN [pairs[p][i] EXCEPT !.texture = img(i).planes[plane(i)]]
                      ELSE pairs[p][i]
    <3>1. pairs[p][i].name = name(i) /\ i \in DOMAIN pairs[p]
      BY <1>1
    <3> DEFINE A(m, q) ==
                 IF m[2] \in Sampled(p, m[1])
                 THEN [q EXCEPT !.texture =
                         image[TextureNamed(p, m[1])].planes[
                           CHOOSE k \in DOMAIN image[TextureNamed(p, m[1])].planes :
                             SamplersOf(image[TextureNamed(p, m[1])].layout)[k] = m[2]]]
                 ELSE q
    <3>2. U[i] = A(pairs[p][i].name, pairs[p][i])
      <4> HIDE DEF U
      <4> QED
        BY <2>1, <3>1
    <3>3. A(pairs[p][i].name, pairs[p][i]) = A(name(i), pairs[p][i])
      <4> HIDE DEF A, name
      <4> QED
        BY <3>1
    <3> HIDE DEF U
    <3> QED
      BY <3>2, <3>3
  <2> QED
    BY <2>2, <2>3, Zenon
<1>4. ASSUME NEW i \in 1 .. N, hit(i)
      PROVE  plane(i) \in DOMAIN img(i).planes /\ SamplersOf(img(i).layout)[plane(i)] = name(i)[2]
  <2>1. name(i)[2] \in ToSet(SamplersOf(img(i).layout))
    BY <1>4 DEF Sampled
  <2>2. DOMAIN img(i).planes = DOMAIN SamplersOf(img(i).layout)
    BY <1>2, LayoutFacts
  <2>3. \E k \in DOMAIN img(i).planes : SamplersOf(img(i).layout)[k] = name(i)[2]
    BY <2>1, <2>2 DEF ToSet
  <2> QED
    BY <2>3
<1> HIDE DEF U, N, plane, hit, name, img
<1>5. ASSUME NEW i \in 1 .. N
      PROVE  /\ U[i] \in Pair(p) /\ U[i].name = name(i)
             /\ hit(i) => U[i].texture = img(i).planes[plane(i)]
  <2>1. hit(i) => img(i).planes[plane(i)] \in Address
    BY <1>2, <1>4, LayoutFacts
  <2>2. pairs[p][i] \in Pair(p) /\ pairs[p][i].name = name(i)
    BY <1>1
  <2>3. CASE hit(i)
    <3>1. U[i] = [pairs[p][i] EXCEPT !.texture = img(i).planes[plane(i)]]
      BY <1>3, <2>3
    <3> QED
      BY <2>1, <2>2, <2>3, <3>1 DEF Pair
  <2>4. CASE ~hit(i)
    BY <1>3, <2>2, <2>4
  <2> QED
    BY <2>3, <2>4
<1>6. U \in Seq(Pair(p)) /\ Len(U) = N
  BY <1>1, <1>3, <1>5
<1>7. ASSUME NEW n \in TextureNames(p), NEW k \in DOMAIN image[TextureNamed(p, n)].planes,
             <<n, SamplersOf(image[TextureNamed(p, n)].layout)[k]>> \in Declares[ProgramOf[p]].samplers
      PROVE  \E i \in 1 .. N : /\ U[i].name = <<n, SamplersOf(image[TextureNamed(p, n)].layout)[k]>>
                               /\ U[i].texture = image[TextureNamed(p, n)].planes[k]
  <2> DEFINE im == image[TextureNamed(p, n)]
             s  == SamplersOf(im.layout)[k]
  <2>0. im \in Images /\ k \in DOMAIN SamplersOf(im.layout) /\ s \in ToSet(SamplersOf(im.layout))
    <3>1. im \in Images
      BY TextureNamedType
    <3> QED
      BY <3>1, LayoutFacts
  <2>1. PICK i \in 1 .. N : name(i) = <<n, s>>
    BY <1>1, <1>7, PairsFacts DEF name
  <2>2. name(i)[1] = n /\ name(i)[2] = s /\ img(i) = im
    BY <2>1 DEF img
  <2>3. hit(i)
    BY <1>7, <2>0, <2>2 DEF hit, Sampled
  <2>4. plane(i) = k
    <3>1. SamplersOf(im.layout)[plane(i)] = s /\ plane(i) \in DOMAIN im.planes
      BY <1>4, <2>2, <2>3
    <3> QED
      BY <2>0, <3>1, LayoutFacts
  <2> QED
    BY <1>5, <2>1, <2>2, <2>3, <2>4
<1> QED
  BY <1>1, <1>5, <1>6, <1>7 DEF U, name

(***************************************************************************)
(* The texture structures and the GL textures they stand for               *)
(***************************************************************************)
(* A structure with a name has one that GL knows and no other one has.     *)
Sound(tx) ==
  /\ tx \in TextureState /\ IsFiniteSet(tx.names)
  /\ \A x \in Tex : Own(x) \in DOMAIN tx.mem
  /\ \A a \in DOMAIN tx.mem : tx.mem[a].id # 0 => tx.mem[a].id \in tx.names
  /\ \A a, b \in DOMAIN tx.mem : tx.mem[a].id # 0 /\ tx.mem[a].id = tx.mem[b].id => a = b

Live(tx, a) == a \in DOMAIN tx.mem /\ tx.mem[a].id # 0 /\ tx.mem[a].target \in Target

LEMMA FreshName ==
  ASSUME NEW tx, tx.names \in SUBSET (Nat \ {0}), IsFiniteSet(tx.names)
  PROVE  FreshTexture(tx) \in Nat \ {0} /\ FreshTexture(tx) \notin tx.names
<1> DEFINE n == Cardinality(tx.names)
           free == 1 .. (n + 1) \ tx.names
<1>1. n \in Nat
  BY FS_CardinalityType
<1>2. free # {}
  <2>1. SUFFICES ASSUME 1 .. (n + 1) \subseteq tx.names
                 PROVE  FALSE
    OBVIOUS
  <2>2. Cardinality(1 .. (n + 1)) <= n
    BY <2>1, FS_Subset
  <2>3. Cardinality(1 .. (n + 1)) = n + 1
    BY <1>1, FS_Interval
  <2> HIDE DEF n
  <2> QED
    BY <1>1, <2>2, <2>3
<1>3. free \in SUBSET Nat /\ free \subseteq Nat \ {0}
  BY <1>1
<1>4. PICK u \in free : \A v \in free : u <= v
  <2> HIDE DEF free
  <2> QED
    BY <1>2, <1>3, LeastExists
<1>5. FreshTexture(tx) \in free
  BY <1>4 DEF FreshTexture, Min
<1> QED
  BY <1>3, <1>5

LEMMA MemType ==
  ASSUME NEW tx \in TextureState
  PROVE  /\ DOMAIN tx.mem \in SUBSET Address /\ tx.mem = [a \in DOMAIN tx.mem |-> tx.mem[a]]
         /\ \A a \in DOMAIN tx.mem : tx.mem[a] \in Structure
         /\ tx.units \in [Unit -> [Target -> Nat]] /\ tx.active \in Unit /\ tx.images \in [ImageUnit -> Nat]
         /\ tx.names \in SUBSET (Nat \ {0}) /\ tx.row_length \in BOOLEAN
         /\ tx = [mem |-> tx.mem, names |-> tx.names, units |-> tx.units, images |-> tx.images,
                  active |-> tx.active, row_length |-> tx.row_length]
<1>1. PICK S \in SUBSET Address : tx.mem \in [S -> Structure]
  BY DEF TextureState
<1> QED
  BY <1>1 DEF TextureState

(* Binding changes nothing of the structures.                              *)
SameButBound(tx, f) ==
  f \in TextureState /\ f.mem = tx.mem /\ f.names = tx.names /\ f.row_length = tx.row_length

LEMMA BoundState ==
  ASSUME NEW tx \in TextureState, NEW target \in Target \union {"none"}, NEW id \in Nat,
         NEW f, f = Bound(tx, target, id)
  PROVE  SameButBound(tx, f)
<1>1. tx \in Texturing(tx)
  BY DEF TextureState, Texturing
<1>2. BoundOnly(tx, tx, target, id, f)
  BY <1>1, BoundType
<1> QED
  BY <1>2 DEF BoundOnly, Texturing, TextureState, SameButBound

LEMMA InitFieldsFacts ==
  ASSUME NEW params
  PROVE  InitFields(params) = [target |-> TargetOf(params), id |-> 0, params |-> params, content |-> NoContent]
<1>1. InitFields(params) \in [target : {TargetOf(params)}, id : {0}, params : {params}, content : {NoContent}]
  BY DEF InitFields, ZeroTexture
<1> HIDE DEF InitFields
<1> QED
  BY <1>1

Fresh(params, id) == [target |-> TargetOf(params), id |-> id, params |-> params, content |-> NoContent]

LEMMA InitTextureFacts ==
  ASSUME NEW tx, Sound(tx), NEW a \in DOMAIN tx.mem, NEW params \in AnyParams
  PROVE  LET f == InitTexture(tx, a, params) IN
         /\ Sound(f) /\ DOMAIN f.mem = DOMAIN tx.mem /\ f.row_length = tx.row_length
         /\ f.mem[a] = Fresh(params, f.mem[a].id) /\ Live(f, a)
         /\ \A b \in DOMAIN tx.mem \ {a} : f.mem[b] = tx.mem[b]
         /\ tx.names \subseteq f.names
<1> DEFINE id == FreshTexture(tx)
           s == Fresh(params, id)
           S == DOMAIN tx.mem
           mem == [tx.mem EXCEPT ![a] = s]
           e == [tx EXCEPT !.mem = mem, !.names = tx.names \union {id}, !.units = tx.units, !.images = tx.images]
           f == InitTexture(tx, a, params)
<1>1. /\ tx \in TextureState /\ IsFiniteSet(tx.names) /\ S \in SUBSET Address
      /\ tx.mem = [b \in S |-> tx.mem[b]] /\ \A b \in S : tx.mem[b] \in Structure
      /\ tx.units \in [Unit -> [Target -> Nat]] /\ tx.images \in [ImageUnit -> Nat]
      /\ tx.names \in SUBSET (Nat \ {0})
  BY MemType DEF Sound
<1>2. id \in Nat \ {0} /\ id \notin tx.names
  BY <1>1, FreshName
<1>3. s \in Structure /\ s.id = id /\ s.target \in Target /\ s.target = TargetOf(params)
  <2>1. TargetOf(params) \in Target
    BY DEF TargetOf, Target
  <2>2. NoContent \in Content
    BY Zenon DEF Content
  <2> HIDE DEF id
  <2> QED
    BY <1>2, <2>1, <2>2 DEF Fresh, Structure
<1>4. [InitFields(params) EXCEPT !.id = id] = s
  <2>1. InitFields(params) = [target |-> TargetOf(params), id |-> 0, params |-> params, content |-> NoContent]
    BY InitFieldsFacts
  <2> HIDE DEF id
  <2> QED
    BY <2>1 DEF Fresh
<1>5. f = Bound(e, s.target, id)
  <2>1. [tx EXCEPT !.mem[a] = s, !.names = @ \union {id}] = e
    <3> HIDE DEF s, id
    <3> QED
      BY <1>1 DEF TextureState
  <2>2. f = Bound([tx EXCEPT !.mem[a] = s, !.names = @ \union {id}], s.target, id)
    <3> HIDE DEF s, id
    <3> QED
      BY <1>4 DEF InitTexture, id
  <2> QED
    BY <2>1, <2>2
<1> HIDE DEF id, s, S, e, f
<1>6. /\ mem \in [S -> Structure] /\ mem[a] = s /\ \A b \in S \ {a} : mem[b] = tx.mem[b]
      /\ a \in S /\ DOMAIN mem = S
  BY <1>1, <1>3 DEF S
<1> HIDE DEF mem
<1>7. /\ e \in TextureState /\ e.mem = mem /\ e.names = tx.names \union {id} /\ e.row_length = tx.row_length
  <2>1. tx.names \union {id} \in SUBSET (Nat \ {0})
    BY <1>1, <1>2
  <2>2. mem \in UNION {[Z -> Structure] : Z \in SUBSET Address}
    BY <1>1, <1>6
  <2> QED
    BY <1>1, <2>1, <2>2 DEF e, TextureState
<1>8. f \in TextureState /\ f.mem = mem /\ f.names = tx.names \union {id} /\ f.row_length = tx.row_length
  <2> HIDE DEF e
  <2>1. SameButBound(e, f)
    BY <1>2, <1>3, <1>5, <1>7, BoundState
  <2> QED
    BY <1>7, <2>1 DEF SameButBound
<1>9. IsFiniteSet(f.names)
  BY <1>1, <1>8, FS_AddElement
<1>10. ASSUME NEW b \in S, NEW c \in S
       PROVE  /\ mem[b].id # 0 => mem[b].id \in f.names
              /\ mem[b].id # 0 /\ mem[b].id = mem[c].id => b = c
  <2>1. \A d \in S : tx.mem[d].id # 0 => tx.mem[d].id \in tx.names
    BY DEF Sound, S
  <2>2. \A d \in S \ {a} : mem[d].id = tx.mem[d].id /\ (mem[d].id # 0 => mem[d].id # id)
    BY <1>2, <1>6, <2>1
  <2>3. tx.mem[b].id # 0 /\ tx.mem[b].id = tx.mem[c].id => b = c
    BY DEF Sound, S
  <2> QED
    BY <1>2, <1>3, <1>6, <1>8, <2>1, <2>2, <2>3
<1>11. Sound(f) /\ DOMAIN f.mem = DOMAIN tx.mem
  <2>1. \A x \in Tex : Own(x) \in DOMAIN tx.mem
    BY DEF Sound
  <2> QED
    BY <1>6, <1>8, <1>9, <1>10, <2>1 DEF Sound, S
<1>12. f.mem[a] = s /\ f.mem[a].id = id /\ s = Fresh(params, id) /\ Live(f, a)
  BY <1>2, <1>3, <1>6, <1>8 DEF Live, s
<1> QED
  BY <1>6, <1>8, <1>11, <1>12 DEF f, S

(* Several are reset.                                                      *)
LEMMA ResetTexturesFacts ==
  ASSUME NEW tx, Sound(tx), NEW R \in SUBSET DOMAIN tx.mem
  PROVE  LET f == ResetTextures(tx, R) IN
         /\ Sound(f) /\ DOMAIN f.mem = DOMAIN tx.mem /\ f.row_length = tx.row_length
         /\ \A a \in R : f.mem[a] = ZeroTexture
         /\ \A a \in DOMAIN tx.mem \ R : f.mem[a] = tx.mem[a]
<1> DEFINE S == DOMAIN tx.mem
           gone == {tx.mem[a].id : a \in R}
           mem == [a \in S |-> IF a \in R THEN ZeroTexture ELSE tx.mem[a]]
           units == [u \in Unit |-> Unbound(tx.units[u], gone)]
           images == Unbound(tx.images, gone)
           f == ResetTextures(tx, R)
<1>1. /\ tx \in TextureState /\ IsFiniteSet(tx.names) /\ S \in SUBSET Address
      /\ \A b \in S : tx.mem[b] \in Structure
      /\ tx.units \in [Unit -> [Target -> Nat]] /\ tx.images \in [ImageUnit -> Nat]
      /\ tx.names \in SUBSET (Nat \ {0})
  BY MemType DEF Sound
<1>2. f = [tx EXCEPT !.mem = mem, !.names = tx.names \ gone, !.units = units, !.images = images]
  BY <1>1 DEF ResetTextures, TextureState
<1>3. ZeroTexture \in Structure /\ ZeroTexture.id = 0
  <2>1. NoContent \in Content
    BY Zenon DEF Content
  <2>2. NoParams \in AnyParams
    BY DEF AnyParams, NoParams, Params2d
  <2> QED
    BY <2>1, <2>2 DEF ZeroTexture, Structure
<1> HIDE DEF S, f
<1>4. /\ mem \in [S -> Structure] /\ \A a \in R : mem[a] = ZeroTexture
      /\ \A a \in S \ R : mem[a] = tx.mem[a]
  BY <1>1, <1>3 DEF S
<1>5. units \in [Unit -> [Target -> Nat]] /\ images \in [ImageUnit -> Nat]
  <2>1. \A D : \A g \in [D -> Nat] : Unbound(g, gone) \in [D -> Nat]
    BY DEF Unbound
  <2> HIDE DEF gone
  <2> QED
    BY <1>1, <2>1
<1> HIDE DEF mem, units, images
<1>6. f \in TextureState /\ f.mem = mem /\ f.names = tx.names \ gone /\ f.row_length = tx.row_length
  <2>1. tx.names \ gone \in SUBSET (Nat \ {0})
    BY <1>1
  <2>2. mem \in UNION {[Z -> Structure] : Z \in SUBSET Address}
    BY <1>1, <1>4
  <2> HIDE DEF gone
  <2> QED
    BY <1>1, <1>2, <1>5, <2>1, <2>2 DEF TextureState
<1>7. IsFiniteSet(f.names)
  <2>1. f.names \in SUBSET tx.names
    BY <1>6
  <2> QED
    BY <1>1, <2>1, FS_Subset
<1>8. ASSUME NEW b \in S, NEW c \in S
      PROVE  /\ mem[b].id # 0 => mem[b].id \in f.names
             /\ mem[b].id # 0 /\ mem[b].id = mem[c].id => b = c
  <2>1. /\ \A d \in S : tx.mem[d].id # 0 => tx.mem[d].id \in tx.names
        /\ \A d, e \in S : tx.mem[d].id # 0 /\ tx.mem[d].id = tx.mem[e].id => d = e
    BY DEF Sound, S
  <2>2. \A d \in S \ R : tx.mem[d].id # 0 => tx.mem[d].id \notin gone
    BY <2>1 DEF S
  <2>3. \A d \in S : mem[d].id # 0 => d \notin R /\ mem[d] = tx.mem[d]
    BY <1>3, <1>4
  <2> QED
    BY <1>6, <2>1, <2>2, <2>3
<1>9. Sound(f) /\ DOMAIN f.mem = DOMAIN tx.mem
  <2>1. \A x \in Tex : Own(x) \in DOMAIN tx.mem
    BY DEF Sound
  <2>2. DOMAIN f.mem = S
    BY <1>4, <1>6
  <2> QED
    BY <1>6, <1>7, <1>8, <2>1, <2>2 DEF Sound, S
<1> QED
  BY <1>4, <1>6, <1>9 DEF f, S

(***************************************************************************)
(* The rows of the data                                                    *)
(***************************************************************************)
LEMMA LowestBitFacts ==
  ASSUME NEW n \in Nat
  PROVE  LowestBit(n) \in {1, 2, 4, 8} /\ UnpackStride(n, LowestBit(n)) = n
<1> DEFINE bits == {b \in {1, 2, 4, 8} : n % b = 0}
<1>1. bits \in SUBSET (1 .. 8) /\ bits # {}
  OBVIOUS
<1>2. PICK m \in bits : \A b \in bits : b <= m
  <2> HIDE DEF bits
  <2> QED
    BY <1>1, GreatestExists
<1>3. \A b \in bits : m >= b
  BY <1>1, <1>2
<1>4. LowestBit(n) \in bits
  BY <1>2, <1>3 DEF LowestBit, Max
<1> DEFINE b == LowestBit(n)
<1>5. b \in {1, 2, 4, 8} /\ n % b = 0
  BY <1>4
<1> HIDE DEF b
<1>6. CASE b = 1
  BY <1>6 DEF UnpackStride, b
<1>7. CASE b = 2
  <2>1. n % 2 = 0
    BY <1>5, <1>7
  <2>2. ((n + 2 - 1) \div 2) * 2 = n
    BY <2>1
  <2> QED
    BY <1>7, <2>2 DEF UnpackStride, b
<1>8. CASE b = 4
  <2>1. n % 4 = 0
    BY <1>5, <1>8
  <2>2. ((n + 4 - 1) \div 4) * 4 = n
    BY <2>1
  <2> QED
    BY <1>8, <2>2 DEF UnpackStride, b
<1>9. CASE b = 8
  <2>1. n % 8 = 0
    BY <1>5, <1>9
  <2>2. ((n + 8 - 1) \div 8) * 8 = n
    BY <2>1
  <2> QED
    BY <1>9, <2>2 DEF UnpackStride, b
<1> QED
  BY <1>5, <1>6, <1>7, <1>8, <1>9 DEF b

(* What is read for each row is that row of the data, whether the rows are *)
(* read one by one or at once.                                             *)
Pixels(params, linesize) == IF linesize = 0 THEN params.width ELSE linesize

LEMMA SubImageRows ==
  ASSUME NEW params \in AnyParams, NEW linesize \in Nat, NEW row_length
  PROVE  LET s == SubImage(params, linesize, row_length)
             rows == Layer(params) \X (0 .. params.height - 1)
         IN  /\ s \in [rows -> Nat] /\ rows \in SUBSET (Nat \X Nat) /\ s \in Content
             /\ \A r \in rows : s[r] = (r[1] * params.height + r[2]) * Pixels(params, linesize) * params.bytes_per_pixel
<1> DEFINE rows   == Layer(params) \X (0 .. params.height - 1)
           pixels == Pixels(params, linesize)
           bpp    == params.bytes_per_pixel
           bytes  == pixels * bpp
           h      == params.height
           skip   == IF row_length \/ pixels = params.width THEN UnpackStride(bytes, LowestBit(bytes)) ELSE bytes
           s      == SubImage(params, linesize, row_length)
<1>1. h \in Nat /\ bpp \in Nat /\ pixels \in Nat /\ params.depth \in Nat
  BY DEF AnyParams, Pixels
<1>2. Layer(params) \in SUBSET Nat
  BY <1>1 DEF Layer
<1>3. rows \in SUBSET (Nat \X Nat)
  BY <1>1, <1>2
<1>4. s = [r \in rows |-> r[1] * bytes * h + r[2] * skip]
  BY DEF SubImage, Pixels
<1> HIDE DEF h, bpp, pixels, rows, s
<1>5. bytes \in Nat
  BY <1>1
<1>6. skip = bytes
  <2> HIDE DEF bytes
  <2> QED
    BY <1>5, LowestBitFacts
<1>7. ASSUME NEW r \in rows
      PROVE  s[r] = (r[1] * h + r[2]) * pixels * bpp /\ s[r] \in Nat
  <2>1. r[1] \in Nat /\ r[2] \in Nat
    BY <1>3
  <2>2. s[r] = r[1] * bytes * h + r[2] * bytes
    BY <1>4, <1>6
  <2>3. \A a, c, d, x, y \in Nat : a * (x * y) * d + c * (x * y) = (a * d + c) * x * y /\ (a * d + c) * x * y \in Nat
    OBVIOUS
  <2> QED
    BY <1>1, <2>1, <2>2, <2>3
<1>8. s \in [rows -> Nat]
  BY <1>4, <1>7
<1>9. s \in Content
  BY <1>3, <1>8 DEF Content
<1> QED
  BY <1>3, <1>7, <1>8, <1>9 DEF h, bpp, pixels, rows, s

(***************************************************************************)
(* What the callbacks make of the structures                               *)
(***************************************************************************)
LEMMA UploadFacts ==
  ASSUME NEW tx, Sound(tx), NEW a \in DOMAIN tx.mem, NEW linesize \in Nat
  PROVE  LET f == UploadTexture(tx, a, linesize) IN
         /\ Sound(f) /\ DOMAIN f.mem = DOMAIN tx.mem /\ f.row_length = tx.row_length
         /\ \A b \in DOMAIN tx.mem \ {a} : f.mem[b] = tx.mem[b]
         /\ f.mem[a].id = tx.mem[a].id /\ f.mem[a].target = tx.mem[a].target
         /\ f.mem[a].params = tx.mem[a].params
         /\ f.mem[a].content = SubImage(tx.mem[a].params, linesize, tx.row_length)
<1> DEFINE S == DOMAIN tx.mem
           content == SubImage(tx.mem[a].params, linesize, tx.row_length)
           mem == [tx.mem EXCEPT ![a].content = content]
           e == [tx EXCEPT !.mem = mem]
           f == UploadTexture(tx, a, linesize)
<1>1. /\ tx \in TextureState /\ IsFiniteSet(tx.names) /\ S \in SUBSET Address
      /\ tx.mem = [b \in S |-> tx.mem[b]] /\ \A b \in S : tx.mem[b] \in Structure
      /\ tx.units \in [Unit -> [Target -> Nat]] /\ tx.images \in [ImageUnit -> Nat]
      /\ tx.names \in SUBSET (Nat \ {0})
  BY MemType DEF Sound
<1>2. /\ tx.mem[a] \in Structure /\ tx.mem[a].params \in AnyParams
      /\ tx.mem[a].target \in Target \union {"none"}
  BY <1>1 DEF Structure
<1>3. content \in Content
  BY <1>2, SubImageRows
<1>4. f = Bound(e, tx.mem[a].target, 0)
  <2>1. [tx EXCEPT !.mem[a].content = content] = e
    BY <1>1 DEF TextureState
  <2> QED
    BY <2>1 DEF UploadTexture
<1> HIDE DEF S, f, content
<1>5. /\ mem \in [S -> Structure] /\ DOMAIN mem = S
      /\ \A b \in S \ {a} : mem[b] = tx.mem[b]
      /\ mem[a].id = tx.mem[a].id /\ mem[a].target = tx.mem[a].target
      /\ mem[a].params = tx.mem[a].params /\ mem[a].content = content
  BY <1>1, <1>2, <1>3 DEF S, Structure
<1> HIDE DEF mem
<1>6. e \in TextureState /\ e.mem = mem /\ e.names = tx.names /\ e.row_length = tx.row_length
  <2>1. mem \in UNION {[Z -> Structure] : Z \in SUBSET Address}
    BY <1>1, <1>5
  <2> QED
    BY <1>1, <2>1 DEF e, TextureState
<1>7. f \in TextureState /\ f.mem = mem /\ f.names = tx.names /\ f.row_length = tx.row_length
  <2> HIDE DEF e
  <2>1. SameButBound(e, f)
    BY <1>2, <1>4, <1>6, BoundState
  <2> QED
    BY <1>6, <2>1 DEF SameButBound
<1>8. \A b \in S : mem[b].id = tx.mem[b].id
  BY <1>5
<1>9. Sound(f)
  BY <1>1, <1>5, <1>7, <1>8 DEF Sound, S
<1> QED
  BY <1>5, <1>7, <1>9 DEF f, S, content

LEMMA TouchFacts ==
  ASSUME NEW tx, Sound(tx), NEW a \in DOMAIN tx.mem
  PROVE  LET f == TouchTexture(tx, a) IN
         Sound(f) /\ f.mem = tx.mem /\ f.row_length = tx.row_length
<1>1. tx \in TextureState /\ tx.mem[a].target \in Target \union {"none"}
  BY MemType DEF Sound, Structure
<1>2. SameButBound(tx, TouchTexture(tx, a))
  BY <1>1, BoundState DEF TouchTexture
<1> HIDE DEF TouchTexture
<1> QED
  BY <1>2 DEF Sound, SameButBound

(* Structures that GL knows nothing of are freed or allocated.             *)
LEMMA MemChanged ==
  ASSUME NEW tx, Sound(tx), NEW mem, NEW D \in SUBSET Address, mem \in [D -> Structure],
         \A x \in Tex : Own(x) \in D,
         \A a \in D : mem[a].id # 0 => a \in DOMAIN tx.mem /\ mem[a].id = tx.mem[a].id
  PROVE  LET f == [tx EXCEPT !.mem = mem] IN
         Sound(f) /\ f.mem = mem /\ f.names = tx.names /\ f.row_length = tx.row_length
<1>1. mem \in UNION {[Z -> Structure] : Z \in SUBSET Address} /\ DOMAIN mem = D
  OBVIOUS
<1>2. [tx EXCEPT !.mem = mem] \in TextureState
  BY <1>1 DEF Sound, TextureState
<1>3. /\ [tx EXCEPT !.mem = mem].mem = mem /\ [tx EXCEPT !.mem = mem].names = tx.names
      /\ [tx EXCEPT !.mem = mem].row_length = tx.row_length
  BY DEF Sound, TextureState
<1> QED
  BY <1>1, <1>2, <1>3 DEF Sound

LEMMA FreePlanesFacts ==
  ASSUME NEW tx, Sound(tx), NEW x \in Tex
  PROVE  LET f == FreePlanes(tx, x) IN
         /\ Sound(f) /\ DOMAIN f.mem = DOMAIN tx.mem \ Private(x) /\ f.row_length = tx.row_length
         /\ \A a \in DOMAIN tx.mem \ Private(x) : f.mem[a] = tx.mem[a]
<1> DEFINE gone == Private(x) \intersect DOMAIN tx.mem
           r == ResetTextures(tx, gone)
           D == DOMAIN r.mem \ gone
<1>1. gone \in SUBSET DOMAIN tx.mem
  OBVIOUS
<1>2. /\ Sound(r) /\ DOMAIN r.mem = DOMAIN tx.mem /\ r.row_length = tx.row_length
      /\ \A a \in DOMAIN tx.mem \ gone : r.mem[a] = tx.mem[a]
  BY <1>1, ResetTexturesFacts
<1> HIDE DEF r
<1>3. /\ D \in SUBSET Address /\ Restrict(r.mem, D) \in [D -> Structure]
      /\ \A a \in D : Restrict(r.mem, D)[a] = r.mem[a]
  BY <1>2, MemType DEF Sound, Restrict
<1>4. \A y \in Tex : Own(y) \in D
  <2>1. \A y \in Tex : Own(y) \in DOMAIN tx.mem
    BY DEF Sound
  <2>2. \A y \in Tex : Own(y) \notin Private(x)
    BY DEF Own, Private
  <2> QED
    BY <1>2, <2>1, <2>2
<1>5. \A a \in D : Restrict(r.mem, D)[a].id # 0 => a \in DOMAIN r.mem /\ Restrict(r.mem, D)[a].id = r.mem[a].id
  BY <1>3
<1>6. FreePlanes(tx, x) = [r EXCEPT !.mem = Restrict(r.mem, D)]
  BY DEF FreePlanes, r
<1> HIDE DEF D
<1>7. /\ Sound(FreePlanes(tx, x)) /\ FreePlanes(tx, x).mem = Restrict(r.mem, D)
      /\ FreePlanes(tx, x).row_length = r.row_length
  BY <1>2, <1>3, <1>4, <1>5, <1>6, MemChanged
<1>8. D = DOMAIN tx.mem \ Private(x)
  BY <1>2 DEF D
<1> QED
  BY <1>2, <1>3, <1>7, <1>8

LEMMA ZeroFacts == ZeroTexture \in Structure /\ ZeroTexture.id = 0
<1>1. NoContent \in Content
  BY Zenon DEF Content
<1>2. NoParams \in AnyParams
  BY DEF AnyParams, NoParams, Params2d
<1> QED
  BY <1>1, <1>2 DEF ZeroTexture, Structure

LEMMA NewPlaneFacts ==
  ASSUME NEW tx, Sound(tx), NEW a \in Address
  PROVE  LET f == NewPlane(tx, a) IN
         /\ Sound(f) /\ DOMAIN f.mem = DOMAIN tx.mem \union {a} /\ f.row_length = tx.row_length
         /\ Live(f, a)
         /\ \A b \in DOMAIN tx.mem \ {a} : f.mem[b] = tx.mem[b]
<1> DEFINE D == DOMAIN tx.mem \union {a}
           mem == [b \in D |-> IF b = a THEN ZeroTexture ELSE tx.mem[b]]
           e == [tx EXCEPT !.mem = mem]
<1>1. /\ D \in SUBSET Address /\ mem \in [D -> Structure]
      /\ \A b \in DOMAIN tx.mem \ {a} : mem[b] = tx.mem[b]
      /\ mem[a] = ZeroTexture
  BY MemType, ZeroFacts DEF Sound
<1>2. \A x \in Tex : Own(x) \in D
  BY DEF Sound
<1>3. \A b \in D : mem[b].id # 0 => b \in DOMAIN tx.mem /\ mem[b].id = tx.mem[b].id
  BY <1>1, ZeroFacts
<1> HIDE DEF mem
<1>4. Sound(e) /\ e.mem = mem /\ e.row_length = tx.row_length /\ DOMAIN e.mem = D
  BY <1>1, <1>2, <1>3, MemChanged
<1>5. NewPlane(tx, a) = InitTexture(e, a, External2d)
  BY DEF NewPlane, e, mem
<1>6. External2d \in AnyParams
  BY DEF External2d, Params2d, AnyParams
<1> HIDE DEF e
<1>7. a \in DOMAIN e.mem
  BY <1>4
<1> DEFINE f == InitTexture(e, a, External2d)
<1>8. /\ Sound(f) /\ DOMAIN f.mem = DOMAIN e.mem /\ f.row_length = e.row_length
      /\ Live(f, a) /\ \A b \in DOMAIN e.mem \ {a} : f.mem[b] = e.mem[b]
  BY <1>4, <1>6, <1>7, InitTextureFacts
<1> HIDE DEF f
<1>9. \A b \in DOMAIN tx.mem \ {a} : f.mem[b] = tx.mem[b]
  BY <1>1, <1>4, <1>8
<1> QED
  BY <1>4, <1>5, <1>8, <1>9 DEF f

(* A class gives the image of its frames live planes.                      *)
Planes(x, layout) == IF layout = "default" THEN {Own(x)} ELSE Private(x)

LEMMA ClassInitFacts ==
  ASSUME NEW tx, Sound(tx), NEW x \in Tex, NEW f \in Frames
  PROVE  LET c == ClassInit(tx, x, f) IN
         /\ Sound(c) /\ c.row_length = tx.row_length
         /\ DOMAIN c.mem = DOMAIN tx.mem \union Planes(x, f.layout)
         /\ \A a \in Planes(x, f.layout) : Live(c, a)
         /\ \A a \in DOMAIN tx.mem \ Planes(x, f.layout) : c.mem[a] = tx.mem[a]
         /\ f.layout = "default" => c.mem[Own(x)].content = NoContent
<1>1. f.layout \in {"default", "nv12"} /\ f.width \in Nat /\ f.height \in Nat
  BY PipelinesAssumption DEF MediaFrame
<1>2. Own(x) \in DOMAIN tx.mem /\ <<x, 1>> \in Address /\ <<x, 2>> \in Address
  BY DEF Sound, Address
<1>3. CASE f.layout = "default"
  <2>1. Params2d(f.width, f.height, 4) \in AnyParams
    BY <1>1 DEF Params2d, AnyParams
  <2> DEFINE c == InitTexture(tx, Own(x), Params2d(f.width, f.height, 4))
  <2>2. /\ Sound(c) /\ DOMAIN c.mem = DOMAIN tx.mem /\ c.row_length = tx.row_length
        /\ Live(c, Own(x)) /\ \A b \in DOMAIN tx.mem \ {Own(x)} : c.mem[b] = tx.mem[b]
        /\ c.mem[Own(x)] = Fresh(Params2d(f.width, f.height, 4), c.mem[Own(x)].id)
    BY <1>2, <2>1, InitTextureFacts
  <2>3. Planes(x, f.layout) = {Own(x)}
    BY <1>3 DEF Planes
  <2>4. ClassInit(tx, x, f) = c
    BY <1>3 DEF ClassInit
  <2> HIDE DEF c
  <2>5. c.mem[Own(x)].content = NoContent
    BY <2>2 DEF Fresh
  <2> QED
    BY <1>2, <2>2, <2>3, <2>4, <2>5
<1>4. CASE f.layout = "nv12"
  <2> DEFINE one == NewPlane(tx, <<x, 1>>)
             two == NewPlane(one, <<x, 2>>)
  <2>1. /\ Sound(one) /\ DOMAIN one.mem = DOMAIN tx.mem \union {<<x, 1>>} /\ one.row_length = tx.row_length
        /\ Live(one, <<x, 1>>)
        /\ \A b \in DOMAIN tx.mem \ {<<x, 1>>} : one.mem[b] = tx.mem[b]
    BY <1>2, NewPlaneFacts
  <2> HIDE DEF one
  <2>2. /\ Sound(two) /\ DOMAIN two.mem = DOMAIN one.mem \union {<<x, 2>>} /\ two.row_length = one.row_length
        /\ Live(two, <<x, 2>>)
        /\ \A b \in DOMAIN one.mem \ {<<x, 2>>} : two.mem[b] = one.mem[b]
    BY <1>2, <2>1, NewPlaneFacts
  <2> HIDE DEF two
  <2>3. two = ClassInit(tx, x, f) /\ f.layout # "default"
    BY <1>4 DEF ClassInit, one, two
  <2>4. Planes(x, f.layout) = {<<x, 1>>, <<x, 2>>}
    BY <2>3 DEF Planes, Private
  <2>5. Live(two, <<x, 1>>)
    BY <2>1, <2>2 DEF Live
  <2> QED
    BY <2>1, <2>2, <2>3, <2>4, <2>5
<1> QED
  BY <1>1, <1>3, <1>4

LEMMA ReleasedFacts ==
  ASSUME NEW tx, Sound(tx)
  PROVE  /\ Sound(Released(tx)) /\ Released(tx).row_length = tx.row_length
         /\ \A x \in Tex : Released(tx).mem[Own(x)] = ZeroTexture
<1> DEFINE r == ResetTextures(tx, DOMAIN tx.mem)
           D == {Own(x) : x \in Tex}
<1>1. /\ Sound(r) /\ DOMAIN r.mem = DOMAIN tx.mem /\ r.row_length = tx.row_length
      /\ \A a \in DOMAIN tx.mem : r.mem[a] = ZeroTexture
  BY ResetTexturesFacts
<1> HIDE DEF r
<1>2. D \in SUBSET DOMAIN r.mem
  BY <1>1 DEF Sound
<1>3. /\ D \in SUBSET Address /\ Restrict(r.mem, D) \in [D -> Structure]
      /\ \A a \in D : Restrict(r.mem, D)[a] = r.mem[a]
  BY <1>1, <1>2, MemType DEF Sound, Restrict
<1>4. \A a \in D : Restrict(r.mem, D)[a].id # 0 => a \in DOMAIN r.mem /\ Restrict(r.mem, D)[a].id = r.mem[a].id
  BY <1>2, <1>3
<1>5. Released(tx) = [r EXCEPT !.mem = Restrict(r.mem, D)]
  BY DEF Released, r
<1>6. \A x \in Tex : Own(x) \in D
  OBVIOUS
<1> HIDE DEF D
<1>7. /\ Sound(Released(tx)) /\ Released(tx).mem = Restrict(r.mem, D)
      /\ Released(tx).row_length = r.row_length
  BY <1>1, <1>3, <1>4, <1>5, <1>6, MemChanged
<1> QED
  BY <1>1, <1>2, <1>3, <1>6, <1>7

(***************************************************************************)
(* The textures of the scene                                               *)
(***************************************************************************)
RowsFit(s, pixels) ==
  s.content # NoContent =>
    \A r \in DOMAIN s.content :
      s.content[r] = (r[1] * s.params.height + r[2]) * pixels * s.params.bytes_per_pixel

PlanesOf(x, layout) == IF layout = "default" THEN <<Own(x)>> ELSE <<<<x, 1>>, <<x, 2>>>>

(* The image of a texture has its own structures as planes, and GL has     *)
(* them; a texture that is not prefetched has none.                        *)
Fits(tx, is_ready, img, class, pixels, x) ==
  /\ ~is_ready => img.layout = "none" /\ class = "none"
  /\ img.layout # "none" =>
       img.planes = PlanesOf(x, img.layout) /\ \A a \in Planes(x, img.layout) : Live(tx, a)
  /\ class \in {"none", img.layout}
  /\ RowsFit(tx.mem[Own(x)], pixels)

Kind == [layout : {"none", "default", "nv12"}, width : Nat, height : Nat]

TexturesInv ==
  /\ Sound(t) /\ ready \in SUBSET Tex
  /\ image \in [Tex -> Images] /\ mapped \in [Tex -> Kind] /\ stride \in [Tex -> Nat]
  /\ \A x \in Tex : Fits(t, x \in ready, image[x], mapped[x].layout, stride[x], x)

(* What a step on one texture leaves of another one.                       *)
Kept(tx, f, x) ==
  \A a \in ({Own(x)} \union Private(x)) \intersect DOMAIN tx.mem : a \in DOMAIN f.mem /\ f.mem[a] = tx.mem[a]

LEMMA KeptFits ==
  ASSUME NEW tx, Sound(tx), NEW f, NEW x \in Tex, Kept(tx, f, x),
         NEW is_ready, NEW img \in Images, NEW class, NEW pixels, Fits(tx, is_ready, img, class, pixels, x)
  PROVE  Fits(f, is_ready, img, class, pixels, x)
<1>1. f.mem[Own(x)] = tx.mem[Own(x)]
  BY DEF Kept, Sound
<1>2. \A layout : \A a \in Planes(x, layout) : Live(tx, a) => Live(f, a)
  BY DEF Planes, Live, Kept
<1> QED
  BY <1>1, <1>2 DEF Fits

LEMMA OneTexture ==
  ASSUME TexturesInv, NEW x \in Tex, Sound(t'), \A y \in Tex \ {x} : Kept(t, t', y),
         ready' \in SUBSET Tex, \A y \in Tex \ {x} : y \in ready' <=> y \in ready,
         NEW img \in Images, image' = [image EXCEPT ![x] = img],
         NEW kind \in Kind, mapped' = [mapped EXCEPT ![x] = kind],
         NEW pixels \in Nat, stride' = [stride EXCEPT ![x] = pixels],
         Fits(t', x \in ready', img, kind.layout, pixels, x)
  PROVE  TexturesInv'
<1>1. image' \in [Tex -> Images] /\ mapped' \in [Tex -> Kind] /\ stride' \in [Tex -> Nat]
  BY DEF TexturesInv
<1>2. ASSUME NEW y \in Tex
      PROVE  Fits(t', y \in ready', image'[y], mapped'[y].layout, stride'[y], y)
  <2>1. CASE y = x
    BY <2>1 DEF TexturesInv
  <2>2. CASE y # x
    <3>1. /\ image'[y] = image[y] /\ mapped'[y] = mapped[y] /\ stride'[y] = stride[y]
          /\ (y \in ready') = (y \in ready)
      BY <2>2 DEF TexturesInv
    <3>2. Fits(t, y \in ready, image[y], mapped[y].layout, stride[y], y)
      BY DEF TexturesInv
    <3>3. Sound(t) /\ image[y] \in Images /\ Kept(t, t', y)
      BY <2>2 DEF TexturesInv
    <3>4. Fits(t', y \in ready, image[y], mapped[y].layout, stride[y], y)
      BY <3>2, <3>3, KeptFits
    <3> QED
      BY <3>1, <3>4
  <2> QED
    BY <2>1, <2>2
<1> QED
  BY <1>1, <1>2 DEF TexturesInv

(* What is left of the others when the structures of one texture change.   *)
LEMMA OthersKept ==
  ASSUME NEW tx, NEW f, NEW x \in Tex,
         \A a \in DOMAIN tx.mem \ ({Own(x)} \union Private(x)) : a \in DOMAIN f.mem /\ f.mem[a] = tx.mem[a]
  PROVE  \A y \in Tex \ {x} : Kept(tx, f, y)
<1>1. \A y \in Tex \ {x} : \A a \in {Own(y)} \union Private(y) : a \notin {Own(x)} \union Private(x)
  BY DEF Own, Private
<1> QED
  BY <1>1 DEF Kept

LEMMA FittedType ==
  ASSUME NEW x \in Tex
  PROVE  Fitted(x) \in AnyParams /\ Fitted(x).width \in Nat /\ SizeOf(Fitted(x)) \in Size
<1>1. TexParams[x] \in ParamsType /\ DataCount[x] \in Nat
  BY PipelinesAssumption
<1>2. \A d \in Nat : [TexParams[x] EXCEPT !.width = DataCount[x], !.height = 1, !.depth = d] \in AnyParams
  BY <1>1 DEF ParamsType, AnyParams
<1>3. TexParams[x] \in AnyParams
  BY <1>1 DEF ParamsType, AnyParams
<1>4. Fitted(x) \in AnyParams
  BY <1>2, <1>3 DEF Fitted
<1> QED
  BY <1>4 DEF AnyParams, SizeOf, Size

LEMMA ImageFacts ==
  ASSUME NEW x \in Tex, NEW size \in Size
  PROVE  /\ ImageOf("default", <<Own(x)>>, size) \in Images
         /\ ImageOf("nv12", <<<<x, 1>>, <<x, 2>>>>, size) \in Images
         /\ NoImage \in Images /\ NoImage.layout = "none"
<1>1. Own(x) \in Address /\ <<x, 1>> \in Address /\ <<x, 2>> \in Address
  BY DEF Own, Address
<1>2. <<Own(x)>> \in {<<a>> : a \in Address}
  BY <1>1
<1>3. <<<<x, 1>>, <<x, 2>>>> \in {<<a, b>> : a \in Address, b \in Address}
  BY <1>1
<1> QED
  BY <1>2, <1>3 DEF ImageOf, NoImage, Images, Size

LEMMA UploadRows ==
  ASSUME NEW tx, Sound(tx), NEW a \in DOMAIN tx.mem, NEW linesize \in Nat
  PROVE  RowsFit(UploadTexture(tx, a, linesize).mem[a], Pixels(tx.mem[a].params, linesize))
<1> DEFINE f == UploadTexture(tx, a, linesize)
           params == tx.mem[a].params
<1>1. f.mem[a].params = params /\ f.mem[a].content = SubImage(params, linesize, tx.row_length)
  BY UploadFacts
<1>2. params \in AnyParams
  BY MemType DEF Sound, Structure
<1> HIDE DEF f, params
<1>3. LET rows == Layer(params) \X (0 .. params.height - 1) IN
      /\ DOMAIN SubImage(params, linesize, tx.row_length) = rows
      /\ \A r \in rows : SubImage(params, linesize, tx.row_length)[r] =
                           (r[1] * params.height + r[2]) * Pixels(params, linesize) * params.bytes_per_pixel
  BY <1>2, SubImageRows
<1> QED
  BY <1>1, <1>3 DEF RowsFit, f, params

LEMMA PrefetchKeepsTextures ==
  ASSUME TexturesInv, NEW x \in Tex, Prefetch(x)
  PROVE  TexturesInv'
<1> DEFINE p     == Fitted(x)
           made  == InitTexture(t, Own(x), p)
           given == IF Source[x] \in {"buffer", "animated"}
                      THEN UploadTexture(made, Own(x), 0) ELSE TouchTexture(made, Own(x))
<1>1. p \in AnyParams /\ p.width \in Nat /\ SizeOf(p) \in Size
  BY FittedType
<1>2. Own(x) \in DOMAIN t.mem
  BY DEF TexturesInv, Sound
<1>3. /\ Sound(made) /\ DOMAIN made.mem = DOMAIN t.mem /\ made.mem[Own(x)] = Fresh(p, made.mem[Own(x)].id)
      /\ Live(made, Own(x)) /\ \A b \in DOMAIN t.mem \ {Own(x)} : made.mem[b] = t.mem[b]
  BY <1>1, <1>2, InitTextureFacts DEF TexturesInv
<1>4. made.mem[Own(x)].params = p /\ made.mem[Own(x)].content = NoContent
  BY <1>3 DEF Fresh
<1>5. /\ ready \in SUBSET Tex /\ mapped' = mapped /\ image[x] \in Images /\ mapped[x] \in Kind
      /\ stride[x] \in Nat /\ x \notin ready
      /\ image = [image EXCEPT ![x] = image[x]] /\ mapped = [mapped EXCEPT ![x] = mapped[x]]
      /\ stride = [stride EXCEPT ![x] = stride[x]]
  BY DEF Prefetch, TexturesInv
<1>6. Fits(t, x \in ready, image[x], mapped[x].layout, stride[x], x)
  BY DEF TexturesInv
<1>7. image[x].layout = "none" /\ mapped[x].layout = "none" /\ RowsFit(t.mem[Own(x)], stride[x])
  BY <1>5, <1>6 DEF Fits
<1> HIDE DEF p, made
<1>8. CASE Source[x] = "media"
  <2>1. ready' = ready \union {x} /\ t' = t /\ image' = image /\ stride' = stride
    BY <1>8 DEF Prefetch
  <2>2. Fits(t', x \in ready', image[x], mapped[x].layout, stride[x], x)
    BY <1>7, <2>1 DEF Fits
  <2>3. Sound(t') /\ \A y \in Tex \ {x} : Kept(t, t', y)
    BY <2>1 DEF TexturesInv, Kept
  <2> QED
    BY <1>5, <2>1, <2>2, <2>3, OneTexture
<1>9. CASE Source[x] # "media" /\ HasStorage(p)
  <2> DEFINE img == ImageOf("default", <<Own(x)>>, SizeOf(p))
  <2>1. /\ ready' = ready \union {x} /\ t' = given /\ image' = [image EXCEPT ![x] = img]
        /\ stride' = [stride EXCEPT ![x] = p.width]
    BY <1>9 DEF Prefetch, p, made
  <2>2. /\ Sound(given) /\ DOMAIN given.mem = DOMAIN t.mem /\ Live(given, Own(x))
        /\ \A b \in DOMAIN t.mem \ {Own(x)} : given.mem[b] = t.mem[b]
        /\ RowsFit(given.mem[Own(x)], p.width)
    <3>1. CASE Source[x] \in {"buffer", "animated"}
      <4>1. Pixels(made.mem[Own(x)].params, 0) = p.width
        BY <1>4 DEF Pixels
      <4>2. given = UploadTexture(made, Own(x), 0)
        BY <3>1
      <4> HIDE DEF given
      <4>3. RowsFit(given.mem[Own(x)], p.width)
        BY <1>2, <1>3, <4>1, <4>2, UploadRows
      <4>4. /\ Sound(given) /\ DOMAIN given.mem = DOMAIN made.mem
            /\ \A b \in DOMAIN made.mem \ {Own(x)} : given.mem[b] = made.mem[b]
            /\ given.mem[Own(x)].id = made.mem[Own(x)].id
            /\ given.mem[Own(x)].target = made.mem[Own(x)].target
        BY <1>2, <1>3, <4>2, UploadFacts
      <4> QED
        BY <1>2, <1>3, <4>3, <4>4 DEF Live
    <3>2. CASE Source[x] \notin {"buffer", "animated"}
      <4>1. given = TouchTexture(made, Own(x))
        BY <3>2
      <4> HIDE DEF given
      <4>2. Sound(given) /\ given.mem = made.mem
        BY <1>2, <1>3, <4>1, TouchFacts
      <4> QED
        BY <1>2, <1>3, <1>4, <4>2 DEF Live, RowsFit
    <3> QED
      BY <3>1, <3>2
  <2> HIDE DEF given
  <2>3. img \in Images /\ img.layout = "default" /\ img.planes = <<Own(x)>>
    BY <1>1, ImageFacts DEF ImageOf
  <2> HIDE DEF img
  <2>4. Fits(t', x \in ready', img, mapped[x].layout, p.width, x)
    BY <1>7, <2>1, <2>2, <2>3 DEF Fits, PlanesOf, Planes
  <2>5. \A y \in Tex \ {x} : Kept(t, t', y)
    BY <2>1, <2>2, OthersKept
  <2> QED
    BY <1>1, <1>5, <2>1, <2>2, <2>3, <2>4, <2>5, OneTexture
<1>10. CASE Source[x] # "media" /\ ~HasStorage(p)
  <2> DEFINE f == ResetTextures(made, {Own(x)})
  <2>1. ready' = ready /\ t' = f /\ image' = image /\ stride' = stride
    BY <1>10 DEF Prefetch, p, made
  <2>2. /\ Sound(f) /\ DOMAIN f.mem = DOMAIN made.mem /\ f.mem[Own(x)] = ZeroTexture
        /\ \A a \in DOMAIN made.mem \ {Own(x)} : f.mem[a] = made.mem[a]
    BY <1>2, <1>3, ResetTexturesFacts
  <2> HIDE DEF f
  <2>3. RowsFit(f.mem[Own(x)], stride[x])
    BY <2>2 DEF RowsFit, ZeroTexture
  <2>4. Fits(t', x \in ready', image[x], mapped[x].layout, stride[x], x)
    BY <1>7, <2>1, <2>3 DEF Fits
  <2>5. \A y \in Tex \ {x} : Kept(t, t', y)
    BY <1>3, <2>1, <2>2, OthersKept
  <2> QED
    BY <1>5, <2>1, <2>2, <2>4, <2>5, OneTexture
<1> QED
  BY <1>8, <1>9, <1>10

LEMMA ReleaseKeepsTextures ==
  ASSUME TexturesInv, NEW x \in Tex, ReleaseTexture(x)
  PROVE  TexturesInv'
<1> DEFINE free == FreePlanes(t, x)
           f == ResetTextures(free, {Own(x)})
<1>1. /\ ready' = ready \ {x} /\ t' = f /\ image' = [image EXCEPT ![x] = NoImage]
      /\ mapped' = [mapped EXCEPT ![x] = NotMapped] /\ stride' = [stride EXCEPT ![x] = 0]
  BY DEF ReleaseTexture
<1>2. /\ Sound(free) /\ DOMAIN free.mem = DOMAIN t.mem \ Private(x)
      /\ \A a \in DOMAIN t.mem \ Private(x) : free.mem[a] = t.mem[a]
  BY FreePlanesFacts DEF TexturesInv
<1> HIDE DEF free
<1>3. {Own(x)} \in SUBSET DOMAIN free.mem
  BY <1>2 DEF Sound
<1>4. /\ Sound(f) /\ DOMAIN f.mem = DOMAIN free.mem /\ f.mem[Own(x)] = ZeroTexture
      /\ \A a \in DOMAIN free.mem \ {Own(x)} : f.mem[a] = free.mem[a]
  BY <1>2, <1>3, ResetTexturesFacts
<1> HIDE DEF f
<1>5. NotMapped \in Kind /\ NotMapped.layout = "none" /\ NoImage \in Images /\ NoImage.layout = "none"
  <2>1. <<0, 0, 0>> \in Size
    BY DEF Size
  <2> QED
    BY <2>1, ImageFacts DEF NotMapped, Kind
<1>6. Fits(t', x \in ready', NoImage, NotMapped.layout, 0, x)
  <2>1. RowsFit(f.mem[Own(x)], 0)
    BY <1>4 DEF RowsFit, ZeroTexture
  <2> QED
    BY <1>1, <1>5, <2>1 DEF Fits
<1>7. \A y \in Tex \ {x} : Kept(t, t', y)
  BY <1>1, <1>2, <1>4, OthersKept
<1>8. ready' \in SUBSET Tex /\ \A y \in Tex \ {x} : y \in ready' <=> y \in ready
  BY <1>1 DEF TexturesInv
<1> QED
  BY <1>1, <1>4, <1>5, <1>6, <1>7, <1>8, OneTexture

LEMMA UploadFrameKeepsTextures ==
  ASSUME TexturesInv, NEW x \in ready, NEW f \in Frames, UploadFrame(x, f), ready' = ready
  PROVE  TexturesInv'
<1> DEFINE kind  == [layout |-> f.layout, width |-> f.width, height |-> f.height]
           inits == mapped[x] # kind
           free  == FreePlanes(t, x)
           set   == IF inits THEN ClassInit(free, x, f) ELSE t
           img   == ImageOfFrame(x, f)
           pixels == IF f.layout = "default" THEN f.linesize ELSE stride[x]
           mine  == {Own(x)} \union Private(x)
<1>1. /\ t' = IF f.layout = "default" THEN UploadTexture(set, Own(x), f.linesize) ELSE set
      /\ mapped' = [mapped EXCEPT ![x] = kind]
      /\ image' = [image EXCEPT ![x] = img]
      /\ stride' = [stride EXCEPT ![x] = IF f.layout = "default" THEN f.linesize ELSE @]
  BY DEF UploadFrame
<1>2. /\ f.layout \in {"default", "nv12"} /\ f.width \in Nat /\ f.height \in Nat
      /\ f.linesize \in Nat \ {0} /\ x \in Tex
  BY PipelinesAssumption DEF MediaFrame, TexturesInv
<1>3. /\ kind \in Kind /\ kind.layout = f.layout /\ pixels \in Nat
      /\ stride' = [stride EXCEPT ![x] = pixels]
  BY <1>1, <1>2 DEF Kind, TexturesInv
<1>4. img \in Images /\ img.layout = f.layout /\ img.planes = PlanesOf(x, f.layout)
  <2>1. <<f.width, f.height, 0>> \in Size
    BY <1>2 DEF Size
  <2> QED
    BY <1>2, <2>1, ImageFacts DEF ImageOfFrame, ImageOf, PlanesOf
<1>5. Fits(t, x \in ready, image[x], mapped[x].layout, stride[x], x)
  BY <1>2 DEF TexturesInv
<1>6. /\ Sound(set) /\ \A a \in Planes(x, f.layout) : Live(set, a)
      /\ \A a \in DOMAIN t.mem \ mine : a \in DOMAIN set.mem /\ set.mem[a] = t.mem[a]
      /\ f.layout # "default" => RowsFit(set.mem[Own(x)], stride[x])
  <2>1. CASE inits
    <3>1. /\ Sound(free) /\ DOMAIN free.mem = DOMAIN t.mem \ Private(x)
          /\ \A a \in DOMAIN t.mem \ Private(x) : free.mem[a] = t.mem[a]
      BY <1>2, FreePlanesFacts DEF TexturesInv
    <3> HIDE DEF free
    <3>2. set = ClassInit(free, x, f)
      BY <2>1
    <3> HIDE DEF set
    <3>3. /\ Sound(set) /\ DOMAIN set.mem = DOMAIN free.mem \union Planes(x, f.layout)
          /\ \A a \in Planes(x, f.layout) : Live(set, a)
          /\ \A a \in DOMAIN free.mem \ Planes(x, f.layout) : set.mem[a] = free.mem[a]
      BY <1>2, <3>1, <3>2, ClassInitFacts
    <3>4. Planes(x, f.layout) \in SUBSET mine
      BY DEF Planes
    <3>5. ASSUME f.layout # "default"
          PROVE  RowsFit(set.mem[Own(x)], stride[x])
      <4>1. Own(x) \notin Planes(x, f.layout) /\ Own(x) \notin Private(x)
        BY <3>5 DEF Planes, Own, Private
      <4>2. Own(x) \in DOMAIN t.mem
        BY <1>2 DEF TexturesInv, Sound
      <4>3. set.mem[Own(x)] = t.mem[Own(x)]
        BY <3>1, <3>3, <4>1, <4>2
      <4> QED
        BY <1>5, <4>3 DEF Fits
    <3> QED
      BY <3>1, <3>3, <3>4, <3>5
  <2>2. CASE ~inits
    <3>1. set = t /\ mapped[x].layout = f.layout
      BY <2>2, <1>3
    <3>2. image[x].layout = f.layout /\ f.layout # "none"
      BY <1>2, <1>5, <3>1 DEF Fits
    <3>3. Sound(t) /\ RowsFit(t.mem[Own(x)], stride[x]) /\ \A a \in Planes(x, f.layout) : Live(t, a)
      BY <1>5, <3>2 DEF Fits, TexturesInv
    <3> HIDE DEF set
    <3> QED
      BY <3>1, <3>3
  <2> QED
    BY <2>1, <2>2
<1> HIDE DEF set
<1>7. /\ Sound(t') /\ \A a \in Planes(x, f.layout) : Live(t', a)
      /\ \A a \in DOMAIN t.mem \ mine : a \in DOMAIN t'.mem /\ t'.mem[a] = t.mem[a]
      /\ RowsFit(t'.mem[Own(x)], pixels)
  <2>1. CASE f.layout = "default"
    <3>1. t' = UploadTexture(set, Own(x), f.linesize) /\ pixels = f.linesize /\ Planes(x, f.layout) = {Own(x)}
      BY <1>1, <2>1 DEF Planes
    <3>2. Own(x) \in DOMAIN set.mem
      BY <1>2, <1>6 DEF Sound
    <3>3. /\ Sound(t') /\ DOMAIN t'.mem = DOMAIN set.mem
          /\ \A b \in DOMAIN set.mem \ {Own(x)} : t'.mem[b] = set.mem[b]
          /\ t'.mem[Own(x)].id = set.mem[Own(x)].id /\ t'.mem[Own(x)].target = set.mem[Own(x)].target
      BY <1>2, <1>6, <3>1, <3>2, UploadFacts
    <3>4. RowsFit(t'.mem[Own(x)], Pixels(set.mem[Own(x)].params, f.linesize))
      BY <1>2, <1>6, <3>1, <3>2, UploadRows
    <3>5. Pixels(set.mem[Own(x)].params, f.linesize) = pixels
      BY <1>2, <3>1 DEF Pixels
    <3> QED
      BY <1>6, <3>1, <3>2, <3>3, <3>4, <3>5 DEF Live
  <2>2. CASE f.layout # "default"
    <3>1. t' = set /\ pixels = stride[x]
      BY <1>1, <2>2
    <3> QED
      BY <1>6, <2>2, <3>1
  <2> QED
    BY <2>1, <2>2
<1>8. Fits(t', x \in ready', img, kind.layout, pixels, x)
  <2>1. f.layout # "none" /\ x \in ready'
    BY <1>2
  <2> HIDE DEF img, kind, pixels
  <2> QED
    BY <1>3, <1>4, <1>7, <2>1 DEF Fits
<1>9. \A y \in Tex \ {x} : Kept(t, t', y)
  BY <1>2, <1>7, OthersKept
<1> HIDE DEF img, kind, pixels
<1>10. ready' \in SUBSET Tex
  BY DEF TexturesInv
<1> QED
  BY <1>1, <1>2, <1>3, <1>4, <1>7, <1>8, <1>9, <1>10, OneTexture

LEMMA UpdateKeepsTextures ==
  ASSUME TexturesInv, NEW x \in Tex, UpdateTexture(x)
  PROVE  TexturesInv'
<1>1. x \in ready /\ ready' = ready
  BY DEF UpdateTexture
<1>2. ASSUME NEW f \in Frames, UploadFrame(x, f)
      PROVE  TexturesInv'
  BY <1>1, <1>2, UploadFrameKeepsTextures
<1>3. ASSUME /\ t' = UploadTexture(t, Own(x), 0)
             /\ stride' = [stride EXCEPT ![x] = t.mem[Own(x)].params.width]
             /\ UNCHANGED <<image, mapped>>
      PROVE  TexturesInv'
  <2> DEFINE s == t.mem[Own(x)]
             f == UploadTexture(t, Own(x), 0)
  <2>1. Own(x) \in DOMAIN t.mem /\ Sound(t)
    BY DEF TexturesInv, Sound
  <2>2. s \in Structure
    BY <2>1, MemType DEF Sound
  <2>3. s.params.width \in Nat /\ Pixels(s.params, 0) = s.params.width
    BY <2>2 DEF Structure, AnyParams, Pixels
  <2>4. /\ Sound(f) /\ DOMAIN f.mem = DOMAIN t.mem
        /\ \A b \in DOMAIN t.mem \ {Own(x)} : f.mem[b] = t.mem[b]
        /\ f.mem[Own(x)].id = s.id /\ f.mem[Own(x)].target = s.target
    BY <2>1, UploadFacts
  <2>5. RowsFit(f.mem[Own(x)], s.params.width)
    BY <2>1, <2>3, UploadRows
  <2> HIDE DEF f
  <2>6. \A a : Live(t, a) => Live(f, a)
    BY <2>4 DEF Live
  <2>7. /\ Fits(t, x \in ready, image[x], mapped[x].layout, stride[x], x)
        /\ image[x] \in Images /\ mapped[x] \in Kind
        /\ image' = [image EXCEPT ![x] = image[x]] /\ mapped' = [mapped EXCEPT ![x] = mapped[x]]
        /\ ready \in SUBSET Tex
    BY <1>3 DEF TexturesInv
  <2>8. t' = f
    BY <1>3 DEF f
  <2>9. Fits(t', x \in ready', image[x], mapped[x].layout, s.params.width, x)
    BY <1>1, <2>5, <2>6, <2>7, <2>8 DEF Fits
  <2>10. \A y \in Tex \ {x} : Kept(t, t', y)
    BY <2>4, <2>8, OthersKept
  <2>11. stride' = [stride EXCEPT ![x] = s.params.width]
    BY <1>3
  <2> HIDE DEF s
  <2> QED
    BY <1>1, <2>3, <2>4, <2>7, <2>8, <2>9, <2>10, <2>11, OneTexture
<1>4. ASSUME UNCHANGED <<t, image, mapped, stride>>
      PROVE  TexturesInv'
  BY <1>1, <1>4 DEF TexturesInv
<1> QED
  BY <1>2, <1>3, <1>4 DEF UpdateTexture

LEMMA SetSceneKeepsTextures ==
  ASSUME TexturesInv, NEW S, SetScene(S)
  PROVE  TexturesInv'
<1>1. /\ ready' = {} /\ t' = Released(t) /\ image' = [x \in Tex |-> NoImage]
      /\ mapped' = [x \in Tex |-> NotMapped] /\ stride' = [x \in Tex |-> 0]
  BY DEF SetScene
<1>2. Sound(t') /\ \A x \in Tex : t'.mem[Own(x)] = ZeroTexture
  BY <1>1, ReleasedFacts DEF TexturesInv
<1>3. NotMapped \in Kind /\ NotMapped.layout = "none" /\ NoImage \in Images /\ NoImage.layout = "none"
  BY DEF NotMapped, Kind, NoImage, Images, Size
<1>4. ASSUME NEW x \in Tex
      PROVE  Fits(t', x \in ready', image'[x], mapped'[x].layout, stride'[x], x)
  <2>1. image'[x] = NoImage /\ mapped'[x] = NotMapped /\ stride'[x] = 0
    BY <1>1
  <2>2. RowsFit(t'.mem[Own(x)], 0)
    BY <1>2 DEF RowsFit, ZeroTexture
  <2> QED
    BY <1>3, <2>1, <2>2 DEF Fits
<1>5. image' \in [Tex -> Images] /\ mapped' \in [Tex -> Kind] /\ stride' \in [Tex -> Nat]
  BY <1>1, <1>3
<1> QED
  BY <1>1, <1>2, <1>4, <1>5 DEF TexturesInv

LEMMA InitTextures ==
  ASSUME Init
  PROVE  TexturesInv
<1> DEFINE D == {Own(x) : x \in Tex}
<1>1. /\ ready = {} /\ image = [x \in Tex |-> NoImage] /\ features \in Features
      /\ t = NewTextures(D, ImageUnit, "row_length" \in features)
      /\ mapped = [x \in Tex |-> NotMapped] /\ stride = [x \in Tex |-> 0]
  BY DEF Init, ImageUnit
<1>2. D \in SUBSET Address /\ \A x \in Tex : Own(x) \in D
  BY DEF Own, Address
<1> HIDE DEF D
<1>3. /\ t.mem = [a \in D |-> ZeroTexture] /\ t.names = {}
      /\ t.units = [u \in Unit |-> [g \in Target |-> 0]] /\ t.images = [b \in ImageUnit |-> 0]
      /\ t.active = 0 /\ t.row_length \in BOOLEAN
      /\ t = [mem |-> t.mem, names |-> t.names, units |-> t.units, images |-> t.images,
              active |-> t.active, row_length |-> t.row_length]
  BY <1>1 DEF NewTextures
<1>4. t.mem \in [D -> Structure] /\ \A a \in D : t.mem[a] = ZeroTexture
  BY <1>3, ZeroFacts
<1>5. Sound(t)
  <2>1. t.mem \in UNION {[Z -> Structure] : Z \in SUBSET Address}
    BY <1>2, <1>4
  <2>2. t.units \in [Unit -> [Target -> Nat]] /\ t.images \in [ImageUnit -> Nat] /\ t.active \in Unit
    BY <1>3, TexturesAssumption
  <2>3. t.names \in SUBSET (Nat \ {0}) /\ IsFiniteSet(t.names)
    BY <1>3, FS_EmptySet
  <2>4. t \in TextureState
    BY <1>3, <2>1, <2>2, <2>3 DEF TextureState
  <2>5. DOMAIN t.mem = D /\ \A a \in D : t.mem[a].id = 0
    BY <1>4, ZeroFacts
  <2> QED
    BY <1>2, <2>3, <2>4, <2>5 DEF Sound
<1>6. NotMapped \in Kind /\ NotMapped.layout = "none" /\ NoImage \in Images /\ NoImage.layout = "none"
  BY DEF NotMapped, Kind, NoImage, Images, Size
<1>7. ASSUME NEW x \in Tex
      PROVE  Fits(t, x \in ready, image[x], mapped[x].layout, stride[x], x)
  <2>1. image[x] = NoImage /\ mapped[x] = NotMapped /\ stride[x] = 0 /\ t.mem[Own(x)] = ZeroTexture
    BY <1>1, <1>2, <1>4
  <2>2. RowsFit(t.mem[Own(x)], 0)
    BY <2>1 DEF RowsFit, ZeroTexture
  <2> QED
    BY <1>6, <2>1, <2>2 DEF Fits
<1>8. image \in [Tex -> Images] /\ mapped \in [Tex -> Kind] /\ stride \in [Tex -> Nat]
  BY <1>1, <1>6
<1> QED
  BY <1>1, <1>5, <1>7, <1>8 DEF TexturesInv

(***************************************************************************)
(* What GL has bound                                                       *)
(***************************************************************************)
Idle(array) == ~array.enabled /\ array.rate = 0

(* The name that use_program keeps is that of the program in use; vertex   *)
(* arrays are those a pipeline was built with, or none that a draw leaves. *)
BindingsInv ==
  /\ features \in Features /\ pc \in {"idle", "draw"}
  /\ built \in SUBSET Pipe /\ pairs = [p \in Pipe |-> pairs[p]]
  /\ \A p \in built : Buildable(p) /\ PairsFit(p)
  /\ program_id \in Prog \union {Null} /\ gl \in Bindings
  /\ program_id # Null => gl.program = program_id
  /\ pc = "draw" => cur \in built
  /\ HasVao => \A p \in built \ Compute : gl.arrays[p] = SetArrays(NoArrays, p)
  /\ ~HasVao => \A l \in Loc :
       IF pc = "draw" /\ AttributeAt(cur, l) # {}
       THEN "instanced_array" \notin features => gl.arrays[NoVao][l].rate = 0
       ELSE Idle(gl.arrays[NoVao][l])

LEMMA AttributeFacts ==
  ASSUME NEW p \in Pipe, NEW l \in Loc, AttributeAt(p, l) # {}
  PROVE  LET n == CHOOSE n \in AttributeAt(p, l) : TRUE IN
         /\ n \in AttributeAt(p, l) /\ n \in Attributes(p) /\ p \notin Compute
         /\ Given[p].attributes[n] \in [buffer : Buffer, rate : Nat]
<1> DEFINE n == CHOOSE n \in AttributeAt(p, l) : TRUE
<1>1. n \in AttributeAt(p, l)
  OBVIOUS
<1>2. n \in Attributes(p) /\ n \in DOMAIN Given[p].attributes
  BY <1>1 DEF AttributeAt, Attributes
<1>3. p \notin Compute
  BY <1>2, ProgramFacts
<1>4. Given[p].attributes \in [DOMAIN Given[p].attributes -> [buffer : Buffer, rate : Nat]]
  BY ProgramFacts DEF GivenType
<1> QED
  BY <1>1, <1>2, <1>3, <1>4

LEMMA SetArraysFacts ==
  ASSUME NEW p \in Pipe, NEW arrays \in Arrays
  PROVE  /\ SetArrays(arrays, p) \in Arrays
         /\ \A l \in Loc :
              LET a == Given[p].attributes[CHOOSE n \in AttributeAt(p, l) : TRUE]
                  s == SetArrays(arrays, p)[l]
              IN  IF AttributeAt(p, l) = {} THEN s = arrays[l]
                  ELSE /\ s.enabled /\ s.buffer = a.buffer
                       /\ s.rate = IF "instanced_array" \in features /\ a.rate > 0 THEN a.rate ELSE arrays[l].rate
<1> DEFINE A == [enabled : BOOLEAN, buffer : Buffer \union {Null}, rate : Nat]
           a(l) == Given[p].attributes[CHOOSE n \in AttributeAt(p, l) : TRUE]
           rate(l) == IF "instanced_array" \in features /\ a(l).rate > 0 THEN a(l).rate ELSE arrays[l].rate
           s == SetArrays(arrays, p)
<1>1. s = [l \in Loc |-> IF AttributeAt(p, l) = {} THEN arrays[l]
                         ELSE [enabled |-> TRUE, buffer |-> a(l).buffer, rate |-> rate(l)]]
  BY DEF SetArrays
<1> HIDE DEF s
<1>2. ASSUME NEW l \in Loc
      PROVE  /\ s[l] \in A
             /\ IF AttributeAt(p, l) = {} THEN s[l] = arrays[l]
                ELSE s[l].enabled /\ s[l].buffer = a(l).buffer /\ s[l].rate = rate(l)
  <2>1. arrays[l] \in A
    BY DEF Arrays
  <2>2. CASE AttributeAt(p, l) = {}
    BY <1>1, <2>1, <2>2
  <2>3. CASE AttributeAt(p, l) # {}
    <3>1. a(l) \in [buffer : Buffer, rate : Nat]
      BY <2>3, AttributeFacts
    <3>2. s[l] = [enabled |-> TRUE, buffer |-> a(l).buffer, rate |-> rate(l)]
      BY <1>1, <2>3
    <3> HIDE DEF a
    <3> QED
      BY <2>1, <2>3, <3>1, <3>2
  <2> QED
    BY <2>2, <2>3
<1>3. s \in [Loc -> A]
  BY <1>1, <1>2
<1> QED
  BY <1>2, <1>3 DEF s, Arrays

LEMMA NoArraysFacts == NoArrays \in Arrays /\ \A l \in Loc : Idle(NoArrays[l])
BY DEF NoArrays, Arrays, Idle

LEMMA ResetArraysFacts ==
  ASSUME NEW p \in Pipe, NEW arrays \in Arrays
  PROVE  /\ ResetArrays(arrays, p) \in Arrays
         /\ \A l \in Loc :
              IF AttributeAt(p, l) = {} THEN ResetArrays(arrays, p)[l] = arrays[l]
              ELSE /\ ~ResetArrays(arrays, p)[l].enabled
                   /\ ResetArrays(arrays, p)[l].rate =
                        IF "instanced_array" \in features THEN 0 ELSE arrays[l].rate
<1> DEFINE A == [enabled : BOOLEAN, buffer : Buffer \union {Null}, rate : Nat]
<1>1. \A l \in Loc : arrays[l] \in A
  BY DEF Arrays
<1>2. ASSUME NEW x \in A
      PROVE  LET y == [x EXCEPT !.enabled = FALSE, !.rate = IF "instanced_array" \in features THEN 0 ELSE @] IN
             y \in A /\ ~y.enabled /\ y.rate = IF "instanced_array" \in features THEN 0 ELSE x.rate
  OBVIOUS
<1> HIDE DEF A
<1> QED
  BY <1>1, <1>2 DEF ResetArrays, Arrays, A

LEMMA NewBindingsFacts ==
  /\ NewBindings \in Bindings
  /\ NewBindings.arrays = [v \in Pipe \union {NoVao} |-> NoArrays]
<1> DEFINE values == [g \in Prog |-> [n \in DOMAIN Declares[g].uniforms \union Declares[g].samplers |-> Zero(n)]]
<1>1. \A n : Zero(n) \in Value
  <2>1. <<0, 0, 0>> \in Size
    BY DEF Size
  <2> QED
    BY <2>1 DEF Zero, Value
<1>2. values \in Values
  <2>1. \A g \in Prog : values[g] \in [Variable(g) -> Value]
    BY <1>1 DEF Variable
  <2>2. values \in [Prog -> UNION {[Variable(g) -> Value] : g \in Prog}]
    BY <2>1
  <2> QED
    BY <2>1, <2>2 DEF Values
<1> HIDE DEF values
<1>3. [b \in BlockUnit |-> Null] \in [BlockUnit -> Buffer \union {Null}]
  OBVIOUS
<1>4. [v \in Pipe \union {NoVao} |-> NoArrays] \in [Pipe \union {NoVao} -> Arrays]
  BY NoArraysFacts
<1>5. [v \in Pipe \union {NoVao} |-> Null] \in [Pipe \union {NoVao} -> Buffer \union {Null}]
  OBVIOUS
<1>6. NewBindings = [program |-> Null, values |-> values, buffers |-> [b \in BlockUnit |-> Null],
                     vao |-> NoVao, arrays |-> [v \in Pipe \union {NoVao} |-> NoArrays],
                     elements |-> [v \in Pipe \union {NoVao} |-> Null]]
  BY DEF NewBindings, values, BlockUnit
<1> QED
  BY <1>2, <1>3, <1>4, <1>5, <1>6 DEF Bindings

LEMMA BuildFacts ==
  ASSUME gl \in Bindings, NEW S \in SUBSET Pipe
  PROVE  LET b == Build(Bare, S) IN
         /\ b \in Bindings
         /\ HasVao => \A p \in S \ Compute : b.arrays[p] = SetArrays(NoArrays, p)
         /\ ~HasVao => \A l \in Loc : /\ b.arrays[NoVao][l].enabled = gl.arrays[NoVao][l].enabled
                                      /\ b.arrays[NoVao][l].rate = gl.arrays[NoVao][l].rate
<1> DEFINE A == [enabled : BOOLEAN, buffer : Buffer \union {Null}, rate : Nat]
           V == Pipe \union {NoVao}
           left == [l \in Loc |-> [gl.arrays[NoVao][l] EXCEPT !.buffer = Null]]
           arrays == [NewBindings.arrays EXCEPT ![NoVao] = left]
           graphics == IF HasVao THEN S \ Compute ELSE {}
           built_arrays == [v \in V |-> IF v \in graphics THEN SetArrays(NoArrays, v) ELSE arrays[v]]
           vao == IF graphics = {} THEN Bare.vao ELSE CHOOSE p \in graphics : TRUE
<1>1. /\ NewBindings \in Bindings /\ NewBindings.arrays \in [V -> Arrays]
      /\ gl.arrays \in [V -> Arrays]
  BY NewBindingsFacts DEF Bindings
<1>2. /\ left \in Arrays
      /\ \A l \in Loc : left[l].enabled = gl.arrays[NoVao][l].enabled /\ left[l].rate = gl.arrays[NoVao][l].rate
  <2>1. \A l \in Loc : gl.arrays[NoVao][l] \in A
    BY <1>1 DEF Arrays
  <2>2. \A x \in A : /\ [x EXCEPT !.buffer = Null] \in A
                     /\ [x EXCEPT !.buffer = Null].enabled = x.enabled
                     /\ [x EXCEPT !.buffer = Null].rate = x.rate
    OBVIOUS
  <2> HIDE DEF A
  <2>3. left \in [Loc -> A]
    BY <2>1, <2>2
  <2>4. \A l \in Loc : left[l].enabled = gl.arrays[NoVao][l].enabled /\ left[l].rate = gl.arrays[NoVao][l].rate
    BY <2>1, <2>2
  <2> QED
    BY <2>3, <2>4 DEF Arrays, A
<1> HIDE DEF left
<1>3. arrays \in [V -> Arrays] /\ arrays[NoVao] = left
  BY <1>1, <1>2
<1> HIDE DEF arrays
<1>4. Bare \in Bindings /\ Bare.arrays = arrays /\ Bare.vao \in V
  <2>1. Bare = [NewBindings EXCEPT !.arrays = arrays]
    BY <1>1 DEF Bare, left, arrays, Bindings
  <2> QED
    BY <1>1, <1>3, <2>1 DEF Bindings
<1>5. graphics \in SUBSET Pipe /\ NoVao \notin graphics
  BY PipelinesAssumption
<1> HIDE DEF graphics
<1>6. vao \in V
  <2>1. graphics # {} => (CHOOSE p \in graphics : TRUE) \in graphics
    OBVIOUS
  <2> QED
    BY <1>4, <1>5, <2>1
<1>7. built_arrays \in [V -> Arrays]
  BY <1>3, <1>5, NoArraysFacts, SetArraysFacts
<1> HIDE DEF vao
<1>8. Build(Bare, S) = [Bare EXCEPT !.vao = vao, !.arrays = built_arrays]
  <2>1. DOMAIN arrays = V
    BY <1>3
  <2>2. Build(Bare, S) =
        [Bare EXCEPT !.vao = IF graphics = {} THEN Bare.vao ELSE CHOOSE p \in graphics : TRUE,
                     !.arrays = [v \in DOMAIN Bare.arrays |-> IF v \in graphics THEN SetArrays(NoArrays, v)
                                                              ELSE Bare.arrays[v]]]
    BY <1>4 DEF Build, graphics, Bindings
  <2> QED
    BY <1>4, <2>1, <2>2 DEF vao
<1>9. /\ \A p \in graphics : built_arrays[p] = SetArrays(NoArrays, p)
      /\ built_arrays[NoVao] = left
  BY <1>3, <1>5
<1> HIDE DEF built_arrays
<1>10. Build(Bare, S) \in Bindings /\ Build(Bare, S).arrays = built_arrays
  BY <1>4, <1>6, <1>7, <1>8 DEF Bindings
<1> QED
  BY <1>2, <1>9, <1>10 DEF graphics

LEMMA InitBindings ==
  ASSUME Init
  PROVE  BindingsInv
<1>1. /\ features \in Features /\ pc = "idle" /\ built = {} /\ pairs = [p \in Pipe |-> <<>>]
      /\ program_id = Null /\ gl = NewBindings
  BY DEF Init
<1>2. \A l \in Loc : gl.arrays[NoVao][l] = NoArrays[l]
  BY <1>1, NewBindingsFacts
<1> QED
  BY <1>1, <1>2, NewBindingsFacts, NoArraysFacts DEF BindingsInv

LEMMA SetSceneKeepsBindings ==
  ASSUME BindingsInv, NEW S \in SUBSET Pipe, SetScene(S)
  PROVE  BindingsInv'
<1>1. /\ pc = "idle" /\ pc' = pc /\ cur' = cur /\ features' = features
      /\ built' = IF \A p \in S : Buildable(p) THEN S ELSE {}
      /\ pairs' = [p \in Pipe |-> IF p \in built' THEN TexturePairs[p] ELSE <<>>]
      /\ gl' = Build(Bare, built') /\ program_id' = Null
  BY DEF SetScene
<1>2. built' \in SUBSET Pipe /\ \A p \in built' : Buildable(p)
  BY <1>1
<1>3. \A p \in Pipe : Buildable(p)' = Buildable(p)
  BY <1>1 DEF Buildable, TypesMatch, BindingsFit, BlocksFit, ComputeFit, GraphicsFit, RatesFit
<1>4. ASSUME NEW p \in built'
      PROVE  PairsFit(p)'
  <2>1. pairs'[p] = TexturePairs[p] /\ p \in Pipe
    BY <1>1, <1>2
  <2>2. TexturePairs[p] \in Seq(NewPair(p)) /\ NewPair(p) \in SUBSET Pair(p)
    BY <2>1, PairsFacts DEF NewPair, Pair
  <2>3. TexturePairs[p] \in Seq(Pair(p))
    BY <2>2
  <2> QED
    BY <2>1, <2>3 DEF PairsFit
<1>5. /\ gl' \in Bindings
      /\ HasVao => \A p \in built' \ Compute : gl'.arrays[p] = SetArrays(NoArrays, p)
      /\ ~HasVao => \A l \in Loc : /\ gl'.arrays[NoVao][l].enabled = gl.arrays[NoVao][l].enabled
                                   /\ gl'.arrays[NoVao][l].rate = gl.arrays[NoVao][l].rate
  BY <1>1, <1>2, BuildFacts DEF BindingsInv
<1>6. ~HasVao => \A l \in Loc : Idle(gl'.arrays[NoVao][l])
  BY <1>1, <1>5 DEF BindingsInv, Idle
<1>7. HasVao' = HasVao /\ \A p : SetArrays(NoArrays, p)' = SetArrays(NoArrays, p)
  BY <1>1 DEF HasVao, SetArrays
<1>8. pairs' = [p \in Pipe |-> pairs'[p]]
  BY <1>1
<1>9. \A p \in built' : Buildable(p)'
  BY <1>2, <1>3
<1> QED
  BY <1>1, <1>2, <1>4, <1>5, <1>6, <1>7, <1>8, <1>9 DEF BindingsInv

LEMMA DrawnKeepsBindings ==
  ASSUME BindingsInv, Drawn
  PROVE  BindingsInv'
<1>1. /\ pc = "draw" /\ pc' = "idle" /\ features' = features /\ built' = built /\ pairs' = pairs
      /\ program_id' = program_id /\ gl' = UnbindArrays(gl, cur) /\ cur \in Pipe
  BY DEF Drawn, BindingsInv
<1>2. gl \in Bindings /\ gl.arrays[NoVao] \in Arrays
  BY DEF BindingsInv, Bindings
<1>3. \A p \in built : Buildable(p)' /\ PairsFit(p)'
  <2>1. \A p : PairsFit(p)' = PairsFit(p)
    BY <1>1 DEF PairsFit
  <2>2. \A p : Buildable(p)' = Buildable(p)
    BY <1>1 DEF Buildable, ComputeFit, GraphicsFit, RatesFit
  <2> QED
    BY <2>1, <2>2 DEF BindingsInv
<1>4. HasVao' = HasVao /\ \A p : SetArrays(NoArrays, p)' = SetArrays(NoArrays, p)
  BY <1>1 DEF HasVao, SetArrays
<1>5. CASE cur \in Compute \/ HasVao
  <2>1. gl' = gl
    BY <1>1, <1>5 DEF UnbindArrays
  <2>2. \A l \in Loc : cur \in Compute => AttributeAt(cur, l) = {}
    BY <1>1, AttributeFacts
  <2>3. ~HasVao => \A l \in Loc : Idle(gl'.arrays[NoVao][l])
    BY <1>5, <2>1, <2>2 DEF BindingsInv
  <2> QED
    BY <1>1, <1>3, <1>4, <2>1, <2>3 DEF BindingsInv
<1>6. CASE cur \notin Compute /\ ~HasVao
  <2> DEFINE arrays == ResetArrays(gl.arrays[NoVao], cur)
             all == [gl.arrays EXCEPT ![NoVao] = arrays]
  <2>1. /\ arrays \in Arrays
        /\ \A l \in Loc : IF AttributeAt(cur, l) = {} THEN arrays[l] = gl.arrays[NoVao][l]
                          ELSE /\ ~arrays[l].enabled
                               /\ arrays[l].rate = IF "instanced_array" \in features THEN 0
                                                   ELSE gl.arrays[NoVao][l].rate
    BY <1>1, <1>2, ResetArraysFacts
  <2>2. gl' = [gl EXCEPT !.arrays = all]
    BY <1>1, <1>2, <1>6 DEF UnbindArrays, Bindings
  <2> HIDE DEF arrays
  <2>3. all \in [Pipe \union {NoVao} -> Arrays] /\ all[NoVao] = arrays
    BY <1>2, <2>1 DEF Bindings
  <2> HIDE DEF all
  <2>4. gl' \in Bindings /\ gl'.arrays = all /\ gl'.program = gl.program
    BY <1>2, <2>2, <2>3 DEF Bindings
  <2>5. \A l \in Loc : Idle(gl'.arrays[NoVao][l])
    BY <1>1, <1>6, <2>1, <2>3, <2>4 DEF BindingsInv, Idle
  <2> QED
    BY <1>1, <1>3, <1>4, <1>6, <2>4, <2>5 DEF BindingsInv
<1> QED
  BY <1>5, <1>6

(* The callbacks of the textures leave them alone.                         *)
LEMMA OthersKeepBindings ==
  ASSUME BindingsInv, UNCHANGED <<features, pipeVars, pc, cur>>
  PROVE  BindingsInv'
<1>1. /\ features' = features /\ pc' = pc /\ cur' = cur /\ built' = built /\ pairs' = pairs
      /\ program_id' = program_id /\ gl' = gl
  BY DEF pipeVars
<1>2. \A p \in built : Buildable(p)' /\ PairsFit(p)'
  BY <1>1 DEF BindingsInv, PairsFit, Buildable, TypesMatch, BindingsFit, BlocksFit, ComputeFit, GraphicsFit, RatesFit
<1>3. HasVao' = HasVao /\ \A p : SetArrays(NoArrays, p)' = SetArrays(NoArrays, p)
  BY <1>1 DEF HasVao, SetArrays
<1> QED
  BY <1>1, <1>2, <1>3 DEF BindingsInv

(***************************************************************************)
(* The execution of a pass                                                 *)
(***************************************************************************)
LEMMA BindArraysFacts ==
  ASSUME NEW p \in Pipe, NEW b \in Bindings
  PROVE  LET f   == BindArrays(b, p)
             vao == IF HasVao THEN p ELSE NoVao
         IN  /\ f \in Bindings /\ f.program = b.program /\ f.values = b.values /\ f.buffers = b.buffers
             /\ \A q \in Pipe : f.arrays[q] = b.arrays[q]
             /\ p \in Compute => f = b
             /\ p \notin Compute =>
                  /\ f.vao = vao
                  /\ f.arrays[vao] = IF HasVao THEN b.arrays[vao] ELSE SetArrays(b.arrays[vao], p)
                  /\ Given[p].indices # Null => f.elements[vao] = Given[p].indices
<1> DEFINE V == Pipe \union {NoVao}
           vao == IF HasVao THEN p ELSE NoVao
           array == IF HasVao THEN b.arrays[vao] ELSE SetArrays(b.arrays[vao], p)
           element == IF Given[p].indices = Null THEN b.elements[vao] ELSE Given[p].indices
           arrays == [b.arrays EXCEPT ![vao] = array]
           elements == [b.elements EXCEPT ![vao] = element]
           f == BindArrays(b, p)
<1>1. /\ b.arrays \in [V -> Arrays] /\ b.elements \in [V -> Buffer \union {Null}] /\ vao \in V
  BY DEF Bindings
<1>2. array \in Arrays /\ element \in Buffer \union {Null}
  <2>1. b.arrays[vao] \in Arrays /\ b.elements[vao] \in Buffer \union {Null}
    BY <1>1
  <2>2. Given[p].indices \in Buffer \union {Null}
    BY ProgramFacts DEF GivenType
  <2> QED
    BY <2>1, <2>2, SetArraysFacts
<1>3. CASE p \in Compute
  BY <1>3 DEF BindArrays
<1>4. CASE p \notin Compute
  <2>1. f = [b EXCEPT !.vao = vao, !.arrays = arrays, !.elements = elements]
    BY <1>1, <1>4 DEF BindArrays, Bindings
  <2> HIDE DEF f, array, element
  <2>2. /\ arrays \in [V -> Arrays] /\ arrays[vao] = array
        /\ elements \in [V -> Buffer \union {Null}] /\ elements[vao] = element
        /\ \A q \in V \ {vao} : arrays[q] = b.arrays[q]
    BY <1>1, <1>2
  <2> HIDE DEF arrays, elements
  <2>3. /\ f \in Bindings /\ f.program = b.program /\ f.values = b.values /\ f.buffers = b.buffers
        /\ f.vao = vao /\ f.arrays = arrays /\ f.elements = elements
    <3> HIDE DEF vao
    <3> QED
      BY <1>1, <2>1, <2>2 DEF Bindings
  <2>4. \A q \in Pipe : f.arrays[q] = b.arrays[q]
    <3>1. HasVao => arrays[p] = b.arrays[p]
      BY <2>2 DEF array
    <3>2. ~HasVao => vao \notin Pipe
      BY PipelinesAssumption
    <3> QED
      BY <2>2, <2>3, <3>1, <3>2
  <2> QED
    BY <1>4, <2>2, <2>3, <2>4 DEF f, array, element
<1> QED
  BY <1>3, <1>4

LEMMA SetBuffersFacts ==
  ASSUME gl \in Bindings, NEW p \in Pipe
  PROVE  /\ SetBuffers(p) \in [BlockUnit -> Buffer \union {Null}]
         /\ \A n \in Blocks(p) :
              LET at == {m \in Blocks(p) : Declares[ProgramOf[p]].blocks[m] = Declares[ProgramOf[p]].blocks[n]} IN
              SetBuffers(p)[Declares[ProgramOf[p]].blocks[n]] = Given[p].blocks[CHOOSE m \in at : TRUE]
<1> DEFINE at(b) == {n \in Blocks(p) : Declares[ProgramOf[p]].blocks[n] = b}
<1>1. gl.buffers \in [BlockUnit -> Buffer \union {Null}]
  BY DEF Bindings
<1>2. \A n \in Blocks(p) : Given[p].blocks[n] \in Buffer
  BY ProgramFacts DEF GivenType, Blocks
<1>3. SetBuffers(p) = [b \in BlockUnit |-> IF at(b) = {} THEN gl.buffers[b]
                                           ELSE Given[p].blocks[CHOOSE n \in at(b) : TRUE]]
  BY <1>1 DEF SetBuffers
<1>4. \A b : at(b) # {} => (CHOOSE n \in at(b) : TRUE) \in Blocks(p)
  OBVIOUS
<1>5. \A n \in Blocks(p) : Declares[ProgramOf[p]].blocks[n] \in BlockUnit /\ n \in at(Declares[ProgramOf[p]].blocks[n])
  BY ProgramFacts DEF Blocks, BlockUnit, Range
<1>6. SetBuffers(p) \in [BlockUnit -> Buffer \union {Null}]
  <2> HIDE DEF at
  <2> QED
    BY <1>1, <1>2, <1>3, <1>4
<1>7. \A n \in Blocks(p) : at(Declares[ProgramOf[p]].blocks[n]) # {}
  BY <1>5
<1>8. \A n \in Blocks(p) :
        SetBuffers(p)[Declares[ProgramOf[p]].blocks[n]]
          = Given[p].blocks[CHOOSE m \in at(Declares[ProgramOf[p]].blocks[n]) : TRUE]
  <2> HIDE DEF at
  <2> QED
    BY <1>3, <1>5, <1>7
<1> QED
  BY <1>6, <1>8

(* The values of the uniforms before the textures are bound.               *)
Wrote(p) == [n \in Variable(ProgramOf[p]) |-> Written(p, n, gl.values[ProgramOf[p]][n])]
GivenValues(p) == SetUniforms(p, Wrote(p))

LEMMA WrittenType ==
  ASSUME gl \in Bindings, image \in [Tex -> Images], NEW p \in Pipe
  PROVE  /\ Wrote(p) \in [Variable(ProgramOf[p]) -> Value]
         /\ GivenValues(p) \in [Variable(ProgramOf[p]) -> Value]
         /\ \A n \in Variable(ProgramOf[p]) :
              GivenValues(p)[n] = IF n \in Uniforms(p) THEN Given[p].uniforms[n]
                             ELSE Written(p, n, gl.values[ProgramOf[p]][n])
<1>1. gl.values[ProgramOf[p]] \in [Variable(ProgramOf[p]) -> Value]
  BY ProgramFacts DEF Bindings, Values
<1>2. ASSUME NEW n, NEW v \in Value
      PROVE  Written(p, n, v) \in Value
  <2>1. ASSUME n[1] \in TextureNames(p)
        PROVE  /\ image[TextureNamed(p, n[1])].layout \in Value
               /\ image[TextureNamed(p, n[1])].size \in Value
    <3>1. TextureNamed(p, n[1]) \in Tex
      BY <2>1, TextureNamedType
    <3>2. image[TextureNamed(p, n[1])] \in Images
      BY <3>1
    <3>3. /\ image[TextureNamed(p, n[1])].layout \in {"none", "default", "nv12"}
          /\ image[TextureNamed(p, n[1])].size \in Size
      BY <3>2 DEF Images
    <3> QED
      BY <3>3 DEF Value
  <2>2. "none" \in Value /\ p \in Value
    BY DEF Value
  <2> HIDE DEF Value
  <2> QED
    BY <2>1, <2>2 DEF Written
<1>3. Wrote(p) \in [Variable(ProgramOf[p]) -> Value]
  BY <1>1, <1>2 DEF Wrote
<1>4. \A n \in Uniforms(p) : Given[p].uniforms[n] \in Value
  BY ProgramFacts DEF Uniforms, GivenType, Value
<1>5. GivenValues(p) = [n \in Variable(ProgramOf[p]) |->
                     IF n \in Uniforms(p) THEN Given[p].uniforms[n] ELSE Wrote(p)[n]]
  BY <1>3 DEF GivenValues, SetUniforms
<1> QED
  BY <1>3, <1>4, <1>5 DEF Wrote

LEMMA SetTexturesType ==
  ASSUME t \in TextureState, NEW p \in Pipe, UpdatedPairs(p) \in Seq(Pair(p)), NEW junk \in Nat,
         NEW values, Beginning(p, values) \in Going(p, t)
  PROVE  SetTextures(p, values, junk) \in Going(p, t)
<1>1. PICK g \in [0 .. Len(UpdatedPairs(p)) -> Going(p, t)] :
           SetsStepwise(g, p, UpdatedPairs(p), Beginning(p, values), junk, SetTextures(p, values, junk))
  BY SetTexturesSteps
<1>2. Len(UpdatedPairs(p)) \in 0 .. Len(UpdatedPairs(p))
  BY LenProperties
<1> QED
  BY <1>1, <1>2 DEF SetsStepwise

(* What the execution of a pass has set by its draw.                       *)
Executed(p, junk) ==
  LET b == SetTextures(p, GivenValues(p), junk)
      e == [gl EXCEPT !.program = ProgramOf[p], !.values = [gl.values EXCEPT ![ProgramOf[p]] = b.values],
                      !.buffers = SetBuffers(p)]
  IN  /\ junk \in Nat /\ b \in Going(p, t) /\ Beginning(p, GivenValues(p)) \in Going(p, t)
      /\ t' = b.t
      /\ e \in Bindings /\ e.program = ProgramOf[p] /\ e.values[ProgramOf[p]] = b.values
      /\ e.buffers = SetBuffers(p) /\ e.arrays = gl.arrays
      /\ gl' = BindArrays(e, p)

LEMMA ExecFacts ==
  ASSUME TexturesInv, BindingsInv, NEW p \in Pipe, ExecPass(p)
  PROVE  /\ \E junk \in Nat : Executed(p, junk)
         /\ pc = "idle" /\ p \in built /\ ProgramInUse(p) = ProgramOf[p]
         /\ pairs' = [pairs EXCEPT ![p] = UpdatedPairs(p)] /\ program_id' = ProgramOf[p]
         /\ pc' = "draw" /\ cur' = p
         /\ UNCHANGED <<features, ready, updated, image, mapped, stride, built>>
<1> DEFINE program == ProgramInUse(p)
           written == [n \in DOMAIN gl.values[program] |-> Written(p, n, gl.values[program][n])]
           b(junk) == SetTextures(p, SetUniforms(p, written), junk)
<1>1. /\ gl \in Bindings /\ t \in TextureState /\ image \in [Tex -> Images] /\ p \in built
      /\ PairsFit(p) /\ Buildable(p)
  BY DEF ExecPass, BindingsInv, TexturesInv, Sound
<1>2. program = ProgramOf[p]
  <2>1. program_id # Null => gl.program = program_id
    BY DEF BindingsInv
  <2> QED
    BY <2>1, ProgramFacts DEF ProgramInUse
<1>3. gl.values \in Values /\ gl.values[ProgramOf[p]] \in [Variable(ProgramOf[p]) -> Value]
  BY <1>1, ProgramFacts DEF Bindings, Values
<1>4. SetUniforms(p, written) = GivenValues(p)
  BY <1>2, <1>3 DEF GivenValues, Wrote
<1>5. PICK junk \in IF Dangling(p) THEN {0} \union t.names ELSE {0} :
        /\ t' = b(junk).t
        /\ gl' = BindArrays([gl EXCEPT !.program = program, !.values[program] = b(junk).values,
                                       !.buffers = SetBuffers(p)], p)
  BY DEF ExecPass
<1>6. junk \in Nat
  <2>1. t.names \in SUBSET (Nat \ {0})
    BY <1>1, MemType
  <2>2. junk \in {0} \union t.names
    OBVIOUS
  <2> QED
    BY <2>1, <2>2
<1>7. Beginning(p, GivenValues(p)) \in Going(p, t)
  <2>1. UsedUnits[p] \in SUBSET Unit
    BY <1>1 DEF Buildable, BindingsFit
  <2>2. GivenValues(p) \in [Variable(ProgramOf[p]) -> Value]
    BY <1>1, WrittenType
  <2>3. t \in Texturing(t)
    BY <1>1, MemType DEF Texturing, TextureState
  <2> QED
    BY <2>1, <2>2, <2>3 DEF Beginning, Going
<1> DEFINE c == SetTextures(p, GivenValues(p), junk)
<1>8. c \in Going(p, t)
  <2>1. UpdatedPairs(p) \in Seq(Pair(p))
    BY <1>1, UpdatedFacts
  <2> QED
    BY <1>1, <1>6, <1>7, <2>1, SetTexturesType
<1>9. c = b(junk)
  BY <1>4
<1> DEFINE values == [gl.values EXCEPT ![ProgramOf[p]] = c.values]
           e == [gl EXCEPT !.program = ProgramOf[p], !.values = values, !.buffers = SetBuffers(p)]
<1>10. t' = c.t /\ gl' = BindArrays([gl EXCEPT !.program = ProgramOf[p], !.values[ProgramOf[p]] = c.values,
                                               !.buffers = SetBuffers(p)], p)
  BY <1>2, <1>5, <1>9
<1> HIDE DEF c, b, program, written
<1>11. [gl EXCEPT !.program = ProgramOf[p], !.values[ProgramOf[p]] = c.values, !.buffers = SetBuffers(p)] = e
  BY <1>1 DEF Bindings
<1>12. values \in Values /\ values[ProgramOf[p]] = c.values
  <2>1. c.values \in [Variable(ProgramOf[p]) -> Value]
    BY <1>8 DEF Going
  <2> QED
    BY <1>3, <2>1, ValuesFacts, ProgramFacts
<1> HIDE DEF values
<1>13. SetBuffers(p) \in [BlockUnit -> Buffer \union {Null}]
  BY <1>1, SetBuffersFacts
<1>14. /\ e \in Bindings /\ e.program = ProgramOf[p] /\ e.values = values /\ e.buffers = SetBuffers(p)
       /\ e.arrays = gl.arrays
  BY <1>1, <1>12, <1>13, ProgramFacts DEF Bindings
<1>15. Executed(p, junk)
  <2>1. gl' = BindArrays(e, p)
    BY <1>10, <1>11
  <2>2. e.values[ProgramOf[p]] = c.values
    BY <1>12, <1>14
  <2> QED
    BY <1>6, <1>7, <1>8, <1>10, <1>14, <2>1, <2>2 DEF Executed, c, values
<1> QED
  BY <1>2, <1>6, <1>15 DEF ExecPass, program

LEMMA ExecKeepsTextures ==
  ASSUME TexturesInv, BindingsInv, NEW p \in Pipe, ExecPass(p)
  PROVE  TexturesInv' /\ t'.mem = t.mem /\ t'.names = t.names
<1>1. PICK junk : Executed(p, junk)
  BY ExecFacts
<1>2. UNCHANGED <<ready, image, mapped, stride>>
  BY DEF ExecPass
<1>3. t' \in Texturing(t)
  BY <1>1 DEF Executed, Going
<1>4. t'.mem = t.mem /\ t'.names = t.names /\ t' \in TextureState
  BY <1>3 DEF Texturing, TextureState, TexturesInv, Sound
<1>5. Sound(t')
  BY <1>4 DEF TexturesInv, Sound
<1>6. \A x \in Tex : Fits(t', x \in ready, image[x], mapped[x].layout, stride[x], x)
  <2>1. \A a : Live(t, a) => Live(t', a)
    BY <1>4 DEF Live
  <2> QED
    BY <1>4, <2>1 DEF TexturesInv, Fits
<1> QED
  BY <1>2, <1>4, <1>5, <1>6 DEF TexturesInv

LEMMA ExecKeepsBindings ==
  ASSUME TexturesInv, BindingsInv, NEW p \in Pipe, ExecPass(p)
  PROVE  BindingsInv'
<1>1. PICK junk : Executed(p, junk)
  BY ExecFacts
<1>2. /\ pc = "idle" /\ p \in built /\ pairs' = [pairs EXCEPT ![p] = UpdatedPairs(p)] /\ program_id' = ProgramOf[p]
      /\ pc' = "draw" /\ cur' = p /\ features' = features /\ built' = built
  BY ExecFacts
<1> DEFINE e == [gl EXCEPT !.program = ProgramOf[p],
                           !.values = [gl.values EXCEPT ![ProgramOf[p]] = SetTextures(p, GivenValues(p), junk).values],
                           !.buffers = SetBuffers(p)]
<1>3. e \in Bindings /\ e.program = ProgramOf[p] /\ e.arrays = gl.arrays /\ gl' = BindArrays(e, p)
  BY <1>1 DEF Executed
<1> HIDE DEF e
<1>4. /\ gl' \in Bindings /\ gl'.program = ProgramOf[p]
      /\ \A q \in Pipe : gl'.arrays[q] = gl.arrays[q]
      /\ p \in Compute => gl'.arrays = gl.arrays
      /\ p \notin Compute /\ ~HasVao => gl'.arrays[NoVao] = SetArrays(gl.arrays[NoVao], p)
  BY <1>3, BindArraysFacts
<1>5. HasVao' = HasVao /\ \A q : SetArrays(NoArrays, q)' = SetArrays(NoArrays, q)
  BY <1>2 DEF HasVao, SetArrays
<1>6. HasVao => \A q \in built \ Compute : gl'.arrays[q] = SetArrays(NoArrays, q)
  BY <1>4 DEF BindingsInv
<1>7. ASSUME ~HasVao, NEW l \in Loc
      PROVE  IF AttributeAt(p, l) # {}
             THEN "instanced_array" \notin features => gl'.arrays[NoVao][l].rate = 0
             ELSE Idle(gl'.arrays[NoVao][l])
  <2>1. Idle(gl.arrays[NoVao][l])
    BY <1>2, <1>7 DEF BindingsInv
  <2>2. CASE p \in Compute
    <3>1. AttributeAt(p, l) = {}
      BY <2>2, AttributeFacts
    <3> QED
      BY <1>4, <2>1, <2>2, <3>1
  <2>3. CASE p \notin Compute
    <3>1. gl.arrays[NoVao] \in Arrays
      BY DEF BindingsInv, Bindings
    <3>2. IF AttributeAt(p, l) = {} THEN SetArrays(gl.arrays[NoVao], p)[l] = gl.arrays[NoVao][l]
          ELSE "instanced_array" \notin features => SetArrays(gl.arrays[NoVao], p)[l].rate = gl.arrays[NoVao][l].rate
      BY <3>1, SetArraysFacts
    <3> QED
      BY <1>4, <1>7, <2>1, <2>3, <3>2 DEF Idle
  <2> QED
    BY <2>2, <2>3
<1>8. ASSUME NEW q \in built
      PROVE  Buildable(q)' /\ PairsFit(q)'
  <2>1. Buildable(q)'
    BY <1>2 DEF BindingsInv, Buildable, TypesMatch, BindingsFit, BlocksFit, ComputeFit, GraphicsFit, RatesFit
  <2>2. CASE q = p
    <3>1. pairs'[p] = UpdatedPairs(p)
      BY <1>2 DEF BindingsInv
    <3>2. PairsFit(p) /\ image \in [Tex -> Images]
      BY <1>2 DEF BindingsInv, TexturesInv
    <3>3. LET U == UpdatedPairs(p) IN
          /\ U \in Seq(Pair(p)) /\ Len(U) = Len(TexturePairs[p])
          /\ \A i \in 1 .. Len(U) : U[i].name = TexturePairs[p][i].name
      BY <3>2, UpdatedFacts
    <3> QED
      BY <2>1, <2>2, <3>1, <3>3 DEF PairsFit
  <2>3. CASE q # p
    <3>1. pairs'[q] = pairs[q]
      BY <1>2, <2>3 DEF BindingsInv
    <3> QED
      BY <2>1, <3>1 DEF BindingsInv, PairsFit
  <2> QED
    BY <2>2, <2>3
<1>9. pairs' = [q \in Pipe |-> pairs'[q]]
  BY <1>2 DEF BindingsInv
<1> QED
  BY <1>2, <1>4, <1>5, <1>6, <1>7, <1>8, <1>9, ProgramFacts DEF BindingsInv

(***************************************************************************)
(* What the textures of a pass are bound to                                *)
(***************************************************************************)
(* Only the samplers are given a unit.                                     *)
LEMMA SetTexturesKeeps ==
  ASSUME t \in TextureState, NEW p \in Pipe, UpdatedPairs(p) \in Seq(Pair(p)), NEW junk \in Nat,
         NEW values, Beginning(p, values) \in Going(p, t)
  PROVE  \A n \in Variable(ProgramOf[p]) \ Declares[ProgramOf[p]].samplers :
           SetTextures(p, values, junk).values[n] = values[n]
<1> DEFINE U == UpdatedPairs(p)
           N == Len(U)
           others == Variable(ProgramOf[p]) \ Declares[ProgramOf[p]].samplers
<1>1. PICK g \in [0 .. N -> Going(p, t)] :
        SetsStepwise(g, p, U, Beginning(p, values), junk, SetTextures(p, values, junk))
  BY SetTexturesSteps
<1>2. N \in Nat /\ \A k \in 0 .. N - 1 : U[k + 1] \in Pair(p)
  BY LenProperties, ElementOfSeq
<1> HIDE DEF U, N
<1> DEFINE G == {k \in 0 .. N : \A n \in others : g[k].values[n] = values[n]}
<1>3. 0 \in G
  BY <1>1, <1>2 DEF SetsStepwise, Beginning, N
<1>4. ASSUME NEW k \in 0 .. N - 1, k \in G
      PROVE  k + 1 \in G
  <2>1. g[k] \in Going(p, t) /\ k + 1 \in 0 .. N
    BY <1>2
  <2>2. g[k + 1] = SetTexture(p, g[k], U[k + 1], junk)
    BY <1>1 DEF SetsStepwise, N
  <2>3. \A n \in Variable(ProgramOf[p]) \ {U[k + 1].name} : g[k + 1].values[n] = g[k].values[n]
    BY <1>2, <2>1, <2>2, SetTextureFacts
  <2>4. U[k + 1].name \in Declares[ProgramOf[p]].samplers
    BY <1>2 DEF Pair
  <2> QED
    BY <1>4, <2>1, <2>3, <2>4
<1> HIDE DEF G
<1>5. N \in G
  <2>1. N \in Nat /\ N \in 0 .. N
    BY <1>2
  <2>2. \A k \in 0 .. N : k \in G
    BY <1>3, <1>4, <2>1, CountingUp
  <2> QED
    BY <2>1, <2>2
<1> QED
  BY <1>1, <1>5 DEF SetsStepwise, G, N

(* The bindings of the images are distinct when they fit.                  *)
LEMMA BindingsApart ==
  ASSUME NEW p \in Pipe, BindingsFit(p)
  PROVE  \A i, j \in ImagePairs[p] :
           Binding(p, TexturePairs[p][i].name) = Binding(p, TexturePairs[p][j].name) => i = j
<1> DEFINE I == ImagePairs[p]
           B == UsedUnits[p]
           f == [i \in I |-> Binding(p, TexturePairs[p][i].name)]
<1>1. I \in SUBSET (1 .. Len(TexturePairs[p])) /\ Len(TexturePairs[p]) \in Nat
  BY PairsFacts, LenProperties DEF ImagePairs
<1>2. IsFiniteSet(I)
  <2>1. IsFiniteSet(1 .. Len(TexturePairs[p]))
    BY <1>1, FS_Interval
  <2> HIDE DEF I
  <2> QED
    BY <1>1, <2>1, FS_Subset
<1>3. B = {f[i] : i \in I}
  BY DEF UsedUnits
<1>4. Cardinality(I) = Cardinality(B)
  BY DEF BindingsFit
<1> HIDE DEF B, I
<1>5. f \in Surjection(I, B)
  BY <1>3 DEF Surjection
<1>6. f \in Injection(I, B)
  BY <1>2, <1>4, <1>5, FS_SurjSameCardinalityImpliesInj, Zenon
<1> QED
  BY <1>6 DEF Injection, IsInjective, I

(* Each pair is bound once: the unit of a sampler is that of no other one. *)
BoundApart(p, U, g, k, junk) ==
  /\ ~g.full
  /\ \A i \in 1 .. k : IsImage(p, U[i].name) => g.t.images[Binding(p, U[i].name)] = What(U[i], junk).id
  /\ \A i \in 1 .. k : ~IsImage(p, U[i].name) =>
       /\ g.values[U[i].name] \in g.used
       /\ What(U[i], junk).target \in Target =>
            g.t.units[g.values[U[i].name]][What(U[i], junk).target] = What(U[i], junk).id
  /\ \A i, j \in 1 .. k :
       ~IsImage(p, U[i].name) /\ ~IsImage(p, U[j].name) /\ g.values[U[i].name] = g.values[U[j].name] => i = j

PairsApart(p, U, n) ==
  /\ \A i \in 1 .. n : U[i] \in Pair(p)
  /\ \A i, j \in 1 .. n : U[i].name = U[j].name => i = j
  /\ \A i, j \in 1 .. n :
       IsImage(p, U[i].name) /\ IsImage(p, U[j].name) /\ Binding(p, U[i].name) = Binding(p, U[j].name) => i = j

(* A sampler takes one more unit.                                          *)
TakesAUnit(p, b, c, pair) ==
  IF IsImage(p, pair.name) THEN c.used = b.used ELSE \E unit \in Unit \ b.used : c.used = b.used \union {unit}

LEMMA SetTextureBinds ==
  ASSUME t \in TextureState, NEW p \in Pipe, NEW b \in Going(p, t), NEW junk \in Nat, NEW U, NEW k \in Nat,
         NEW n, n = k + 1, PairsApart(p, U, n),
         BoundApart(p, U, b, k, junk),
         NEW pair, pair = U[n], NEW c, c = SetTexture(p, b, pair, junk),
         ~IsImage(p, pair.name) => FreeUnits(b.used) # {}
  PROVE  BoundApart(p, U, c, n, junk) /\ TakesAUnit(p, b, c, pair)
<1>0. /\ pair \in Pair(p) /\ c = SetTexture(p, b, pair, junk) /\ pair = U[k + 1]
      /\ ~IsImage(p, pair.name) => FreeUnits(b.used) # {}
  BY DEF PairsApart
<1>1. /\ c \in Going(p, t) /\ ~b.full /\ k + 1 \in 1 .. k + 1
      /\ \A i \in 1 .. k + 1 : i = k + 1 \/ i \in 1 .. k
      /\ \A i \in 1 .. k : i \in 1 .. k + 1 /\ i # k + 1
  <2>1. c \in Going(p, t)
    BY <1>0, SetTextureFacts, Zenon
  <2>2. ~b.full
    BY DEF BoundApart
  <2> QED
    BY <2>1, <2>2
<1>2. /\ \A i \in 1 .. k : IsImage(p, U[i].name) => b.t.images[Binding(p, U[i].name)] = What(U[i], junk).id
      /\ \A i \in 1 .. k : ~IsImage(p, U[i].name) =>
           /\ b.values[U[i].name] \in b.used
           /\ What(U[i], junk).target \in Target =>
                b.t.units[b.values[U[i].name]][What(U[i], junk).target] = What(U[i], junk).id
      /\ \A i, j \in 1 .. k :
           ~IsImage(p, U[i].name) /\ ~IsImage(p, U[j].name) /\ b.values[U[i].name] = b.values[U[j].name] => i = j
  BY DEF BoundApart
<1>3. \A i \in 1 .. k : c.values[U[i].name] = b.values[U[i].name]
  <2>1. \A m \in Variable(ProgramOf[p]) \ {pair.name} : c.values[m] = b.values[m]
    BY <1>0, SetTextureFacts
  <2>2. \A i \in 1 .. k : U[i].name \in Variable(ProgramOf[p]) /\ U[i].name # pair.name
    BY <1>0, <1>1 DEF Pair, Variable, PairsApart
  <2> QED
    BY <2>1, <2>2
<1>4. CASE IsImage(p, pair.name)
  <2>1. /\ c.values = b.values /\ c.used = b.used /\ c.full = b.full /\ c.t.units = b.t.units
        /\ c.t.images[Binding(p, pair.name)] = What(pair, junk).id
        /\ \A u \in ImageUnit \ {Binding(p, pair.name)} : c.t.images[u] = b.t.images[u]
    <3>1. ImageSet(p, b, pair, junk, c)
      BY <1>0, <1>1, <1>4, SetTextureFacts
    <3> QED
      BY <3>1 DEF ImageSet
  <2>2. \A i \in 1 .. k : IsImage(p, U[i].name) =>
          Binding(p, U[i].name) \in ImageUnit /\ Binding(p, U[i].name) # Binding(p, pair.name)
    <3>1. \A i \in 1 .. k : IsImage(p, U[i].name) => Binding(p, U[i].name) \in ImageUnit
      BY ProgramFacts DEF IsImage, Binding, ImageUnit, Range
    <3> QED
      BY <1>0, <1>1, <1>4, <3>1 DEF PairsApart
  <2>3. \A i \in 1 .. k + 1 : IsImage(p, U[i].name) => c.t.images[Binding(p, U[i].name)] = What(U[i], junk).id
    BY <1>0, <1>1, <1>2, <2>1, <2>2
  <2>4. \A i \in 1 .. k + 1 : ~IsImage(p, U[i].name) => i \in 1 .. k
    BY <1>0, <1>1, <1>4
  <2>5. /\ \A i \in 1 .. k + 1 : ~IsImage(p, U[i].name) =>
             /\ c.values[U[i].name] \in c.used
             /\ What(U[i], junk).target \in Target =>
                  c.t.units[c.values[U[i].name]][What(U[i], junk).target] = What(U[i], junk).id
        /\ \A i, j \in 1 .. k + 1 :
             ~IsImage(p, U[i].name) /\ ~IsImage(p, U[j].name) /\ c.values[U[i].name] = c.values[U[j].name] => i = j
    <3>1. ASSUME NEW i \in 1 .. k + 1, ~IsImage(p, U[i].name)
          PROVE  /\ c.values[U[i].name] \in c.used
                 /\ What(U[i], junk).target \in Target =>
                      c.t.units[c.values[U[i].name]][What(U[i], junk).target] = What(U[i], junk).id
      <4>1. i \in 1 .. k
        BY <2>4, <3>1
      <4> QED
        BY <1>2, <2>1, <3>1, <4>1
    <3>2. ASSUME NEW i \in 1 .. k + 1, NEW j \in 1 .. k + 1, ~IsImage(p, U[i].name), ~IsImage(p, U[j].name),
                 c.values[U[i].name] = c.values[U[j].name]
          PROVE  i = j
      <4>1. i \in 1 .. k /\ j \in 1 .. k /\ b.values[U[i].name] = b.values[U[j].name]
        BY <2>1, <2>4, <3>2
      <4> QED
        BY <1>2, <3>2, <4>1
    <3> QED
      BY <3>1, <3>2
  <2>6. BoundApart(p, U, c, n, junk)
    BY <1>1, <2>1, <2>3, <2>5 DEF BoundApart
  <2>7. TakesAUnit(p, b, c, pair)
    BY <1>4, <2>1 DEF TakesAUnit
  <2> QED
    BY <2>6, <2>7
<1>5. CASE ~IsImage(p, pair.name)
  <2> DEFINE unit == c.values[pair.name]
  <2>0. SamplerSet(b, pair, junk, c)
    BY <1>0, <1>1, <1>5, SetTextureFacts
  <2>1. /\ unit \in Unit /\ unit \notin b.used /\ c.used = b.used \union {unit} /\ c.full = b.full
        /\ c.t.images = b.t.images
        /\ \A u \in Unit \ {unit} : c.t.units[u] = b.t.units[u]
        /\ What(pair, junk).target \in Target =>
             c.t.units[unit][What(pair, junk).target] = What(pair, junk).id
    BY <2>0 DEF SamplerSet
  <2> HIDE DEF unit
  <2>2. b.used \in SUBSET Unit
    BY DEF Going
  <2>3. \A i \in 1 .. k : ~IsImage(p, U[i].name) =>
          /\ c.values[U[i].name] \in b.used /\ c.values[U[i].name] # unit
          /\ What(U[i], junk).target \in Target =>
               c.t.units[c.values[U[i].name]][What(U[i], junk).target] = What(U[i], junk).id
    <3> SUFFICES ASSUME NEW i \in 1 .. k, ~IsImage(p, U[i].name)
                 PROVE  /\ c.values[U[i].name] \in b.used /\ c.values[U[i].name] # unit
                        /\ What(U[i], junk).target \in Target =>
                             c.t.units[c.values[U[i].name]][What(U[i], junk).target] = What(U[i], junk).id
      OBVIOUS
    <3>1. c.values[U[i].name] \in b.used /\ c.values[U[i].name] = b.values[U[i].name]
      BY <1>2, <1>3
    <3>2. c.values[U[i].name] # unit /\ c.t.units[c.values[U[i].name]] = b.t.units[c.values[U[i].name]]
      BY <2>1, <2>2, <3>1
    <3> QED
      BY <1>2, <3>1, <3>2
  <2>4. \A i \in 1 .. k + 1 : IsImage(p, U[i].name) => c.t.images[Binding(p, U[i].name)] = What(U[i], junk).id
    BY <1>0, <1>1, <1>2, <1>5, <2>1
  <2>5. \A i \in 1 .. k + 1 : ~IsImage(p, U[i].name) =>
          /\ c.values[U[i].name] \in c.used
          /\ What(U[i], junk).target \in Target =>
               c.t.units[c.values[U[i].name]][What(U[i], junk).target] = What(U[i], junk).id
    BY <1>0, <1>1, <2>1, <2>3 DEF unit
  <2>6. \A i, j \in 1 .. k + 1 :
          ~IsImage(p, U[i].name) /\ ~IsImage(p, U[j].name) /\ c.values[U[i].name] = c.values[U[j].name] => i = j
    <3>1. \A i, j \in 1 .. k :
            ~IsImage(p, U[i].name) /\ ~IsImage(p, U[j].name) /\ c.values[U[i].name] = c.values[U[j].name] => i = j
      BY <1>2, <1>3
    <3>2. c.values[U[k + 1].name] = unit
      BY <1>0 DEF unit
    <3> QED
      BY <1>1, <2>3, <3>1, <3>2
  <2>7. BoundApart(p, U, c, n, junk)
    BY <1>1, <2>1, <2>4, <2>5, <2>6 DEF BoundApart
  <2>8. TakesAUnit(p, b, c, pair)
    BY <1>5, <2>1 DEF TakesAUnit
  <2> QED
    BY <2>7, <2>8
<1> QED
  BY <1>0, <1>4, <1>5

LEMMA SetTexturesBind ==
  ASSUME t \in TextureState, NEW p \in Pipe, image \in [Tex -> Images], PairsFit(p), BindingsFit(p),
         Len(TexturePairs[p]) <= Cardinality(Unit), NEW junk \in Nat,
         NEW values, Beginning(p, values) \in Going(p, t)
  PROVE  BoundApart(p, UpdatedPairs(p), SetTextures(p, values, junk), Len(UpdatedPairs(p)), junk)
<1> DEFINE U == UpdatedPairs(p)
           N == Len(U)
           I == ImagePairs[p]
           T(k) == I \union 1 .. k
<1>1. /\ U \in Seq(Pair(p)) /\ N = Len(TexturePairs[p]) /\ N \in Nat
      /\ \A i \in 1 .. N : U[i] \in Pair(p) /\ U[i].name = TexturePairs[p][i].name
      /\ \A k \in 0 .. N - 1 : k + 1 \in 1 .. N
  BY UpdatedFacts, LenProperties, ElementOfSeq
<1>2. PICK g \in [0 .. N -> Going(p, t)] :
        SetsStepwise(g, p, U, Beginning(p, values), junk, SetTextures(p, values, junk))
  BY <1>1, SetTexturesSteps
<1>3. \A i, j \in 1 .. N : U[i].name = U[j].name => i = j
  BY <1>1, PairsFacts
<1>4. I \in SUBSET (1 .. N) /\ \A i \in 1 .. N : i \in I <=> IsImage(p, U[i].name)
  BY <1>1, PairsFacts, LenProperties DEF ImagePairs
<1>5. \A i, j \in I : Binding(p, U[i].name) = Binding(p, U[j].name) => i = j
  BY <1>1, <1>4, BindingsApart
<1>6. \A i \in 1 .. N : What(U[i], junk).target \in Target \union {"none"}
  BY <1>1, WhatType
<1>7. IsFiniteSet(Unit) /\ N <= Cardinality(Unit) /\ Cardinality(Unit) \in Nat
  BY <1>1, TexturesAssumption, FS_CardinalityType
<1>8. ASSUME NEW k \in 0 .. N
      PROVE  IsFiniteSet(T(k)) /\ Cardinality(T(k)) \in Nat /\ T(k) \in SUBSET (1 .. N)
  <2>1. T(k) \in SUBSET (1 .. N)
    BY <1>1, <1>4
  <2> HIDE DEF T
  <2>2. IsFiniteSet(1 .. N)
    BY <1>1, FS_Interval
  <2> QED
    BY <2>1, <2>2, FS_Subset, FS_CardinalityType
<1>9. ASSUME NEW k \in 0 .. N - 1
      PROVE  /\ Cardinality(T(k)) <= Cardinality(T(k + 1))
             /\ k + 1 \notin I => /\ Cardinality(T(k + 1)) = Cardinality(T(k)) + 1
                                  /\ Cardinality(T(k)) < N
  <2>1. k \in 0 .. N /\ k + 1 \in 0 .. N
    BY <1>1
  <2>2. T(k + 1) = T(k) \union {k + 1}
    BY <1>1
  <2>3. k + 1 \notin I => k + 1 \notin T(k)
    BY <1>1
  <2> HIDE DEF T
  <2>4. Cardinality(T(k + 1)) = IF k + 1 \in T(k) THEN Cardinality(T(k)) ELSE Cardinality(T(k)) + 1
    BY <1>8, <2>1, <2>2, FS_AddElement
  <2>5. Cardinality(T(k + 1)) <= N
    <3>1. IsFiniteSet(1 .. N) /\ Cardinality(1 .. N) = N
      <4>1. 1 \in Int /\ N \in Int
        BY <1>1
      <4>2. IsFiniteSet(1 .. N) /\ Cardinality(1 .. N) = IF 1 > N THEN 0 ELSE N - 1 + 1
        BY <4>1, FS_Interval
      <4> QED
        BY <1>1, <4>2
    <3> QED
      BY <1>8, <2>1, <3>1, FS_Subset
  <2> QED
    BY <1>1, <1>8, <2>1, <2>3, <2>4, <2>5
<1> HIDE DEF U, N, I, T
<1> DEFINE G == {k \in 0 .. N : /\ BoundApart(p, U, g[k], k, junk)
                               /\ Cardinality(g[k].used) <= Cardinality(T(k))}
<1>10. 0 \in G
  <2>1. g[0] = Beginning(p, values)
    BY <1>2 DEF SetsStepwise
  <2>2. ~g[0].full /\ g[0].used = UsedUnits[p]
    BY <2>1 DEF Beginning
  <2>3. Cardinality(UsedUnits[p]) = Cardinality(T(0))
    <3>1. T(0) = I
      BY DEF T
    <3> QED
      BY <3>1 DEF BindingsFit, I
  <2>4. BoundApart(p, U, g[0], 0, junk)
    BY <2>2 DEF BoundApart
  <2>5. 0 \in 0 .. N /\ Cardinality(T(0)) \in Nat
    BY <1>1, <1>8
  <2> QED
    BY <2>2, <2>3, <2>4, <2>5
<1>11. ASSUME NEW k \in 0 .. N - 1, k \in G
       PROVE  k + 1 \in G
  <2>1. /\ g[k] \in Going(p, t) /\ k \in 0 .. N /\ k + 1 \in 0 .. N /\ k + 1 \in 1 .. N /\ k \in Nat
        /\ \A i \in 1 .. k + 1 : i \in 1 .. N
    BY <1>1
  <2>2. g[k + 1] = SetTexture(p, g[k], U[k + 1], junk)
    BY <1>2 DEF SetsStepwise, N
  <2>3. BoundApart(p, U, g[k], k, junk) /\ Cardinality(g[k].used) <= Cardinality(T(k))
    BY <1>11
  <2>4. g[k].used \in SUBSET Unit /\ IsFiniteSet(g[k].used) /\ Cardinality(g[k].used) \in Nat
    <3>1. g[k].used \in SUBSET Unit
      BY <2>1 DEF Going
    <3> QED
      BY <1>7, <3>1, FS_Subset, FS_CardinalityType
  <2>5. /\ Cardinality(T(k)) \in Nat /\ Cardinality(T(k + 1)) \in Nat
        /\ Cardinality(T(k)) <= Cardinality(T(k + 1))
        /\ k + 1 \notin I => Cardinality(T(k + 1)) = Cardinality(T(k)) + 1 /\ Cardinality(T(k)) < N
    BY <1>8, <1>9, <2>1
  <2>6. ASSUME ~IsImage(p, U[k + 1].name)
        PROVE  FreeUnits(g[k].used) # {}
    <3>1. SUFFICES ASSUME FreeUnits(g[k].used) = {}
                   PROVE  FALSE
      OBVIOUS
    <3>2. Unit \in SUBSET g[k].used
      BY <3>1 DEF FreeUnits
    <3>3. Cardinality(Unit) <= Cardinality(g[k].used)
      BY <2>4, <3>2, FS_Subset
    <3>4. k + 1 \notin I
      BY <1>4, <2>1, <2>6
    <3> QED
      BY <1>1, <1>7, <2>3, <2>4, <2>5, <3>3, <3>4
  <2>7. PairsApart(p, U, k + 1)
    BY <1>1, <1>3, <1>4, <1>5, <2>1 DEF PairsApart
  <2>9. /\ BoundApart(p, U, g[k + 1], k + 1, junk)
        /\ TakesAUnit(p, g[k], g[k + 1], U[k + 1])
    <3> DEFINE b == g[k]
               c == g[k + 1]
               n == k + 1
               pair == U[n]
    <3>1. /\ b \in Going(p, t) /\ BoundApart(p, U, b, k, junk) /\ c = SetTexture(p, b, pair, junk)
          /\ pair = U[n] /\ n = k + 1 /\ k \in Nat /\ PairsApart(p, U, n)
          /\ ~IsImage(p, pair.name) => FreeUnits(b.used) # {}
      BY <2>1, <2>2, <2>3, <2>6, <2>7
    <3> HIDE DEF b, c, n, pair
    <3>2. BoundApart(p, U, c, n, junk) /\ TakesAUnit(p, b, c, pair)
      BY <3>1, SetTextureBinds
    <3> QED
      BY <3>2 DEF b, c, n, pair
  <2>10. Cardinality(g[k + 1].used) <= Cardinality(T(k + 1))
    <3>1. CASE IsImage(p, U[k + 1].name)
      BY <2>3, <2>4, <2>5, <2>9, <3>1 DEF TakesAUnit
    <3>2. CASE ~IsImage(p, U[k + 1].name)
      <4>1. PICK unit \in Unit \ g[k].used : g[k + 1].used = g[k].used \union {unit}
        BY <2>9, <3>2 DEF TakesAUnit
      <4>2. Cardinality(g[k + 1].used) = Cardinality(g[k].used) + 1
        BY <2>4, <4>1, FS_AddElement
      <4>3. k + 1 \notin I
        BY <1>4, <2>1, <3>2
      <4> QED
        BY <2>3, <2>4, <2>5, <4>2, <4>3
    <3> QED
      BY <3>1, <3>2
  <2> QED
    BY <2>1, <2>9, <2>10
<1> HIDE DEF G
<1>12. N \in G
  <2>1. N \in Nat /\ N \in 0 .. N
    BY <1>1
  <2>2. \A k \in 0 .. N : k \in G
    BY <1>10, <1>11, <2>1, CountingUp
  <2> QED
    BY <2>1, <2>2
<1> QED
  BY <1>2, <1>12 DEF SetsStepwise, G, N, U

(***************************************************************************)
(* The inductive invariant                                                 *)
(***************************************************************************)
Inv == TexturesInv /\ BindingsInv

LEMMA InvInit == Init => Inv
BY InitTextures, InitBindings DEF Inv

LEMMA InvNext ==
  ASSUME Inv, [Next]_vars
  PROVE  Inv'
<1>1. TexturesInv /\ BindingsInv
  BY DEF Inv
<1>2. ASSUME NEW x \in Tex, Prefetch(x)
      PROVE  Inv'
  <2>1. UNCHANGED <<features, pipeVars, pc, cur>>
    BY <1>2 DEF Prefetch
  <2> QED
    BY <1>1, <1>2, <2>1, PrefetchKeepsTextures, OthersKeepBindings DEF Inv
<1>3. ASSUME NEW x \in Tex, UpdateTexture(x)
      PROVE  Inv'
  <2>1. UNCHANGED <<features, pipeVars, pc, cur>>
    BY <1>3 DEF UpdateTexture
  <2> QED
    BY <1>1, <1>3, <2>1, UpdateKeepsTextures, OthersKeepBindings DEF Inv
<1>4. ASSUME NEW x \in Tex, ReleaseTexture(x)
      PROVE  Inv'
  <2>1. UNCHANGED <<features, pipeVars, pc, cur>>
    BY <1>4 DEF ReleaseTexture
  <2> QED
    BY <1>1, <1>4, <2>1, ReleaseKeepsTextures, OthersKeepBindings DEF Inv
<1>5. ASSUME NEW S \in Scenes, SetScene(S)
      PROVE  Inv'
  <2>1. S \in SUBSET Pipe
    BY PipelinesAssumption
  <2> QED
    BY <1>1, <1>5, <2>1, SetSceneKeepsTextures, SetSceneKeepsBindings DEF Inv
<1>6. ASSUME NEW p \in Pipe, ExecPass(p)
      PROVE  Inv'
  BY <1>1, <1>6, ExecKeepsTextures, ExecKeepsBindings DEF Inv
<1>7. ASSUME Drawn
      PROVE  Inv'
  <2>1. UNCHANGED <<ready, t, image, mapped, stride>>
    BY <1>7 DEF Drawn, texVars
  <2>2. TexturesInv'
    BY <1>1, <2>1 DEF TexturesInv
  <2> QED
    BY <1>1, <1>7, <2>2, DrawnKeepsBindings DEF Inv
<1>8. ASSUME UNCHANGED vars
      PROVE  Inv'
  <2>1. UNCHANGED <<ready, t, image, mapped, stride>> /\ UNCHANGED <<features, pipeVars, pc, cur>>
    BY <1>8 DEF vars, texVars
  <2>2. TexturesInv'
    BY <1>1, <2>1 DEF TexturesInv
  <2> QED
    BY <1>1, <2>1, <2>2, OthersKeepBindings DEF Inv
<1> QED
  BY <1>2, <1>3, <1>4, <1>5, <1>6, <1>7, <1>8 DEF Next

(* A property of the draws holds if the execution of a pass brings it      *)
(* about: until the draw nothing else runs.                                *)
LEMMA OnlyDrawn ==
  ASSUME Inv, [Next]_vars, ~\E p \in Pipe : ExecPass(p)
  PROVE  UNCHANGED vars \/ ~Drawing'
<1>1. pc = "idle" \/ pc = "draw"
  BY DEF Inv, BindingsInv
<1>2. CASE UNCHANGED vars
  BY <1>2
<1>3. CASE Next
  BY <1>3 DEF Next, Prefetch, UpdateTexture, ReleaseTexture, SetScene, Drawn, Drawing
<1> QED
  BY <1>2, <1>3

(* At every moment the rows of every texture are those of its data, for    *)
(* any parameters, line sizes and frames.                                  *)
THEOREM RowsStayInPlace == Spec => []RowsInPlace
<1>1. Inv => RowsInPlace
  BY DEF Inv, TexturesInv, Fits, RowsFit, RowsInPlace
<1> QED
  BY <1>1, InvInit, InvNext, PTL DEF Spec

(***************************************************************************)
(* What a draw reads                                                       *)
(***************************************************************************)
(* The bindings of uniform blocks are given by program.c; those of storage *)
(* blocks are those of the shader, which a scene is to keep apart.         *)
BlocksApart ==
  \A p \in Pipe : \A m, n \in Blocks(p) :
    Declares[ProgramOf[p]].blocks[m] = Declares[ProgramOf[p]].blocks[n] => m = n

LEMMA SuffixFacts ==
  ASSUME NEW p \in Pipe
  PROVE  /\ \A n \in Declares[ProgramOf[p]].samplers :
              n[2] \notin {"sampling_mode", "dimensions", "modelview_matrix"}
         /\ \A n \in Uniforms(p) : n[1] = "" /\ n \in Variable(ProgramOf[p]) \ Declares[ProgramOf[p]].samplers
<1>1. ToSet(SamplerSuffixes) = {SamplerSuffixes[i] : i \in 1 .. 6}
  BY DEF SamplerSuffixes, ToSet
<1>2. \A s \in ToSet(SamplerSuffixes) : s \notin {"sampling_mode", "dimensions", "modelview_matrix"}
  BY <1>1 DEF SamplerSuffixes
<1>3. /\ Declares[ProgramOf[p]].samplers \subseteq STRING \X ToSet(SamplerSuffixes)
      /\ DOMAIN Declares[ProgramOf[p]].uniforms \intersect Declares[ProgramOf[p]].samplers = {}
      /\ DOMAIN Given[p].uniforms \subseteq {""} \X STRING
  BY ProgramFacts DEF DeclaredType, GivenType
<1> QED
  BY <1>2, <1>3 DEF Uniforms, Variable

(* The values of the uniforms at the draw.                                 *)
LEMMA ExecValues ==
  ASSUME Inv, NEW p \in Pipe, ExecPass(p), NEW junk, Executed(p, junk)
  PROVE  LET values == gl'.values[ProgramOf[p]] IN
         /\ gl'.program = ProgramOf[p]
         /\ values = SetTextures(p, GivenValues(p), junk).values
         /\ DOMAIN values = Variable(ProgramOf[p])
         /\ \A n \in Uniforms(p) : values[n] = Given[p].uniforms[n]
         /\ \A n \in Variable(ProgramOf[p]) :
              n[1] # "" /\ n[2] \in {"sampling_mode", "dimensions", "modelview_matrix"} =>
                values[n] = Written(p, n, gl.values[ProgramOf[p]][n])
<1> DEFINE c == SetTextures(p, GivenValues(p), junk)
           e == [gl EXCEPT !.program = ProgramOf[p], !.values = [gl.values EXCEPT ![ProgramOf[p]] = c.values],
                           !.buffers = SetBuffers(p)]
           others == Variable(ProgramOf[p]) \ Declares[ProgramOf[p]].samplers
<1>1. /\ junk \in Nat /\ c \in Going(p, t) /\ Beginning(p, GivenValues(p)) \in Going(p, t)
      /\ e \in Bindings /\ e.program = ProgramOf[p] /\ e.values[ProgramOf[p]] = c.values
      /\ gl' = BindArrays(e, p)
  BY DEF Executed
<1>2. /\ t \in TextureState /\ image \in [Tex -> Images] /\ gl \in Bindings /\ PairsFit(p)
  BY DEF Inv, TexturesInv, BindingsInv, Sound, ExecPass
<1> HIDE DEF c, e
<1>3. gl'.program = ProgramOf[p] /\ gl'.values[ProgramOf[p]] = c.values
  BY <1>1, BindArraysFacts
<1>4. c.values \in [Variable(ProgramOf[p]) -> Value]
  BY <1>1 DEF Going
<1>5. \A n \in others : c.values[n] = GivenValues(p)[n]
  <2>1. UpdatedPairs(p) \in Seq(Pair(p))
    BY <1>2, UpdatedFacts
  <2> QED
    BY <1>1, <1>2, <2>1, SetTexturesKeeps DEF c
<1>6. \A n \in Variable(ProgramOf[p]) :
        GivenValues(p)[n] = IF n \in Uniforms(p) THEN Given[p].uniforms[n]
                            ELSE Written(p, n, gl.values[ProgramOf[p]][n])
  BY <1>2, WrittenType
<1>7. \A n \in Uniforms(p) : c.values[n] = Given[p].uniforms[n]
  BY <1>5, <1>6, SuffixFacts
<1>8. ASSUME NEW n \in Variable(ProgramOf[p]), n[1] # "",
             n[2] \in {"sampling_mode", "dimensions", "modelview_matrix"}
      PROVE  c.values[n] = Written(p, n, gl.values[ProgramOf[p]][n])
  BY <1>5, <1>6, <1>8, SuffixFacts
<1> QED
  BY <1>3, <1>4, <1>7, <1>8 DEF c

(* For passes whose storage blocks have bindings of their own, a draw      *)
(* reads the uniforms, the blocks and the arrays of its own pass, whatever *)
(* the passes before it have left in the program, in the vertex array      *)
(* object or at the locations.                                             *)
LEMMA ExecIsOwn ==
  ASSUME BlocksApart, Inv, NEW p \in Pipe, ExecPass(p)
  PROVE  DrawsItsOwn'
<1>1. PICK junk : Executed(p, junk)
  BY ExecFacts DEF Inv
<1>2. /\ p \in built /\ cur' = p /\ features' = features /\ image' = image /\ pc = "idle"
  BY ExecFacts DEF Inv
<1> DEFINE g == ProgramOf[p]
           e == [gl EXCEPT !.program = g,
                           !.values = [gl.values EXCEPT ![g] = SetTextures(p, GivenValues(p), junk).values],
                           !.buffers = SetBuffers(p)]
           values == gl'.values[g]
<1>3. /\ gl'.program = g /\ DOMAIN values = Variable(g)
      /\ \A n \in Uniforms(p) : values[n] = Given[p].uniforms[n]
      /\ \A n \in Variable(g) : n[1] # "" /\ n[2] \in {"sampling_mode", "dimensions", "modelview_matrix"} =>
           values[n] = Written(p, n, gl.values[g][n])
  BY <1>1, ExecValues
<1>4. gl \in Bindings /\ e \in Bindings /\ e.buffers = SetBuffers(p) /\ e.arrays = gl.arrays /\ gl' = BindArrays(e, p)
  BY <1>1 DEF Executed, Inv, BindingsInv
<1> HIDE DEF e, values
<1> DEFINE vao == IF HasVao THEN p ELSE NoVao
<1>5. /\ gl'.buffers = SetBuffers(p)
      /\ p \notin Compute => /\ gl'.vao = vao
                             /\ gl'.arrays[vao] = IF HasVao THEN gl.arrays[vao] ELSE SetArrays(gl.arrays[vao], p)
                             /\ Given[p].indices # Null => gl'.elements[vao] = Given[p].indices
  BY <1>4, BindArraysFacts
<1>6. UniformsAreItsOwn'
  <2>1. ASSUME <<"ngl", "modelview_matrix">> \in DOMAIN values
        PROVE  values[<<"ngl", "modelview_matrix">>] = p
    BY <1>3, <2>1 DEF Written
  <2>2. ASSUME NEW n \in TextureNames(p), <<n, "dimensions">> \in DOMAIN values,
               image[TextureNamed(p, n)].layout # "none"
        PROVE  values[<<n, "dimensions">>] = image[TextureNamed(p, n)].size
    <3>1. n # ""
      BY TextureNamedType
    <3>2. values[<<n, "dimensions">>] = Written(p, <<n, "dimensions">>, gl.values[g][<<n, "dimensions">>])
      BY <1>3, <2>2, <3>1
    <3>3. <<n, "dimensions">> # <<"ngl", "modelview_matrix">>
      OBVIOUS
    <3> QED
      BY <2>2, <3>2, <3>3 DEF Written
  <2>3. ASSUME NEW n \in Blocks(p)
        PROVE  gl'.buffers[Declares[g].blocks[n]] = Given[p].blocks[n]
    <3>1. {m \in Blocks(p) : Declares[g].blocks[m] = Declares[g].blocks[n]} = {n}
      BY DEF BlocksApart
    <3>2. (CHOOSE m \in {n} : TRUE) = n
      OBVIOUS
    <3> QED
      BY <1>4, <1>5, <3>1, <3>2, SetBuffersFacts
  <2> QED
    BY <1>2, <1>3, <2>1, <2>2, <2>3 DEF UniformsAreItsOwn, values
<1>7. ASSUME p \notin Compute, NEW l \in Loc
      PROVE  IF AttributeAt(p, l) = {} THEN ~gl'.arrays[vao][l].enabled
             ELSE \E n \in AttributeAt(p, l) :
                    gl'.arrays[vao][l] = [enabled |-> TRUE, buffer |-> Given[p].attributes[n].buffer,
                                          rate |-> Given[p].attributes[n].rate]
  <2> DEFINE before == IF HasVao THEN NoArrays ELSE gl.arrays[NoVao]
             array == gl'.arrays[vao][l]
             n == CHOOSE n \in AttributeAt(p, l) : TRUE
             a == Given[p].attributes[n]
  <2>1. before \in Arrays /\ Idle(before[l])
    <3>1. CASE HasVao
      BY <3>1, NoArraysFacts
    <3>2. CASE ~HasVao
      BY <1>2, <1>4, <3>2 DEF Inv, BindingsInv, Bindings
    <3> QED
      BY <3>1, <3>2
  <2>2. gl'.arrays[vao] = SetArrays(before, p)
    BY <1>2, <1>5, <1>7 DEF Inv, BindingsInv
  <2> HIDE DEF before
  <2>3. /\ SetArrays(before, p) \in Arrays
        /\ IF AttributeAt(p, l) = {} THEN array = before[l]
           ELSE /\ array.enabled /\ array.buffer = a.buffer
                /\ array.rate = IF "instanced_array" \in features /\ a.rate > 0 THEN a.rate ELSE before[l].rate
    BY <2>1, <2>2, SetArraysFacts
  <2>4. array \in [enabled : BOOLEAN, buffer : Buffer \union {Null}, rate : Nat]
    BY <2>2, <2>3 DEF Arrays
  <2> HIDE DEF array
  <2>5. CASE AttributeAt(p, l) = {}
    BY <2>1, <2>3, <2>5 DEF Idle, array
  <2>6. CASE AttributeAt(p, l) # {}
    <3>1. n \in AttributeAt(p, l) /\ n \in Attributes(p) /\ a \in [buffer : Buffer, rate : Nat]
      BY <2>6, AttributeFacts
    <3>2. a.rate > 0 => "instanced_array" \in features
      BY <1>2, <1>7, <3>1 DEF Inv, BindingsInv, Buildable, GraphicsFit, RatesFit
    <3> HIDE DEF n, a
    <3>3. array.rate = a.rate
      BY <2>1, <2>3, <2>6, <3>1, <3>2 DEF Idle
    <3>4. array = [enabled |-> TRUE, buffer |-> a.buffer, rate |-> a.rate]
      BY <2>3, <2>4, <2>6, <3>3
    <3> QED
      BY <2>6, <3>1, <3>4 DEF array, a
  <2> QED
    BY <2>5, <2>6
<1>8. ArraysAreItsOwn'
  BY <1>2, <1>5, <1>7 DEF ArraysAreItsOwn
<1> QED
  BY <1>6, <1>8 DEF DrawsItsOwn

THEOREM DrawsStayItsOwn ==
  ASSUME BlocksApart
  PROVE  Spec => []DrawsItsOwn
<1> DEFINE J == Inv /\ DrawsItsOwn
<1>1. Init => J
  <2>1. Init => ~Drawing
    BY DEF Init, Drawing
  <2> QED
    BY <2>1, InvInit DEF DrawsItsOwn, UniformsAreItsOwn, ArraysAreItsOwn
<1>2. ASSUME J, [Next]_vars
      PROVE  J'
  <2>1. Inv'
    BY <1>2, InvNext
  <2>2. CASE \E p \in Pipe : ExecPass(p)
    BY <1>2, <2>1, <2>2, ExecIsOwn
  <2>3. CASE ~\E p \in Pipe : ExecPass(p)
    <3>1. UNCHANGED vars \/ ~Drawing'
      BY <1>2, <2>3, OnlyDrawn
    <3>2. CASE ~Drawing'
      BY <2>1, <3>2 DEF DrawsItsOwn, UniformsAreItsOwn, ArraysAreItsOwn
    <3>3. CASE UNCHANGED vars
      <4>1. UniformsAreItsOwn'
        BY <1>2, <3>3 DEF DrawsItsOwn, UniformsAreItsOwn, vars, texVars, pipeVars, Drawing
      <4>2. ArraysAreItsOwn'
        BY <1>2, <3>3 DEF DrawsItsOwn, ArraysAreItsOwn, vars, texVars, pipeVars, Drawing
      <4> QED
        BY <2>1, <4>1, <4>2 DEF DrawsItsOwn
    <3> QED
      BY <3>1, <3>2, <3>3
  <2> QED
    BY <2>2, <2>3
<1>3. J => DrawsItsOwn
  OBVIOUS
<1> HIDE DEF J
<1> QED
  BY <1>1, <1>2, <1>3, PTL DEF Spec

(***************************************************************************)
(* The textures a draw samples                                             *)
(***************************************************************************)
(* A pass has no more samplers than the units it may take.                 *)
EnoughUnits == \A p \in Pipe : Len(TexturePairs[p]) <= Cardinality(Unit)

(* The pair of a sampler, and what its execution has bound for it.         *)
LEMMA ExecPairs ==
  ASSUME EnoughUnits, Inv, NEW p \in Pipe, ExecPass(p), NEW junk, Executed(p, junk)
  PROVE  LET U == UpdatedPairs(p)
             values == gl'.values[ProgramOf[p]]
         IN
         /\ \A s \in Declares[ProgramOf[p]].samplers :
              s[1] \in TextureNames(p) => \E i \in 1 .. Len(U) : U[i].name = s
         /\ \A i, j \in 1 .. Len(U) :
              ~IsImage(p, U[i].name) /\ ~IsImage(p, U[j].name) /\ values[U[i].name] = values[U[j].name] => i = j
         /\ \A i \in 1 .. Len(U) : LET s == U[i].name IN
              IF IsImage(p, s) THEN t'.images[Binding(p, s)] = What(U[i], junk).id
              ELSE What(U[i], junk).target \in Target =>
                     t'.units[values[s]][What(U[i], junk).target] = What(U[i], junk).id
<1> DEFINE U == UpdatedPairs(p)
           c == SetTextures(p, GivenValues(p), junk)
           values == gl'.values[ProgramOf[p]]
<1>1. /\ t \in TextureState /\ image \in [Tex -> Images] /\ PairsFit(p) /\ BindingsFit(p)
      /\ Len(TexturePairs[p]) <= Cardinality(Unit)
  BY DEF Inv, TexturesInv, BindingsInv, Sound, ExecPass, Buildable, EnoughUnits
<1>2. junk \in Nat /\ Beginning(p, GivenValues(p)) \in Going(p, t) /\ t' = c.t
  BY DEF Executed
<1>3. BoundApart(p, U, c, Len(U), junk)
  BY <1>1, <1>2, SetTexturesBind
<1>4. values = c.values
  BY ExecValues
<1>5. Len(U) = Len(TexturePairs[p]) /\ \A i \in 1 .. Len(U) : U[i].name = TexturePairs[p][i].name
  BY <1>1, UpdatedFacts
<1>6. \A s \in Declares[ProgramOf[p]].samplers :
        s[1] \in TextureNames(p) => \E i \in 1 .. Len(U) : U[i].name = s
  BY <1>5, PairsFacts
<1> HIDE DEF U, c, values
<1>7. \A i, j \in 1 .. Len(U) :
        ~IsImage(p, U[i].name) /\ ~IsImage(p, U[j].name) /\ values[U[i].name] = values[U[j].name] => i = j
  BY <1>3, <1>4 DEF BoundApart
<1>8. ASSUME NEW i \in 1 .. Len(U)
      PROVE  IF IsImage(p, U[i].name) THEN t'.images[Binding(p, U[i].name)] = What(U[i], junk).id
             ELSE What(U[i], junk).target \in Target =>
                    t'.units[values[U[i].name]][What(U[i], junk).target] = What(U[i], junk).id
  BY <1>2, <1>3, <1>4 DEF BoundApart
<1> QED
  BY <1>6, <1>7, <1>8 DEF U, values

(* The planes of an image are structures that GL has.                      *)
LEMMA PlanesLive ==
  ASSUME Inv, NEW x \in Tex, NEW k \in DOMAIN image[x].planes
  PROVE  /\ Live(t, image[x].planes[k]) /\ t.mem[image[x].planes[k]].id \in t.names
         /\ image[x].planes[k] # NoTexture
<1>1. image[x] \in Images /\ Fits(t, x \in ready, image[x], mapped[x].layout, stride[x], x) /\ Sound(t)
  BY DEF Inv, TexturesInv
<1>2. image[x].layout # "none"
  BY <1>1 DEF Images
<1>3. /\ image[x].planes = PlanesOf(x, image[x].layout)
      /\ \A a \in Planes(x, image[x].layout) : Live(t, a)
  BY <1>1, <1>2 DEF Fits
<1>4. image[x].planes[k] \in Planes(x, image[x].layout)
  <2>1. CASE image[x].layout = "default"
    BY <1>3, <2>1 DEF PlanesOf, Planes
  <2>2. CASE image[x].layout # "default"
    BY <1>3, <2>2 DEF PlanesOf, Planes, Private
  <2> QED
    BY <2>1, <2>2
<1>5. image[x].planes[k] # NoTexture
  <2> DEFINE a == image[x].planes[k]
  <2>1. a \in {<<x, 0>>, <<x, 1>>, <<x, 2>>}
    BY <1>4 DEF Planes, Private, Own
  <2> HIDE DEF a
  <2>2. 1 \in DOMAIN a
    BY <2>1
  <2>3. DOMAIN NoTexture = {}
    BY DEF NoTexture
  <2>4. a # NoTexture
    BY <2>2, <2>3
  <2> QED
    BY <2>4 DEF a
<1> QED
  BY <1>1, <1>3, <1>4, <1>5 DEF Live, Sound

LEMMA ExecSamples ==
  ASSUME EnoughUnits, Inv, NEW p \in Pipe, ExecPass(p)
  PROVE  SamplesItsImages'
<1>1. PICK junk : Executed(p, junk)
  BY ExecFacts DEF Inv
<1>2. cur' = p /\ image' = image /\ pc = "idle"
  BY ExecFacts DEF Inv
<1> DEFINE g == ProgramOf[p]
           U == UpdatedPairs(p)
           values == gl'.values[g]
           reads(s, a) ==
             IF IsImage(p, s) THEN t'.images[Binding(p, s)] = t'.mem[a].id
             ELSE t'.units[values[s]][t'.mem[a].target] = t'.mem[a].id
<1>3. t'.mem = t.mem /\ t'.names = t.names
  <2>1. t' \in Texturing(t)
    BY <1>1 DEF Executed, Going
  <2> QED
    BY <2>1 DEF Texturing
<1>4. /\ gl'.program = g /\ DOMAIN values = Variable(g)
      /\ \A n \in Variable(g) : n[1] # "" /\ n[2] \in {"sampling_mode", "dimensions", "modelview_matrix"} =>
           values[n] = Written(p, n, gl.values[g][n])
  BY <1>1, ExecValues
<1>5. /\ \A s \in Declares[g].samplers : s[1] \in TextureNames(p) => \E i \in 1 .. Len(U) : U[i].name = s
      /\ \A i, j \in 1 .. Len(U) :
           ~IsImage(p, U[i].name) /\ ~IsImage(p, U[j].name) /\ values[U[i].name] = values[U[j].name] => i = j
      /\ \A i \in 1 .. Len(U) :
           IF IsImage(p, U[i].name) THEN t'.images[Binding(p, U[i].name)] = What(U[i], junk).id
           ELSE What(U[i], junk).target \in Target =>
                  t'.units[values[U[i].name]][What(U[i], junk).target] = What(U[i], junk).id
  BY <1>1, ExecPairs
<1>6. image \in [Tex -> Images] /\ PairsFit(p)
  BY DEF Inv, TexturesInv, BindingsInv, ExecPass
<1>7. \A n \in TextureNames(p) :
        LET img == image[TextureNamed(p, n)] IN
        \A k \in DOMAIN img.planes :
          LET s == <<n, SamplersOf(img.layout)[k]>> IN
          s \in Declares[g].samplers => \E i \in 1 .. Len(U) : U[i].name = s /\ U[i].texture = img.planes[k]
  BY <1>6, UpdatedFacts
<1> HIDE DEF U, values
<1>8. ASSUME NEW s1 \in Declares[g].samplers, NEW s2 \in Declares[g].samplers,
             s1[1] \in TextureNames(p), s2[1] \in TextureNames(p), ~IsImage(p, s1), ~IsImage(p, s2),
             values[s1] = values[s2]
      PROVE  s1 = s2
  <2>1. PICK i \in 1 .. Len(U) : U[i].name = s1
    BY <1>5, <1>8
  <2>2. PICK j \in 1 .. Len(U) : U[j].name = s2
    BY <1>5, <1>8
  <2> QED
    BY <1>5, <1>8, <2>1, <2>2
<1>9. ASSUME NEW n \in TextureNames(p)
      PROVE  LET img == image[TextureNamed(p, n)] IN
             /\ <<n, "sampling_mode">> \in DOMAIN values /\ Sampled(p, n) # {} =>
                  values[<<n, "sampling_mode">>] = img.layout
             /\ \A k \in DOMAIN img.planes :
                  LET s == <<n, SamplersOf(img.layout)[k]>> IN
                  s \in Declares[g].samplers =>
                    img.planes[k] \in DOMAIN t.mem /\ t.mem[img.planes[k]].id \in t.names /\ reads(s, img.planes[k])
  <2> DEFINE img == image[TextureNamed(p, n)]
  <2>1. TextureNamed(p, n) \in Tex /\ n # ""
    BY TextureNamedType
  <2>2. ASSUME <<n, "sampling_mode">> \in DOMAIN values, Sampled(p, n) # {}
        PROVE  values[<<n, "sampling_mode">>] = img.layout
    <3>1. values[<<n, "sampling_mode">>] = Written(p, <<n, "sampling_mode">>, gl.values[g][<<n, "sampling_mode">>])
      BY <1>4, <2>1, <2>2
    <3>2. <<n, "sampling_mode">> # <<"ngl", "modelview_matrix">>
      OBVIOUS
    <3> QED
      BY <2>2, <3>1, <3>2 DEF Written
  <2>3. ASSUME NEW k \in DOMAIN img.planes, NEW s, s = <<n, SamplersOf(img.layout)[k]>>, s \in Declares[g].samplers
        PROVE  img.planes[k] \in DOMAIN t.mem /\ t.mem[img.planes[k]].id \in t.names /\ reads(s, img.planes[k])
    <3> DEFINE a == img.planes[k]
    <3>1. Live(t, a) /\ t.mem[a].id \in t.names /\ a # NoTexture
      BY <2>1, PlanesLive
    <3>2. PICK i \in 1 .. Len(U) : U[i].name = s /\ U[i].texture = a
      BY <1>7, <2>3
    <3> HIDE DEF a
    <3>3. What(U[i], junk) = t.mem[a] /\ a \in DOMAIN t.mem /\ t.mem[a].target \in Target
      BY <3>1, <3>2 DEF What, Read, Live
    <3>4. reads(s, a)
      BY <1>3, <1>5, <3>2, <3>3
    <3> QED
      BY <3>1, <3>3, <3>4 DEF a
  <2> QED
    BY <2>2, <2>3
<1>10. \A n : Sampled(p, n)' = Sampled(p, n)
  BY <1>2 DEF Sampled
<1>11. \A s1, s2 \in {s \in Declares[g].samplers : s[1] \in TextureNames(p) /\ ~IsImage(p, s)} :
         values[s1] = values[s2] => s1 = s2
  BY <1>8
<1>12. \A n \in TextureNames(p) :
         LET img == image'[TextureNamed(p, n)] IN
         /\ <<n, "sampling_mode">> \in DOMAIN values /\ Sampled(p, n)' # {} =>
              values[<<n, "sampling_mode">>] = img.layout
         /\ \A k \in DOMAIN img.planes :
              LET s == <<n, SamplersOf(img.layout)[k]>> IN
              s \in Declares[g].samplers =>
                /\ img.planes[k] \in DOMAIN t'.mem /\ t'.mem[img.planes[k]].id \in t'.names
                /\ reads(s, img.planes[k])
  <2> HIDE DEF reads
  <2> QED
    BY <1>2, <1>3, <1>9, <1>10
<1> HIDE DEF values
<1>13. Drawing' =>
         /\ gl'.program = g
         /\ \A s1, s2 \in {s \in Declares[gl'.program].samplers : s[1] \in TextureNames(p) /\ ~IsImage(p, s)} :
              values[s1] = values[s2] => s1 = s2
         /\ \A n \in TextureNames(p) :
              LET img == image'[TextureNamed(p, n)] IN
              /\ <<n, "sampling_mode">> \in DOMAIN values /\ Sampled(p, n)' # {} =>
                   values[<<n, "sampling_mode">>] = img.layout
              /\ \A k \in DOMAIN img.planes :
                   LET s == <<n, SamplersOf(img.layout)[k]>> IN
                   s \in Declares[gl'.program].samplers =>
                     img.planes[k] \in DOMAIN t'.mem /\ t'.mem[img.planes[k]].id \in t'.names /\ reads(s, img.planes[k])
  <2> HIDE DEF reads
  <2> QED
    BY <1>4, <1>11, <1>12
<1>14. cur' = p /\ values = gl'.values[gl'.program]
  BY <1>2, <1>4 DEF values
<1> QED
  BY <1>13, <1>14, Zenon DEF SamplesItsImages

(* For passes that have no more samplers than the units they may take, a   *)
(* draw samples the planes of the images its textures have by then, on     *)
(* units of their own, and all of them are in GL: whatever was uploaded,   *)
(* released or bound by other passes since the last draw.                  *)
THEOREM SamplesStayItsImages ==
  ASSUME EnoughUnits
  PROVE  Spec => []SamplesItsImages
<1> DEFINE J == Inv /\ SamplesItsImages
<1>1. Init => J
  BY InvInit DEF SamplesItsImages, Init, Drawing
<1>2. ASSUME J, [Next]_vars
      PROVE  J'
  <2>1. Inv'
    BY <1>2, InvNext
  <2>2. CASE \E p \in Pipe : ExecPass(p)
    BY <1>2, <2>1, <2>2, ExecSamples
  <2>3. CASE ~\E p \in Pipe : ExecPass(p)
    <3>1. UNCHANGED vars \/ ~Drawing'
      BY <1>2, <2>3, OnlyDrawn
    <3>2. CASE ~Drawing'
      BY <2>1, <3>2 DEF SamplesItsImages
    <3>3. CASE UNCHANGED vars
      <4>1. t' = t /\ image' = image /\ gl' = gl /\ pc' = pc /\ cur' = cur
        BY <3>3 DEF vars, texVars, pipeVars
      <4>2. SamplesItsImages' <=> SamplesItsImages
        BY <4>1, SMT DEF SamplesItsImages, Sampled, Drawing
      <4> QED
        BY <1>2, <2>1, <4>2
    <3> QED
      BY <3>1, <3>2, <3>3
  <2> QED
    BY <2>2, <2>3
<1>3. J => SamplesItsImages
  OBVIOUS
<1> HIDE DEF J
<1> QED
  BY <1>1, <1>2, <1>3, PTL DEF Spec
=============================================================================
