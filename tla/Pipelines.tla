------------------------------ MODULE Pipelines ------------------------------
(***************************************************************************)
(* The pipelines and what they bind to draw (libnodegl/pipeline.c,         *)
(* pass.c, node_texture.c): the uniforms, the samplers and their units,    *)
(* the buffers and the vertex arrays a draw reads are those of its own     *)
(* pass, whatever the pipelines before it, the textures that were uploaded *)
(* in between and the other users of its program left in GL.               *)
(*                                                                         *)
(* The scene is reduced to passes and the textures they sample; NodeGraph, *)
(* NodeActivity and Passes say when the callbacks are called.  A step is   *)
(* a callback, the execution of a pass being cut at its draw call.         *)
(***************************************************************************)
EXTENDS Textures, SequencesExt

CONSTANTS
  Pipe,        \* the passes
  Compute,     \* those that are compute passes
  Scenes,      \* the sets of passes the client makes a scene of
  Prog,        \* the programs
  ProgramOf,   \* the program of each pass
  Declares,    \* what each program declares, see DeclaredType
  Given,       \* what each pass is given, see GivenType
  UniformNode, \* the nodes the uniforms take their data from
  TypeOf,      \* their types
  Buffer,      \* the buffers
  Oversized,   \* those that are larger than GL takes for a uniform block
  Tex,         \* the textures
  Source,      \* the data source of each texture
  TexParams,   \* the parameters of each texture
  DataCount,   \* the elements of the data source of those that have a buffer
  Frames,      \* the frames of the media
  MayLackFrame,\* the textures that may be drawn before their media has a frame
  Features,    \* the sets of features GL may have
  MaxTextures  \* bound on the GL textures: a media whose frames change loses some

Null  == "NULL"
NoVao == "default"  \* the vertex array object of GL without any
NoTexture == <<>>   \* the NULL pointer to a texture structure

(* The layouts of the images and the samplers that read their planes.      *)
SamplersOf(layout) ==
  CASE layout = "default"        -> <<"sampler">>
    [] layout = "mediacodec"     -> <<"external_sampler">>
    [] layout = "nv12"           -> <<"y_sampler", "uv_sampler">>
    [] layout = "nv12_rectangle" -> <<"y_rect_sampler", "uv_rect_sampler">>
    [] layout = "none"           -> <<>>

(* The order of texture_info_maps, which is that of the pairs.             *)
SamplerSuffixes == <<"sampler", "external_sampler", "y_sampler", "uv_sampler",
              "y_rect_sampler", "uv_rect_sampler">>

(* What a program declares.  A name is a pair: that of a texture with a    *)
(* suffix, of a built-in uniform with "ngl", of another one with "".       *)
(* images are the bindings of the samplers that are storage images.        *)
DeclaredType(g) ==
  /\ DOMAIN Declares[g].uniforms \subseteq STRING \X STRING
  /\ Declares[g].samplers \subseteq STRING \X ToSet(SamplerSuffixes)
  /\ DOMAIN Declares[g].uniforms \intersect Declares[g].samplers = {}
  /\ DOMAIN Declares[g].images \subseteq Declares[g].samplers
  /\ \A s \in DOMAIN Declares[g].images : s[2] = "sampler" /\ Declares[g].images[s] \in Nat
  /\ Declares[g].attributes \in [DOMAIN Declares[g].attributes -> Nat]
  /\ Declares[g].blocks \in [DOMAIN Declares[g].blocks -> {"uniform", "storage"} \X Nat]
  /\ \A m, n \in DOMAIN Declares[g].blocks :
       Declares[g].blocks[m][1] = "uniform" /\ Declares[g].blocks[m] = Declares[g].blocks[n] => m = n

(* What a pass is given under the names of the shader: uniforms, textures  *)
(* in the order of their map, attributes, blocks, indices, instances.      *)
GivenType(p) ==
  /\ Given[p].uniforms \in [DOMAIN Given[p].uniforms -> UniformNode]
  /\ DOMAIN Given[p].uniforms \subseteq {""} \X STRING
  /\ Given[p].textures \in Seq((STRING \ {""}) \X Tex)
  /\ \A i, j \in DOMAIN Given[p].textures : Given[p].textures[i][1] = Given[p].textures[j][1] => i = j
  /\ Given[p].attributes \in [DOMAIN Given[p].attributes -> [buffer : Buffer, rate : Nat]]
  /\ Given[p].blocks \in [DOMAIN Given[p].blocks -> Buffer]
  /\ Given[p].indices \in Buffer \union {Null}
  /\ Given[p].instances \in Nat

ParamsType ==
  [dimensions : {2, 3}, width : Nat, height : Nat, depth : Nat, bytes_per_pixel : Nat,
   cubemap : BOOLEAN, external : BOOLEAN]

MediaFrame ==
  [layout : {"default", "nv12"}, width : Nat \ {0}, height : Nat \ {0}, linesize : Nat \ {0}]

ASSUME PipelinesAssumption ==
  /\ Compute \subseteq Pipe /\ NoVao \notin Pipe
  /\ Scenes \subseteq SUBSET Pipe
  /\ ProgramOf \in [Pipe -> Prog]
  /\ \A g \in Prog : DeclaredType(g)
  /\ \A p \in Pipe : GivenType(p)
  /\ \A p \in Compute : DOMAIN Given[p].attributes = {}
  /\ Null \notin Buffer \union Prog
  /\ Source \in [Tex -> {"media", "hud", "buffer", "animated", "none"}]
  /\ MayLackFrame \subseteq {x \in Tex : Source[x] = "media"}
  /\ TexParams \in [Tex -> ParamsType] /\ DataCount \in [Tex -> Nat]
  /\ Frames \subseteq MediaFrame /\ \A f \in Frames : f.linesize >= f.width
  /\ Features \subseteq SUBSET {"vertex_array_object", "instanced_array", "draw_instanced",
                                "compute_shader_all", "row_length"}

VARIABLES
  features,    \* gl->features
  ready,       \* the textures that are prefetched
  updated,     \* those that were updated since
  t,           \* the texture structures and the GL textures, see Textures
  image,       \* texture_priv.image
  mapped,      \* hwupload.mapped_image.params, with the class as its layout
  stride,      \* the row length of the last data of each texture, in pixels
  built,       \* the passes whose pipeline is initialised
  pairs,       \* texture_pairs of their pipelines
  program_id,  \* ctx->program_id
  gl,          \* the other GL objects and bindings
  pc,          \* "draw" while GL draws
  cur          \* the pass that is executed

texVars  == <<ready, updated, t, image, mapped, stride>>
pipeVars == <<built, pairs, program_id, gl>>
vars     == <<features, texVars, pipeVars, pc, cur>>

(***************************************************************************)
(* What GL holds besides the textures.  A uniform is zero to begin with;   *)
(* vertex arrays are enabled in the vertex array object that is bound, one *)
(* per pipeline, or in the default one when GL has no such objects.        *)
(***************************************************************************)
Loc      == UNION {{Declares[g].attributes[n] : n \in DOMAIN Declares[g].attributes} : g \in Prog}
NoArrays == [l \in Loc |-> [enabled |-> FALSE, buffer |-> Null, rate |-> 0]]

Zero(name) ==
  CASE name[2] = "sampling_mode"    -> "none"
    [] name[2] = "dimensions"       -> <<0, 0, 0>>
    [] name[2] = "modelview_matrix" -> Null
    [] OTHER                        -> 0

NewBindings ==
  [program  |-> Null,
   values   |-> [g \in Prog |-> [n \in DOMAIN Declares[g].uniforms \union Declares[g].samplers |-> Zero(n)]],
   buffers  |-> [b \in UNION {Range(Declares[g].blocks) : g \in Prog} |-> Null],
   vao      |-> NoVao,
   arrays   |-> [v \in Pipe \union {NoVao} |-> NoArrays],
   elements |-> [v \in Pipe \union {NoVao} |-> Null]]

(***************************************************************************)
(* The textures                                                            *)
(***************************************************************************)
Own(x)      == <<x, 0>>                 \* texture_priv.texture
Private(x)  == {<<x, 1>>, <<x, 2>>}     \* the planes of hwupload_vaapi
NotMapped   == [layout |-> "none", width |-> 0, height |-> 0]

Init ==
  /\ features \in Features
  /\ ready = {} /\ updated = {}
  /\ t = NewTextures({Own(x) : x \in Tex}, UNION {Range(Declares[g].images) : g \in Prog},
                     "row_length" \in features)
  /\ image = [x \in Tex |-> NoImage]
  /\ mapped = [x \in Tex |-> NotMapped]
  /\ stride = [x \in Tex |-> 0]
  /\ built = {} /\ pairs = [p \in Pipe |-> <<>>]
  /\ program_id = Null
  /\ gl = NewBindings
  /\ pc = "idle" /\ cur = Null

(* The dimensions a buffer gives the texture if they do not match.         *)
Fitted(x) ==
  LET p == TexParams[x]
      elements == IF p.dimensions = 2 THEN p.width * p.height ELSE p.width * p.height * p.depth
  IN  CASE Source[x] \notin {"buffer", "animated"} \/ elements = DataCount[x] -> p
        [] OTHER -> [p EXCEPT !.width = DataCount[x], !.height = 1, !.depth = IF p.dimensions = 3 THEN 1 ELSE 0]

(* A texture is visited when a pass of the scene has it.                   *)
Shown(x) == \E p \in built : \E i \in DOMAIN Given[p].textures : Given[p].textures[i][2] = x

(* texture_prefetch: a media has no frame yet.  The texture is filled with *)
(* the data of a buffer, and one without a size is refused.                *)
Prefetch(x) ==
  LET p     == Fitted(x)
      made  == InitTexture(t, Own(x), p)
      given == IF Source[x] \in {"buffer", "animated"}
                 THEN UploadTexture(made, Own(x), 0) ELSE TouchTexture(made, Own(x))
  IN
  /\ pc = "idle" /\ x \notin ready /\ Shown(x)
  /\ CASE Source[x] = "media" ->
            /\ ready' = ready \union {x}
            /\ UNCHANGED <<t, image, stride>>
       [] Source[x] # "media" /\ HasStorage(p) ->
            /\ ready' = ready \union {x}
            /\ t' = given
            /\ image' = [image EXCEPT ![x] = ImageOf("default", <<Own(x)>>, SizeOf(p))]
            /\ stride' = [stride EXCEPT ![x] = p.width]
       [] OTHER ->
            /\ t' = ResetTextures(made, {Own(x)})
            /\ UNCHANGED <<ready, image, stride>>
  /\ UNCHANGED <<features, updated, mapped, pipeVars, pc, cur>>

(* The private planes of the upload class go with their GL textures.       *)
FreePlanes(tx, x) ==
  LET gone == Private(x) \intersect DOMAIN tx.mem IN
  [ResetTextures(tx, gone) EXCEPT !.mem = Restrict(@, DOMAIN @ \ gone)]

NewPlane(tx, a) ==
  InitTexture([tx EXCEPT !.mem = [b \in DOMAIN @ \union {a} |-> IF b = a THEN ZeroTexture ELSE @[b]]],
              a, External2d)

(* The init of the classes "default" and "vaapi".                          *)
ClassInit(tx, x, f) ==
  IF f.layout = "default"
  THEN InitTexture(tx, Own(x), Params2d(f.width, f.height, 4))
  ELSE NewPlane(NewPlane(tx, <<x, 1>>), <<x, 2>>)

ImageOfFrame(x, f) ==
  ImageOf(f.layout, IF f.layout = "default" THEN <<Own(x)>> ELSE <<<<x, 1>>, <<x, 2>>>>,
          <<f.width, f.height, 0>>)

(* ngli_hwupload_upload_frame, of a frame the shaders sample as it is.     *)
UploadFrame(x, f) ==
  LET kind  == [layout |-> f.layout, width |-> f.width, height |-> f.height]
      inits == mapped[x] # kind
      set   == IF inits THEN ClassInit(FreePlanes(t, x), x, f) ELSE t
  IN
  /\ Cardinality(set.names) <= MaxTextures
  /\ t' = IF f.layout = "default" THEN UploadTexture(set, Own(x), f.linesize) ELSE set
  /\ mapped' = [mapped EXCEPT ![x] = kind]
  /\ image' = [image EXCEPT ![x] = ImageOfFrame(x, f)]
  /\ stride' = [stride EXCEPT ![x] = IF f.layout = "default" THEN f.linesize ELSE @]

(* texture_update, after the update of the data source.                    *)
UpdateTexture(x) ==
  /\ pc = "idle" /\ x \in ready
  /\ updated' = updated \union {x}
  /\ \/ /\ Source[x] = "media"
        /\ \E f \in Frames : UploadFrame(x, f)
     \/ /\ Source[x] \in {"hud", "animated"}
        /\ t' = UploadTexture(t, Own(x), 0)
        /\ stride' = [stride EXCEPT ![x] = t.mem[Own(x)].params.width]
        /\ UNCHANGED <<image, mapped>>
     \/ /\ Source[x] \in {"none", "buffer"} \/ x \in MayLackFrame \/ (Source[x] = "media" /\ x \in updated)
        /\ UNCHANGED <<t, image, mapped, stride>>
  /\ UNCHANGED <<features, ready, pipeVars, pc, cur>>

(* texture_release.                                                        *)
ReleaseTexture(x) ==
  /\ pc = "idle" /\ x \in ready
  /\ ready' = ready \ {x} /\ updated' = updated \ {x}
  /\ t' = ResetTextures(FreePlanes(t, x), {Own(x)})
  /\ image' = [image EXCEPT ![x] = NoImage]
  /\ mapped' = [mapped EXCEPT ![x] = NotMapped]
  /\ stride' = [stride EXCEPT ![x] = 0]
  /\ UNCHANGED <<features, pipeVars, pc, cur>>

(***************************************************************************)
(* ngli_pass_init, as to the textures, and ngli_pipeline_init              *)
(***************************************************************************)
Uniforms(p)   == DOMAIN Given[p].uniforms \intersect DOMAIN Declares[ProgramOf[p]].uniforms
Attributes(p) == DOMAIN Given[p].attributes \intersect DOMAIN Declares[ProgramOf[p]].attributes
Blocks(p)     == DOMAIN Given[p].blocks \intersect DOMAIN Declares[ProgramOf[p]].blocks

(* build_uniform_pairs: an integer may be given to a boolean.              *)
TypesMatch(p) ==
  \A n \in Uniforms(p) :
    LET given    == TypeOf[Given[p].uniforms[n]]
        declared == Declares[ProgramOf[p]].uniforms[n]
    IN  given = declared \/ (given = "int" /\ declared = "bool")

(* register_texture and build_texture_pairs: a sampler has no texture yet. *)
Candidates(p) ==
  [i \in 1 .. 6 * Len(Given[p].textures) |->
     <<Given[p].textures[(i - 1) \div 6 + 1][1], SamplerSuffixes[((i - 1) % 6) + 1]>>]

Registered(p, found, name) ==
  IF name \in Declares[ProgramOf[p]].samplers THEN Append(found, [name |-> name, texture |-> NoTexture]) ELSE found

TexturePairs ==
  [p \in Pipe |-> FoldLeft(LAMBDA found, name : Registered(p, found, name), <<>>, Candidates(p))]

IsImage(p, name) == name \in DOMAIN Declares[ProgramOf[p]].images
Binding(p, name) == Declares[ProgramOf[p]].images[name]

ImagePairs == [p \in Pipe |-> {i \in DOMAIN TexturePairs[p] : IsImage(p, TexturePairs[p][i].name)}]
UsedUnits  == [p \in Pipe |-> {Binding(p, TexturePairs[p][i].name) : i \in ImagePairs[p]}]

BindingsFit(p) == UsedUnits[p] \subseteq Unit /\ Cardinality(UsedUnits[p]) = Cardinality(ImagePairs[p])

(* build_buffer_pairs.                                                     *)
BlocksFit(p) ==
  \A n \in Blocks(p) : Declares[ProgramOf[p]].blocks[n][1] = "uniform" => Given[p].blocks[n] \notin Oversized

(* build_attribute_pairs.                                                  *)
RatesFit(p) ==
  \A n \in Attributes(p) : Given[p].attributes[n].rate > 0 => "instanced_array" \in features

(* pipeline_graphics_init and pipeline_compute_init, as far as they refuse;*)
(* the limits on the work groups, and on the memory, are left out.         *)
GraphicsFit(p) == (Given[p].instances > 0 => "draw_instanced" \in features) /\ RatesFit(p)
ComputeFit     == "compute_shader_all" \in features

(* ngli_pipeline_init.                                                     *)
Buildable(p) ==
  /\ TypesMatch(p) /\ BindingsFit(p) /\ BlocksFit(p)
  /\ IF p \in Compute THEN ComputeFit ELSE GraphicsFit(p)

HasVao == "vertex_array_object" \in features

(* set_vertex_attribs.  Every attribute a pass registers has one location. *)
AttributeAt(p, l) == {n \in Attributes(p) : Declares[ProgramOf[p]].attributes[n] = l}

SetArrays(arrays, p) ==
  [l \in Loc |->
     IF AttributeAt(p, l) = {} THEN arrays[l]
     ELSE LET a == Given[p].attributes[CHOOSE n \in AttributeAt(p, l) : TRUE]
          IN  [enabled |-> TRUE, buffer |-> a.buffer,
               rate |-> IF "instanced_array" \in features /\ a.rate > 0 THEN a.rate ELSE arrays[l].rate]]

(* Mutant: the divisor of an array that was instanced is left.             *)
ResetArrays_KeepsRate(arrays, p) ==
  [l \in Loc |-> IF AttributeAt(p, l) = {} THEN arrays[l] ELSE [arrays[l] EXCEPT !.enabled = FALSE]]

(* reset_vertex_attribs.                                                   *)
ResetArrays(arrays, p) ==
  [l \in Loc |->
     IF AttributeAt(p, l) = {} THEN arrays[l]
     ELSE [arrays[l] EXCEPT !.enabled = FALSE, !.rate = IF "instanced_array" \in features THEN 0 ELSE @]]

(* ngli_pipeline_reset of the passes of a scene that is detached, whose    *)
(* programs and buffers go too, from what is bound as well; Passes has     *)
(* what becomes of the names of programs.                                  *)
Bare ==
  [NewBindings EXCEPT !.arrays[NoVao] = [l \in Loc |-> [gl.arrays[NoVao][l] EXCEPT !.buffer = Null]]]

(* pipeline_graphics_init of passes that can be built: the vertex array    *)
(* object of one of them stays bound.                                      *)
Build(b, S) ==
  LET graphics == IF HasVao THEN S \ Compute ELSE {} IN
  [b EXCEPT !.vao = IF graphics = {} THEN @ ELSE CHOOSE p \in graphics : TRUE,
            !.arrays = [v \in DOMAIN @ |-> IF v \in graphics THEN SetArrays(NoArrays, v) ELSE @[v]]]

(* texture_release of every texture.                                       *)
Released(tx) ==
  [ResetTextures(tx, DOMAIN tx.mem) EXCEPT !.mem = Restrict(@, {Own(x) : x \in Tex})]

(* cmd_set_scene: the passes of the scene before are uninitialised and its *)
(* textures released.  A pass that cannot be built is refused before its   *)
(* vertex array object is made, and the scene with it.                     *)
SetScene(S) ==
  LET all == \A p \in S : Buildable(p) IN
  /\ pc = "idle"
  /\ built' = IF all THEN S ELSE {}
  /\ pairs' = [p \in Pipe |-> IF p \in built' THEN TexturePairs[p] ELSE <<>>]
  /\ gl' = Build(Bare, built')
  /\ program_id' = Null
  /\ ready' = {} /\ updated' = {}
  /\ t' = Released(t)
  /\ image' = [x \in Tex |-> NoImage]
  /\ mapped' = [x \in Tex |-> NotMapped]
  /\ stride' = [x \in Tex |-> 0]
  /\ UNCHANGED <<features, pc, cur>>

(***************************************************************************)
(* ngli_pass_exec                                                          *)
(***************************************************************************)
(* use_program: program_id spares the call.                                *)
ProgramInUse(p) == IF program_id = ProgramOf[p] THEN gl.program ELSE ProgramOf[p]

TextureNamed(p, n) == Given[p].textures[CHOOSE i \in DOMAIN Given[p].textures : Given[p].textures[i][1] = n][2]
TextureNames(p)    == {Given[p].textures[i][1] : i \in DOMAIN Given[p].textures}

Sampled(p, n) ==
  {s \in ToSet(SamplersOf(image[TextureNamed(p, n)].layout)) : <<n, s>> \in Declares[ProgramOf[p]].samplers}

(* ngli_pipeline_update_uniform, of the matrix and of the uniforms that go *)
(* with a texture: an image without a layout keeps the last dimensions.    *)
Written(p, name, value) ==
  CASE name = <<"ngl", "modelview_matrix">> -> p
    [] name[1] \in TextureNames(p) /\ name[2] = "sampling_mode" ->
         IF Sampled(p, name[1]) = {} THEN "none" ELSE image[TextureNamed(p, name[1])].layout
    [] name[1] \in TextureNames(p) /\ name[2] = "dimensions" /\ image[TextureNamed(p, name[1])].layout # "none" ->
         image[TextureNamed(p, name[1])].size
    [] OTHER -> value

(* set_uniforms: the data of a uniform node, for which the node stands.    *)
SetUniforms(p, values) ==
  [n \in DOMAIN values |-> IF n \in Uniforms(p) THEN Given[p].uniforms[n] ELSE values[n]]

(* set_buffers.                                                            *)
SetBuffers(p) ==
  LET at(b) == {n \in Blocks(p) : Declares[ProgramOf[p]].blocks[n] = b} IN
  [b \in DOMAIN gl.buffers |->
     IF at(b) = {} THEN gl.buffers[b] ELSE Given[p].blocks[CHOOSE n \in at(b) : TRUE]]

(* bind_vertex_attribs, and the indices of the vertex array object.        *)
BindArrays(b, p) ==
  LET vao == IF HasVao THEN p ELSE NoVao IN
  IF p \in Compute THEN b
  ELSE [b EXCEPT !.vao = vao,
                 !.arrays[vao] = IF HasVao THEN @ ELSE SetArrays(@, p),
                 !.elements[vao] = IF Given[p].indices = Null THEN @ ELSE Given[p].indices]

(* unbind_vertex_attribs.                                                  *)
UnbindArrays(b, p) ==
  IF p \in Compute \/ HasVao THEN b ELSE [b EXCEPT !.arrays[NoVao] = ResetArrays(@, p)]

(* ngli_pipeline_update_texture: only the samplers of the layout of the    *)
(* image are given its planes, the others keep the texture they have.      *)
UpdatedPairs(p) ==
  [i \in DOMAIN pairs[p] |->
     LET n == pairs[p][i].name[1]
         s == pairs[p][i].name[2]
         img == image[TextureNamed(p, n)]
     IN  IF s \in Sampled(p, n)
         THEN [pairs[p][i] EXCEPT !.texture = img.planes[CHOOSE k \in DOMAIN img.planes : SamplersOf(img.layout)[k] = s]]
         ELSE pairs[p][i]]

(* acquire_next_available_texture_unit.                                    *)
FreeUnits(used) == Unit \ used
NextUnit(used)  == Min(FreeUnits(used))

(* What a pointer to a structure reads: junk is what is left of one that   *)
(* was freed.                                                              *)
Read(a, junk) ==
  IF a \in DOMAIN t.mem THEN t.mem[a] ELSE [target |-> "2d", id |-> junk]

Dangling(p) == \E i \in DOMAIN pairs[p] : pairs[p][i].texture \notin DOMAIN t.mem \union {NoTexture}

(* Mutant: the unit a sampler takes is not marked as taken.                *)
SetTexture_SameUnit(p, b, pair, junk) ==
  LET s    == IF pair.texture = NoTexture THEN [target |-> "none", id |-> 0] ELSE Read(pair.texture, junk)
      unit == NextUnit(b.used)
      on   == [b.t EXCEPT !.active = unit]
  IN  CASE b.full -> b
        [] ~b.full /\ IsImage(p, pair.name) -> [b EXCEPT !.t.images[Binding(p, pair.name)] = s.id]
        [] ~b.full /\ ~IsImage(p, pair.name) /\ FreeUnits(b.used) = {} -> [b EXCEPT !.full = TRUE]
        [] OTHER ->
             [b EXCEPT !.values[pair.name] = unit,
                       !.t = IF pair.texture # NoTexture THEN Bound(on, s.target, s.id)
                             ELSE Bound(Bound(Bound(on, "2d", 0), "3d", 0), "oes", 0)]

(* One pair of set_textures: a sampler without a texture reads 0 from      *)
(* every target.  Nothing more is set once the units are all taken.        *)
SetTexture(p, b, pair, junk) ==
  LET s    == IF pair.texture = NoTexture THEN [target |-> "none", id |-> 0] ELSE Read(pair.texture, junk)
      unit == NextUnit(b.used)
      on   == [b.t EXCEPT !.active = unit]
  IN  CASE b.full -> b
        [] ~b.full /\ IsImage(p, pair.name) -> [b EXCEPT !.t.images[Binding(p, pair.name)] = s.id]
        [] ~b.full /\ ~IsImage(p, pair.name) /\ FreeUnits(b.used) = {} -> [b EXCEPT !.full = TRUE]
        [] OTHER ->
             [b EXCEPT !.values[pair.name] = unit,
                       !.used = @ \union {unit},
                       !.t = IF pair.texture # NoTexture THEN Bound(on, s.target, s.id)
                             ELSE Bound(Bound(Bound(on, "2d", 0), "3d", 0), "oes", 0)]

SetTextures(p, values, junk) ==
  FoldLeft(LAMBDA b, pair : SetTexture(p, b, pair, junk),
           [t |-> t, values |-> values, used |-> UsedUnits[p], full |-> FALSE],
           UpdatedPairs(p))

(* ngli_pass_exec and ngli_pipeline_exec up to the draw.                   *)
ExecPass(p) ==
  LET program == ProgramInUse(p)
      written == [n \in DOMAIN gl.values[program] |-> Written(p, n, gl.values[program][n])]
  IN
  /\ pc = "idle" /\ p \in built
  /\ \A n \in TextureNames(p) : TextureNamed(p, n) \in updated
  /\ \E junk \in IF Dangling(p) THEN {0} \union t.names ELSE {0} :
       LET b == SetTextures(p, SetUniforms(p, written), junk) IN
       /\ t' = b.t
       /\ gl' = BindArrays([gl EXCEPT !.program = program, !.values[program] = b.values,
                                      !.buffers = SetBuffers(p)], p)
  /\ pairs' = [pairs EXCEPT ![p] = UpdatedPairs(p)]
  /\ program_id' = ProgramOf[p]
  /\ pc' = "draw" /\ cur' = p
  /\ UNCHANGED <<features, ready, updated, image, mapped, stride, built>>

(* draw_elements, draw_arrays, their instanced forms or dispatch_compute.  *)
Drawn ==
  /\ pc = "draw"
  /\ gl' = UnbindArrays(gl, cur)
  /\ pc' = "idle" /\ cur' = Null
  /\ UNCHANGED <<features, texVars, built, pairs, program_id>>

Next ==
  \/ \E x \in Tex : Prefetch(x) \/ UpdateTexture(x) \/ ReleaseTexture(x)
  \/ \E S \in Scenes : SetScene(S)
  \/ \E p \in Pipe : ExecPass(p)
  \/ Drawn

Spec == Init /\ [][Next]_vars

(***************************************************************************)
(* Properties                                                              *)
(***************************************************************************)
Drawing == pc = "draw"

(* SamplesItsImages: at a draw each texture of the pass is in the sampling *)
(* mode of its image, the samplers of that mode read its planes, on units  *)
(* of their own, and GL still has them: whatever the textures uploaded and *)
(* released since the last draw, and the other passes of the program that  *)
(* give the same names other textures (pipeline.c:203-240, pass.c:720-752).*)
SamplesItsImages ==
  Drawing =>
    LET p      == cur
        values == gl.values[gl.program]
        reads(s, a) ==
          IF IsImage(p, s) THEN t.images[Binding(p, s)] = t.mem[a].id
          ELSE t.units[values[s]][t.mem[a].target] = t.mem[a].id
        units  == {s \in Declares[gl.program].samplers : s[1] \in TextureNames(p) /\ ~IsImage(p, s)}
    IN
    /\ gl.program = ProgramOf[p]
    /\ \A s1, s2 \in units : values[s1] = values[s2] => s1 = s2
    /\ \A n \in TextureNames(p) :
         LET img == image[TextureNamed(p, n)] IN
         /\ <<n, "sampling_mode">> \in DOMAIN values /\ Sampled(p, n) # {} =>
              values[<<n, "sampling_mode">>] = img.layout
         /\ \A k \in DOMAIN img.planes :
              LET s == <<n, SamplersOf(img.layout)[k]>> IN
              s \in Declares[gl.program].samplers =>
                img.planes[k] \in DOMAIN t.mem /\ t.mem[img.planes[k]].id \in t.names /\ reads(s, img.planes[k])

(* UniformsAreItsOwn: at a draw every uniform and every block the pass     *)
(* gives a program has the value of that pass, though another pass with    *)
(* the same program has set it before (pipeline.c:138-147, 242-251,        *)
(* 570-588).                                                               *)
UniformsAreItsOwn ==
  Drawing =>
    /\ gl.program = ProgramOf[cur]
    /\ \A n \in Uniforms(cur) : gl.values[gl.program][n] = Given[cur].uniforms[n]
    /\ <<"ngl", "modelview_matrix">> \in DOMAIN gl.values[gl.program] =>
         gl.values[gl.program][<<"ngl", "modelview_matrix">>] = cur
    /\ \A n \in TextureNames(cur) :
         <<n, "dimensions">> \in DOMAIN gl.values[gl.program] /\ image[TextureNamed(cur, n)].layout # "none" =>
           gl.values[gl.program][<<n, "dimensions">>] = image[TextureNamed(cur, n)].size
    /\ \A n \in Blocks(cur) : gl.buffers[Declares[ProgramOf[cur]].blocks[n]] = Given[cur].blocks[n]

(* ArraysAreItsOwn: at a draw exactly the arrays of the pass are enabled,  *)
(* with its buffers, its rates and its indices, with vertex array objects  *)
(* or without: nothing of an earlier pipeline is left at a location        *)
(* (pipeline.c:288-323, 384-454).                                          *)
ArraysAreItsOwn ==
  Drawing /\ cur \notin Compute =>
    /\ \A l \in Loc :
         LET array == gl.arrays[gl.vao][l] IN
         IF AttributeAt(cur, l) = {} THEN ~array.enabled
         ELSE \E n \in AttributeAt(cur, l) :
                array = [enabled |-> TRUE, buffer |-> Given[cur].attributes[n].buffer,
                         rate |-> Given[cur].attributes[n].rate]
    /\ Given[cur].indices # Null => gl.elements[gl.vao] = Given[cur].indices

(* DrawsItsOwn: a draw reads what its pass gave it and nothing another     *)
(* pass has left in the program or at the vertex attributes.               *)
DrawsItsOwn == UniformsAreItsOwn /\ ArraysAreItsOwn

(* RowsInPlace: each row of each layer of a texture holds that row of the  *)
(* data it was filled from, whatever the padding of the rows, the size of  *)
(* the pixels and what GL can be told of both (texture.c:101-191).         *)
RowsInPlace ==
  \A x \in Tex :
    LET s == t.mem[Own(x)]
        row(r) == r[1] * s.params.height + r[2]
    IN  s.content # NoContent =>
          \A r \in DOMAIN s.content : s.content[r] = row(r) * stride[x] * s.params.bytes_per_pixel

(* NoFreedTexture: a pipeline reads no texture structure that was freed:   *)
(* those of the layouts an image no longer has included.                   *)
NoFreedTexture ==
  Drawing => \A i \in DOMAIN pairs[cur] : pairs[cur][i].texture \in DOMAIN t.mem \union {NoTexture}

=============================================================================
