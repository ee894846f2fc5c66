-------------------------------- MODULE Passes --------------------------------
(***************************************************************************)
(* The passes of the Render and Compute nodes (libnodegl/pass.c,           *)
(* pipeline.c, program.c, node_render.c, node_compute.c, node_program.c):  *)
(* what a pass registers of its parameters when it is initialised, what it *)
(* updates and uploads for a frame, what its execution reads and writes on *)
(* the GPU, and what it gives back, with or without an error on the way.   *)
(*                                                                         *)
(* The scene is a list of passes in the order of the tree, which share     *)
(* nodes, buffers, textures and programs.  Everything runs on the worker;  *)
(* a step is the callback of one pass.                                     *)
(***************************************************************************)
EXTENDS GpuData, FiniteSets

CONSTANTS
  Pass,         \* the Render and Compute nodes
  Compute,      \* those that are Compute nodes
  Order,        \* the order of the passes in a scene
  Actives,      \* the sets of passes that are active together
  Scenes,       \* the sets of passes the client makes a scene of
  Param,        \* the parameters of each pass, see ParamType
  Shader,       \* what the program of each pass declares, see ShaderType
  Writes,       \* the fields of blocks, <<b, i>>, each compute pass stores to
  Texture,      \* the Texture nodes
  NativeLayout, \* the layout of the frames of each texture
  Direct,       \* the textures with direct_rendering
  Program,      \* the Program nodes
  Default,      \* stands for the program a pass makes of the default shaders
  InitMayFail,  \* the stages of ngli_pass_init that may fail
  UpdateMayFail,\* the nodes whose update may fail
  MaxLive       \* bound on the live changes of a uniform

(* The members of a sequence that are in S, in order.                      *)
Only(seq, S) == FoldLeft(LAMBDA kept, n : IF n \in S THEN Append(kept, n) ELSE kept, <<>>, seq)

Layout == {"default", "mediacodec", "nv12", "nv12_rectangle"}
Stage  == {"program", "attributes", "textures", "pipeline"}

(* struct pass_params.  indices has at most one node.                      *)
ParamType ==
  [program : Program \union {Default}, indices : Seq(Buffer), attributes : Seq(Buffer \union DOMAIN BlockOf),
   uniforms : Seq(DataNode), textures : Seq(Texture), blocks : Seq(Block)]

(* The names found by ngli_program_init, as the nodes that have them, and  *)
(* for each texture the layouts whose samplers are declared.               *)
ShaderType == [names : SUBSET (Node \union Texture), layouts : [Texture -> SUBSET Layout]]

(* An indices buffer that references a block is refused by the code with   *)
(* the reference it took: the client does not pass one.  A block has a     *)
(* field when a shader declares it or a buffer references one of them, and *)
(* a shader stores to blocks it declares only.                             *)
ASSUME PassesAssumption ==
  /\ IsFiniteSet(Program)
  /\ Program \intersect Pass = {} /\ Default \notin Program
  /\ (Node \union Texture) \intersect (Program \union Pass) = {} /\ Node \intersect Texture = {}
  /\ Compute \subseteq Pass
  /\ Order \in Seq(Pass) /\ ToSet(Order) = Pass /\ Len(Order) = Cardinality(Pass)
  /\ Scenes \subseteq SUBSET Pass
  /\ Actives \subseteq SUBSET Pass
  /\ Param \in [Pass -> ParamType]
  /\ Shader \in [Pass -> ShaderType]
  /\ \A p \in Compute : Param[p].indices = <<>> /\ Param[p].attributes = <<>>
  /\ \A p \in Pass : \A b \in Shader[p].names \intersect Block : Fields[b] # <<>>
  /\ Writes \in [Compute -> SUBSET (Block \X Nat)]
  /\ \A p \in Compute : \A f \in Writes[p] :
       f[1] \in ToSet(Param[p].blocks) \intersect Shader[p].names /\ f[2] \in DOMAIN Fields[f[1]]
  /\ NativeLayout \in [Texture -> Layout]
  /\ Direct \subseteq Texture
  /\ InitMayFail \subseteq Stage
  /\ UpdateMayFail \subseteq Streamed
  /\ MaxLive \in Nat

VARIABLES
  d,           \* the data of the nodes and the GL buffers
  param,       \* the "value" of the uniforms and the data of the buffers
  phase,       \* what the worker does
  scene,       \* the passes of the scene, in order
  next,        \* the scene that is being attached
  reset,       \* TRUE if it is attached again to a new GL context
  todo,        \* the passes the phase has still to visit
  t,           \* the time of the frame
  active,      \* the passes that are active in it
  updated,     \* last_update_time of each pass
  mixed,       \* the passes a failed frame may have updated in part since
  regs,        \* what each pass has registered, see Registered
  attached,    \* the passes whose children are attached
  ready,       \* those of them that are initialised
  mask,        \* supported_image_layouts of each texture
  image,       \* the image of each texture: its layout and its time
  written,     \* the last thing a compute pass stored in each field
  id,          \* the name of the program of each owner, 0 if it has none
  program_id,  \* ctx->program_id
  gl_program   \* the program in use in the GL context

dataVars    == <<d, param, mask, image, written>>
sceneVars   == <<scene, next, reset>>
frameVars   == <<t, active>>
passVars    == <<updated, mixed, regs, attached, ready>>
programVars == <<id, program_id, gl_program>>
vars == <<dataVars, sceneVars, frameVars, passVars, programVars, phase, todo>>

Registered  == {"uniforms", "textures", "blocks", "attributes", "indices"}
Nothing     == [k \in Registered |-> <<>>]
NoImage     == [layout |-> "none", at |-> Never]

(* The owners of GL programs: the Program nodes and the passes without.    *)
Owner    == Program \union Pass
OwnerOf(p) == IF Param[p].program = Default THEN p ELSE Param[p].program

(* The children of a pass, directly or through a block.                    *)
Given(p) ==
  LET direct == UNION {ToSet(Param[p][k]) : k \in Registered}
      blocks == (direct \intersect Block) \union {BlockOf[n] : n \in direct \intersect DOMAIN BlockOf}
      fields == UNION {ToSet(Fields[b]) : b \in blocks}
  IN  direct \union blocks \union fields \union ({Param[p].program} \ {Default})

Children(S) == UNION {Given(p) : p \in S}

Init ==
  /\ d = NoData
  /\ param = [n \in Uniform \union Static |-> 1]
  /\ phase = "idle"
  /\ scene = <<>> /\ next = <<>> /\ reset = FALSE
  /\ todo = <<>>
  /\ t = 0 /\ active = {}
  /\ updated = [p \in Pass |-> Never]
  /\ mixed = {}
  /\ regs = [p \in Pass |-> Nothing]
  /\ attached = {} /\ ready = {}
  /\ mask = [x \in Texture |-> {}]
  /\ image = [x \in Texture |-> NoImage]
  /\ written = [f \in UNION {Writes[p] : p \in Compute} |-> 0]
  /\ id = [o \in Owner |-> 0]
  /\ program_id = 0 /\ gl_program = 0

(***************************************************************************)
(* The programs                                                            *)
(***************************************************************************)
(* glCreateProgram gives a name nobody has.  A program that is deleted     *)
(* while in use keeps its name until another one is used.                  *)
FreshProgram(ids) ==
  CHOOSE i \in 1 .. Cardinality(Owner) + 2 :
    /\ i \notin {ids[o] : o \in Owner} \union {gl_program}
    /\ \A j \in 1 .. i - 1 : j \in {ids[o] : o \in Owner} \union {gl_program}

(* ngli_program_init for the Program node of a pass, or in the pass.       *)
WithProgram(ids, p) ==
  IF ids[OwnerOf(p)] = 0 THEN [ids EXCEPT ![OwnerOf(p)] = FreshProgram(ids)] ELSE ids

(* use_program.                                                            *)
UseProgram(p) ==
  /\ program_id' = id[OwnerOf(p)]
  /\ gl_program' = IF program_id # id[OwnerOf(p)] THEN id[OwnerOf(p)] ELSE gl_program

(***************************************************************************)
(* ngl_set_scene, and ngl_configure which replaces the GL context          *)
(***************************************************************************)
Ordered(S) == Only(Order, S)

(* Both detach the scene first; which command it is shows afterwards.      *)
DetachScene ==
  /\ phase = "idle"
  /\ phase' = "detach"
  /\ todo' = scene
  /\ UNCHANGED <<dataVars, sceneVars, frameVars, passVars, programVars>>

SetScene(S) ==
  /\ phase = "detach" /\ todo = <<>>
  /\ phase' = "attach"
  /\ scene' = <<>>
  /\ next' = Ordered(S)
  /\ todo' = Ordered(S)
  /\ UNCHANGED <<dataVars, reset, frameVars, passVars, programVars>>

(* Mutant: the name of the program in use outlives the GL context.         *)
Reconfigure_KeepsProgramId ==
  /\ phase = "detach" /\ todo = <<>>
  /\ phase' = "attach"
  /\ scene' = <<>>
  /\ next' = scene
  /\ todo' = scene
  /\ reset' = TRUE
  /\ gl_program' = 0
  /\ UNCHANGED <<dataVars, frameVars, passVars, id, program_id>>

(* gl_configure makes a new context, in which no program is in use.        *)
Reconfigure ==
  /\ phase = "detach" /\ todo = <<>>
  /\ phase' = "attach"
  /\ scene' = <<>>
  /\ next' = scene
  /\ todo' = scene
  /\ reset' = TRUE
  /\ program_id' = 0 /\ gl_program' = 0
  /\ UNCHANGED <<dataVars, frameVars, passVars, id>>

(***************************************************************************)
(* ngli_pass_init, once the children are initialised.  It registers what   *)
(* the program declares: the indices, the attributes, the uniforms, the    *)
(* textures, the blocks; at each stage it may return an error, and leaves  *)
(* what it has registered, and ngl_set_scene detaches the scene.  (What    *)
(* ngl_configure leaves of a scene it cannot attach is in module Context.)  *)
(***************************************************************************)
Declared(p, k) == Only(Param[p][k], Shader[p].names)

(* A sampler is declared under one of the names of the layouts.            *)
Uniforms(p)   == Declared(p, "uniforms")
Textures(p)   == Declared(p, "textures")
Blocks(p)     == Declared(p, "blocks")
Attributes(p) == Declared(p, "attributes")

(* What is registered when the stage fails, "none" for no failure.         *)
RegisteredBefore(p, stage) ==
  LET all == [indices |-> Param[p].indices, attributes |-> Attributes(p), uniforms |-> Uniforms(p),
              textures |-> Textures(p), blocks |-> Blocks(p)]
      done == CASE stage = "program"    -> {}
                [] stage = "attributes" -> {"indices"}
                [] stage = "textures"   -> {"indices", "attributes", "uniforms"}
                [] OTHER                -> Registered
  IN  [k \in Registered |-> IF k \in done THEN all[k] ELSE <<>>]

(* The stages a pass goes through: only a pass without a Program node      *)
(* makes one, only a Render has a geometry.                                *)
StagesOf(p) == {s \in Stage : /\ s = "program" => Param[p].program = Default
                              /\ s = "attributes" => p \notin Compute}

(* ngli_node_buffer_ref and ngli_node_block_ref, in order.                 *)
RefAll(e, r) == FoldLeft(Ref, e, r.indices \o r.attributes \o r.blocks)

(* The reset of what texture2d_init sets.                                  *)
InitialMask(x) == IF x \in Direct THEN Layout ELSE {"default"}

(* register_texture.                                                       *)
RegisterTextures(p, textures, masks) ==
  [x \in Texture |-> IF x \in ToSet(textures) THEN masks[x] \intersect Shader[p].layouts[x] ELSE masks[x]]

PassInit(p, stage) ==
  LET new   == Given(p) \ Children(attached)
      r     == RegisteredBefore(p, stage)
      masks == [x \in Texture |-> IF x \in new THEN InitialMask(x) ELSE mask[x]]
  IN  /\ phase = "attach"
      /\ todo # <<>> /\ p = Head(todo)
      /\ stage \in {"none"} \union (IF reset THEN {} ELSE InitMayFail \intersect StagesOf(p))
      /\ attached' = attached \union {p}
      /\ regs' = [regs EXCEPT ![p] = r]
      /\ d' = RefAll(InitNodes(d, new \intersect Node, param), r)
      /\ mask' = RegisterTextures(p, r.textures, masks)
      /\ id' = WithProgram(id, p)
      /\ IF stage = "none"
           THEN /\ ready' = ready \union {p}
                /\ todo' = Tail(todo)
                /\ UNCHANGED <<phase, next>>
           ELSE /\ phase' = "undo"
                /\ todo' = <<p>> \o Ordered(attached \ {p})
                /\ next' = <<>>
                /\ UNCHANGED ready
      /\ UNCHANGED <<param, image, written, scene, reset, updated, mixed, frameVars, program_id, gl_program>>

AttachDone ==
  /\ phase = "attach" /\ todo = <<>>
  /\ phase' = "idle"
  /\ scene' = next
  /\ next' = <<>>
  /\ reset' = FALSE
  /\ UNCHANGED <<dataVars, frameVars, passVars, programVars, todo>>

(***************************************************************************)
(* ngli_pass_uninit, of a pass that is ready or not, and the uninit of the *)
(* children no other pass has                                              *)
(***************************************************************************)
(* Mutant: the indices are not given back.                                 *)
UnrefAll_KeepsIndices(e, r) == FoldLeft(Unref, e, r.blocks \o r.attributes)

UnrefAll(e, r) == FoldLeft(Unref, e, r.indices \o r.blocks \o r.attributes)

(* ngli_program_reset of the default program, and of a Program node.       *)
WithoutProgram(ids, p, gone) ==
  [o \in Owner |-> IF o = p \/ o \in gone THEN 0 ELSE ids[o]]

PassUninit(p) ==
  LET gone == Given(p) \ Children(attached \ {p})
  IN  /\ phase \in {"detach", "undo"}
      /\ todo # <<>> /\ p = Head(todo)
      /\ attached' = attached \ {p}
      /\ ready' = ready \ {p}
      /\ regs' = [regs EXCEPT ![p] = Nothing]
      /\ updated' = [updated EXCEPT ![p] = Never]
      /\ mixed' = mixed \ {p}
      /\ d' = UninitNodes(UnrefAll(d, regs[p]), gone \intersect Node)
      /\ written' = [f \in DOMAIN written |-> IF f[1] \in gone THEN 0 ELSE written[f]]
      /\ mask' = [x \in Texture |-> IF x \in gone THEN {} ELSE mask[x]]
      /\ image' = [x \in Texture |-> IF x \in gone THEN NoImage ELSE image[x]]
      /\ id' = WithoutProgram(id, p, gone)
      /\ todo' = Tail(todo)
      /\ UNCHANGED <<param, sceneVars, frameVars, phase, program_id, gl_program>>

(* A scene that could not be attached is gone.                             *)
UndoDone ==
  /\ phase = "undo" /\ todo = <<>>
  /\ phase' = "idle"
  /\ UNCHANGED <<dataVars, sceneVars, frameVars, passVars, programVars, todo>>

(***************************************************************************)
(* A frame.  The nodes below no active pass are released, the others are   *)
(* updated pass by pass (ngli_pass_update), then the passes are executed.  *)
(***************************************************************************)
Draw(time, A) ==
  /\ phase = "idle" /\ scene # <<>>
  /\ phase' = "update"
  /\ t' = time
  /\ active' = A
  /\ todo' = Only(scene, A)
  /\ updated' = [p \in Pass |-> IF p \in A THEN updated[p] ELSE Never]
  /\ mixed' = mixed \intersect A
  /\ d' = ReleaseNodes([d EXCEPT !.failed = FALSE], Node \ Children(A))
  /\ image' = [x \in Texture |-> IF x \in Children(A) THEN image[x] ELSE NoImage]
  /\ UNCHANGED <<param, mask, written, sceneVars, regs, attached, ready, programVars>>

UpdateAll(e, nodes, time, bad) == FoldLeft(LAMBDA f, n : UpdateNode(f, n, time, bad), e, nodes)

(* update_nodes for the blocks and the buffers: each is uploaded as soon   *)
(* as it is updated.                                                       *)
UpdateThenUpload(e, n, time, bad) ==
  LET h == UpdateNode(e, n, time, bad)
  IN  IF h.failed THEN h ELSE Upload(h, n)

UpdateAndUpload(e, nodes, time, bad) == FoldLeft(LAMBDA f, n : UpdateThenUpload(f, n, time, bad), e, nodes)

PassUpdated(e, r, time, bad) ==
  UpdateAndUpload(UpdateAndUpload(UpdateAll(e, r.uniforms, time, bad), r.blocks, time, bad), r.attributes, time, bad)

(* The time and the active passes are forgotten with the frame.            *)
FrameEnds == t' = 0 /\ active' = {}

(* texture_update: the frame is sampled as it is if every pass can, and    *)
(* converted otherwise.                                                    *)
ImageAt(x, time) ==
  [layout |-> IF NativeLayout[x] \in mask[x] THEN NativeLayout[x] ELSE "default", at |-> time]

(* render_update and compute_update.  The textures come between the        *)
(* uniforms and the blocks.                                                *)
UpdatePass(p, bad) ==
  LET r == regs[p]
      uniforms == UpdateAll(d, r.uniforms, t, bad)
  IN  /\ phase = "update"
      /\ todo # <<>> /\ p = Head(todo)
      /\ updated[p] # t
      /\ d' = PassUpdated(d, r, t, bad)
      /\ image' = IF uniforms.failed THEN image
                  ELSE [x \in Texture |-> IF x \in ToSet(r.textures) THEN ImageAt(x, t) ELSE image[x]]
      /\ IF d'.failed
           THEN /\ phase' = "idle" /\ todo' = <<>>
                /\ FrameEnds
                /\ mixed' = {q \in Pass : updated[q] \notin {Never, t}}
                /\ UNCHANGED updated
           ELSE /\ todo' = Tail(todo)
                /\ updated' = [updated EXCEPT ![p] = t]
                /\ mixed' = mixed \ {p}
                /\ UNCHANGED <<phase, frameVars>>
      /\ UNCHANGED <<param, mask, written, sceneVars, regs, attached, ready, programVars>>

(* ngli_node_update of a pass that was updated for t.                      *)
SkipPass(p) ==
  /\ phase = "update"
  /\ todo # <<>> /\ p = Head(todo)
  /\ updated[p] = t
  /\ todo' = Tail(todo)
  /\ UNCHANGED <<dataVars, sceneVars, frameVars, passVars, programVars, phase>>

UpdateDone ==
  /\ phase = "update" /\ todo = <<>>
  /\ phase' = "draw"
  /\ todo' = Only(scene, active)
  /\ UNCHANGED <<dataVars, sceneVars, frameVars, passVars, programVars>>

(* ngli_pass_exec: a Compute stores to the fields of its blocks.           *)
Stores(p) == IF p \in Compute THEN Writes[p] ELSE {}

ExecPass(p) ==
  /\ phase = "draw"
  /\ todo # <<>> /\ p = Head(todo)
  /\ UseProgram(p)
  /\ d' = [d EXCEPT !.gpu = [r \in Resource |-> [i \in DOMAIN @[r] |->
             IF <<r, i>> \in Stores(p) THEN Computed ELSE @[r][i]]]]
  /\ written' = [f \in DOMAIN written |-> IF f \in Stores(p) THEN Computed ELSE written[f]]
  /\ todo' = Tail(todo)
  /\ UNCHANGED <<param, mask, image, sceneVars, frameVars, passVars, id, phase>>

DrawDone ==
  /\ phase = "draw" /\ todo = <<>>
  /\ phase' = "idle"
  /\ FrameEnds
  /\ UNCHANGED <<dataVars, sceneVars, passVars, programVars, todo>>

(* ngl_node_param_set between two commands.  A uniform that is not part of *)
(* the scene has its parameter changed.                                    *)
LiveChange(n) ==
  /\ phase = "idle"
  /\ param[n] <= MaxLive
  /\ param' = [param EXCEPT ![n] = @ + 1]
  /\ d' = IF n \in Children(attached) THEN SetLive(d, n, param[n] + 1) ELSE d
  /\ UNCHANGED <<mask, image, written, sceneVars, frameVars, passVars, programVars, phase, todo>>

Next ==
  \/ DetachScene
  \/ \E S \in Scenes : SetScene(S)
  \/ Reconfigure
  \/ \E p \in Pass, stage \in Stage \union {"none"} : PassInit(p, stage)
  \/ AttachDone
  \/ \E p \in Pass : PassUninit(p)
  \/ UndoDone
  \/ \E time \in Time : \E A \in Actives : Draw(time, A \intersect ToSet(scene))
  \/ \E p \in Pass, bad \in {{}} \union {{n} : n \in UpdateMayFail} : UpdatePass(p, bad)
  \/ \E p \in Pass : SkipPass(p)
  \/ UpdateDone
  \/ \E p \in Pass : ExecPass(p)
  \/ DrawDone
  \/ \E n \in Uniform : LiveChange(n)

Spec == Init /\ [][Next]_vars

-------------------------------------------------------------------------------
(***************************************************************************)
(* The GL buffer of a block or a buffer node exists exactly while a pass   *)
(* has it registered, as indices, as an attribute, as a block or through a *)
(* buffer that references the block, whatever attachment failed and        *)
(* however the passes share it; so no pass binds a deleted buffer, and the *)
(* assertions of the unref functions hold.                                 *)
(***************************************************************************)
UsesOf(p, r) ==
  LET refs == regs[p].indices \o regs[p].attributes \o regs[p].blocks
  IN  Cardinality({i \in DOMAIN refs : Target(refs[i]) = r})

BuffersCounted ==
  \A r \in Resource :
    /\ d.refs[r] = FoldFunction(+, 0, [p \in Pass |-> UsesOf(p, r)])
    /\ d.gpu[r] # NoBuffer <=> d.refs[r] > 0

(***************************************************************************)
(* A pass reads current data: when it is executed in the frame of time t,  *)
(* its uniforms, its animated attributes, the dynamic fields of its blocks *)
(* and its textures are those of t, in the GL buffers it reads them from,  *)
(* and the constant ones those of the parameters; after frames in any      *)
(* order, inactive passes, failed updates and live changes.  Fields that a *)
(* compute pass writes and uniforms in blocks are left out (see StoresKept *)
(* and LiveFieldsReachShader), and so is a pass that is drawn again at its *)
(* own time after a frame of another time has failed (see                  *)
(* RedrawnIsCurrent).                                                      *)
(***************************************************************************)
WrittenByCompute(f) == \E p \in Compute : f \in Writes[p]

BlockIsCurrent(b) ==
  \A i \in DOMAIN Fields[b] :
    Fields[b][i] \in Uniform \/ WrittenByCompute(<<b, i>>) \/ d.gpu[b][i] = ValueAt(Fields[b][i], t, param)

TextureIsCurrent(p, x) ==
  /\ image[x].at = t
  /\ image[x].layout \in {"default"} \union Shader[p].layouts[x]

PassIsCurrent(p) ==
  /\ \A n \in ToSet(regs[p].uniforms) : d.val[n] = ValueAt(n, t, param)
  /\ \A n \in ToSet(regs[p].attributes) \ DOMAIN BlockOf : d.gpu[n] = <<ValueAt(n, t, param)>>
  /\ \A b \in ToSet(regs[p].blocks) : BlockIsCurrent(b)
  /\ \A x \in ToSet(regs[p].textures) : TextureIsCurrent(p, x)

ReadsAreCurrent == phase = "draw" => \A p \in ToSet(todo) \ mixed : PassIsCurrent(p)

(***************************************************************************)
(* ngl_draw draws at the specified time (nodegl.h), after a frame that     *)
(* failed too.  It does not: the frame has updated some of the nodes of a  *)
(* pass for its time, the pass itself keeps the time of the frame before,  *)
(* and is not updated when that one is drawn again.                        *)
(***************************************************************************)
RedrawnIsCurrent == phase = "draw" => \A p \in ToSet(todo) : PassIsCurrent(p)

(***************************************************************************)
(* What a compute pass stores in a block without dynamic fields stays      *)
(* there for the passes that read it, in the next frames too: no upload    *)
(* overwrites it as long as the buffer exists.                             *)
(***************************************************************************)
StoresKept ==
  \A f \in DOMAIN written :
    written[f] # 0 /\ d.refs[f[1]] > 0 /\ ToSet(Fields[f[1]]) \subseteq Static
      => d.gpu[f[1]][f[2]] = written[f]

(***************************************************************************)
(* ctx->program_id, which spares calls to glUseProgram, names the program  *)
(* in use in the GL context, and that of a pass is its own: no pass is     *)
(* drawn with the program of another, across changes of scene, names that  *)
(* are given again and new contexts.                                       *)
(***************************************************************************)
ProgramIsInUse ==
  /\ program_id = gl_program
  /\ \A p, q \in ready :
       id[OwnerOf(p)] # 0 /\ (id[OwnerOf(p)] = id[OwnerOf(q)] => OwnerOf(p) = OwnerOf(q))

(***************************************************************************)
(* The value of a uniform, which can be changed live and is exposed to the *)
(* shader (libnodegl.md), is the one the shader finds in a block.  It is   *)
(* not: uniform_update clears live_changed before update_block_data reads  *)
(* it.                                                                     *)
(***************************************************************************)
LiveFieldsReachShader ==
  phase = "draw" =>
    \A p \in ToSet(todo) : \A b \in ToSet(regs[p].blocks) : \A i \in DOMAIN Fields[b] :
      Fields[b][i] \in Uniform => d.gpu[b][i] = param[Fields[b][i]]

=============================================================================
