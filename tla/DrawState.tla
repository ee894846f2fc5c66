------------------------------ MODULE DrawState ------------------------------
(***************************************************************************)
(* The state a context draws with: the graphic configuration that is asked *)
(* for and the GL state that was applied (libnodegl/glstate.c), the render *)
(* target, viewport and clear colour (gctx.c, rendertarget.c), the matrix  *)
(* stacks (transforms.c, node_camera.c) and the GL timer (node_hud.c), as  *)
(* the nodes of the scene change them on the way down the tree and put     *)
(* them back on the way up, and as the backend (backend_gl.c) sets them    *)
(* when it is configured or resized and uses them around a frame.          *)
(*                                                                         *)
(* The recursion of ngli_node_draw is the variable stack: a step enters or *)
(* leaves one node.  Matrices are kept as the sequence of their factors.   *)
(***************************************************************************)
EXTENDS Integers, SequencesExt, FiniteSetsExt

CONSTANTS
  Node,         \* the nodes of the scenes
  Kind,         \* "group", "config", "rtt", "transform", "camera", "hud" or "render"
  Kids,         \* the children of each node, in the order they are drawn
  Scenes,       \* the roots the client may set
  Sets,         \* the fields a config sets
  Multisampled, \* the rtts with samples
  OwnClear,     \* the rtts with a clear colour of their own
  EyeChain,     \* for each camera, the transforms above the Identity of its eye_transform
  Animated,     \* the transforms with an animation
  Media,        \* the textures whose frames are converted on the GPU (hwconv.c)
  Size,         \* the sizes of the window
  Time,         \* the times of the frames
  Gles,         \* TRUE on OpenGL ES: a multisampled capture is resolved first
  Context,      \* the owner of the rendertargets of the backend
  None

Kinds == {"group", "config", "rtt", "transform", "camera", "hud", "render"}

OfKind(k) == {n \in Node : Kind[n] = k}

(* blend stands for every field of the state that is applied when it       *)
(* differs; test and box are the scissor's.                                *)
Field == {"blend", "test", "box"}

ASSUME DrawStateAssumption ==
  /\ Kind \in [Node -> Kinds]
  /\ Kids \in [Node -> Seq(Node)]
  /\ Scenes \subseteq Node
  /\ DOMAIN Sets = OfKind("config")
  /\ \A n \in DOMAIN Sets : DOMAIN Sets[n] \subseteq Field
  /\ Multisampled \union OwnClear \subseteq OfKind("rtt")
  /\ EyeChain \in [OfKind("camera") -> Seq(OfKind("transform"))]
  /\ Animated \subseteq OfKind("transform")
  /\ Gles \in BOOLEAN
  /\ IsFiniteSet(Node) /\ IsFiniteSet(Media)
  /\ {Context, None} \intersect (Node \union Media) = {} /\ Node \intersect Media = {}

(* The rendertargets: those of the backend, two for each rtt and one for   *)
(* each conversion.                                                        *)
Target ==
  ({Context} \X {"rt", "capture", "resolve"}) \union (OfKind("rtt") \X {"rt", "ms"}) \union (Media \X {"conv"})

VARIABLES
  conf,      \* ngl_config: offscreen, samples, capture, size and clear colour
  fb,        \* the GL name of the framebuffer of each rendertarget, 0 if none
  target,    \* ctx->rendertarget
  viewport,  \* ctx->viewport
  clear,     \* ctx->clear_color
  config,    \* ctx->graphicconfig
  saved,     \* the graphicconfig each config node keeps while it draws
  recorded,  \* ctx->glstate
  modelview, \* ctx->modelview_matrix_stack
  projection,\* ctx->projection_matrix_stack
  timer,     \* the hud whose GL query is active; ctx->timer_active if not None
  gl,        \* the state of the GL context
  scene,     \* the root of the scene
  matrix,    \* the time of the matrix of each transform
  camera,    \* the modelview matrix of each camera
  t,         \* the time of the frame
  phase,     \* what the worker does
  stack      \* the nodes being drawn, see Frame

ctxVars   == <<target, viewport, clear, config, recorded>>
stackVars == <<modelview, projection, timer>>
sceneVars == <<scene, matrix, camera>>
vars == <<conf, fb, ctxVars, saved, stackVars, gl, sceneVars, t, phase, stack>>

(* The locals of a draw: the children still to draw and what the code puts *)
(* back when they are.                                                     *)
Frame(n) == [node |-> n, rest |-> Kids[n], target |-> target, viewport |-> viewport, clear |-> clear]

Neutral(size) == [blend |-> 0, test |-> FALSE, box |-> size]

(* The state of a new GL context.  The scissor box is that of its surface, *)
(* which for an offscreen context is a pbuffer of one pixel.               *)
NewGL(size, offscreen) ==
  [state |-> Neutral(IF offscreen THEN 1 ELSE size), fbo |-> 0, viewport |-> size, clear |-> 0]

Override(new, old) == [f \in Field |-> IF f \in DOMAIN new THEN new[f] ELSE old[f]]

(***************************************************************************)
(* Framebuffers                                                            *)
(***************************************************************************)
(* The name a rendertarget stands for; 0 is the default framebuffer.       *)
NameOf(names, rt) == IF rt = None THEN 0 ELSE names[rt]

(* glGenFramebuffers gives a name that is not in use.                      *)
FreshName(names) ==
  CHOOSE i \in 1 .. Cardinality(Target) + 1 : i \notin {names[rt] : rt \in Target}

(* ngli_rendertarget_init for each of rts, in order.                       *)
WithTargets(names, rts) ==
  FoldLeft(LAMBDA fbs, rt : [fbs EXCEPT ![rt] = FreshName(fbs)], names, rts)

(* ngli_rendertarget_reset.                                                *)
WithoutTargets(names, rts) == [rt \in Target |-> IF rt \in rts THEN 0 ELSE names[rt]]

(* Mutant: the default framebuffer is bound instead.                       *)
Rebound_Default(g, names) == [g EXCEPT !.fbo = 0]

(* After a rendertarget was created, blitted or read, the framebuffer of   *)
(* the current one is bound again.                                         *)
Rebound(g, names) == [g EXCEPT !.fbo = NameOf(names, target)]

(* ngli_gctx_set_rendertarget.                                             *)
SetTarget(g, names, from, rt) == IF rt = from THEN g ELSE [g EXCEPT !.fbo = NameOf(names, rt)]

(***************************************************************************)
(* The GL state                                                            *)
(***************************************************************************)
(* Mutant: the box is only applied when the test is switched on.           *)
Honoured_OnSwitch(state) ==
  Override([blend |-> config.blend, test |-> config.test,
            box   |-> IF config.test /\ ~ recorded.test THEN config.box ELSE state.box], state)

(* honor_state.  The box is only applied if the scissor test is wanted.    *)
Honoured(state) ==
  Override([blend |-> IF config.blend # recorded.blend THEN config.blend ELSE state.blend,
            test  |-> IF config.test # recorded.test THEN config.test ELSE state.test,
            box   |-> IF config.test /\ config.box # recorded.box THEN config.box ELSE state.box], state)

(* ngli_honor_pending_glstate.                                             *)
Honour ==
  /\ gl' = [gl EXCEPT !.state = Honoured(gl.state)]
  /\ recorded' = config

(***************************************************************************)
(* The context                                                             *)
(***************************************************************************)
(* A node that is attached starts from zeroed private data.                *)
NodesReset ==
  /\ saved' = [n \in OfKind("config") |-> Neutral(1)]
  /\ matrix' = [n \in OfKind("transform") |-> 0]
  /\ camera' = [n \in OfKind("camera") |-> <<>>]

NodeTargets == {rt \in Target : rt[1] # Context}

Init ==
  /\ conf = [offscreen |-> FALSE, samples |-> FALSE, capture |-> FALSE, size |-> 1, clear |-> 0]
  /\ fb = [rt \in Target |-> 0]
  /\ target = None /\ viewport = 0 /\ clear = 0
  /\ config = Neutral(1) /\ recorded = Neutral(1)
  /\ saved = [n \in OfKind("config") |-> Neutral(1)]
  /\ matrix = [n \in OfKind("transform") |-> 0]
  /\ camera = [n \in OfKind("camera") |-> <<>>]
  /\ modelview = <<<<>>>> /\ projection = <<<<>>>>
  /\ timer = None
  /\ gl = NewGL(1, FALSE)
  /\ scene = None
  /\ t = 0
  /\ phase = "off"
  /\ stack = <<>>

Configs ==
  {c \in [offscreen : BOOLEAN, samples : BOOLEAN, capture : BOOLEAN, size : Size, clear : {1, 2}] :
     (c.capture => c.offscreen) /\ c.clear = IF c.offscreen THEN 1 ELSE 2}

Captures(c) ==
  IF ~ c.capture THEN <<>>
  ELSE <<<<Context, "capture">>>> \o IF Gles /\ c.samples THEN <<<<Context, "resolve">>>> ELSE <<>>

(* gl_destroy, then gl_configure.  The scene is detached before and        *)
(* attached again after.  An onscreen configuration leaves ctx->rendertarget *)
(* as it finds it.                                                         *)
Configure(c) ==
  /\ phase \in {"off", "idle"}
  /\ phase' = "idle"
  /\ conf' = c
  /\ target' = IF c.offscreen THEN <<Context, "rt">> ELSE target
  /\ fb' = WithTargets([rt \in Target |-> 0],
                       IF c.offscreen THEN <<<<Context, "rt">>>> \o Captures(c) ELSE <<>>)
  /\ gl' = [NewGL(c.size, c.offscreen) EXCEPT !.fbo = NameOf(fb', target'), !.clear = c.clear]
  /\ recorded' = gl'.state
  /\ viewport' = c.size
  /\ clear' = c.clear
  /\ config' = Neutral(c.size)
  /\ NodesReset
  /\ UNCHANGED <<stackVars, scene, t, stack>>

(* The textures of a rendertarget of the backend cannot be created.        *)
ConfigureFails(c) ==
  /\ phase \in {"off", "idle"} /\ c.offscreen
  /\ phase' = "off"
  /\ conf' = c
  /\ \/ UNCHANGED <<target, viewport>>
     \/ c.capture /\ target' = <<Context, "rt">> /\ viewport' = c.size
  /\ fb' = [rt \in Target |-> 0]
  /\ gl' = NewGL(1, FALSE)
  /\ NodesReset
  /\ UNCHANGED <<clear, config, recorded, stackVars, scene, t, stack>>

(* gl_resize.                                                              *)
Resize(size) ==
  /\ phase = "idle" /\ ~ conf.offscreen
  /\ conf' = [conf EXCEPT !.size = size]
  /\ viewport' = size
  /\ gl' = [gl EXCEPT !.viewport = size]
  /\ config' = [config EXCEPT !.box = size]
  /\ UNCHANGED <<fb, target, clear, recorded, saved, stackVars, sceneVars, t, phase, stack>>

(* cmd_set_scene; the rtts and conversions of the old one are released.    *)
SetScene(root) ==
  /\ phase = "idle"
  /\ scene' = root
  /\ fb' = WithoutTargets(fb, NodeTargets)
  /\ NodesReset
  /\ UNCHANGED <<conf, ctxVars, stackVars, gl, t, phase, stack>>

(***************************************************************************)
(* A frame, before the draw: gl_pre_draw, prefetch, update                 *)
(***************************************************************************)
Below[n \in Node] == {n} \union UNION {Below[k] : k \in ToSet(Kids[n])}
InScene == IF scene = None THEN {} ELSE Below[scene]

(* A scene has no cycle: node_set_ctx would not return.                    *)
ASSUME AcyclicAssumption ==
  \A n \in Node :
    /\ Below[n] = {n} \union UNION {Below[k] : k \in ToSet(Kids[n])}
    /\ \A k \in ToSet(Kids[n]) : n \notin Below[k]

PreDraw(time) ==
  /\ phase = "idle"
  /\ phase' = "prefetch"
  /\ t' = time
  /\ UNCHANGED <<conf, fb, ctxVars, saved, stackVars, gl, sceneVars, stack>>

(* The rendertargets rtt_prefetch makes, the multisampled one second.      *)
TargetsOf(n) == <<<<n, "rt">>>> \o IF n \in Multisampled THEN <<<<n, "ms">>>> ELSE <<>>
ToPrefetch   == SetToSeq({n \in InScene \intersect OfKind("rtt") : fb[<<n, "rt">>] = 0})

PrefetchAll(names, nodes) == FoldLeft(LAMBDA fbs, n : WithTargets(fbs, TargetsOf(n)), names, nodes)

(* ngli_node_honor_release_prefetch, in which the rtt after the first k    *)
(* may fail: it is released and there is no draw.                          *)
Prefetch ==
  /\ phase = "prefetch"
  /\ \E k \in 0 .. Len(ToPrefetch) :
       /\ fb' = PrefetchAll(fb, SubSeq(ToPrefetch, 1, k))
       /\ phase' = IF k = Len(ToPrefetch) THEN "update" ELSE "failed"
  /\ gl' = Rebound(gl, fb')
  /\ UNCHANGED <<conf, ctxVars, saved, stackVars, sceneVars, t, stack>>

(* ngli_hwconv_convert_image of a new frame of a texture, with             *)
(* ngli_hwconv_init before if there is no conversion yet: the target and   *)
(* the viewport are its own for the time of one draw.                      *)
Convert(m) ==
  /\ phase = "update" /\ scene # None
  /\ fb' = IF fb[<<m, "conv">>] = 0 THEN WithTargets(fb, <<<<m, "conv">>>>) ELSE fb
  /\ gl' = [Rebound(gl, fb') EXCEPT !.state = Honoured(gl.state)]
  /\ recorded' = config
  /\ UNCHANGED <<conf, target, viewport, clear, config, saved, stackVars, sceneVars, t, phase, stack>>

(* A matrix is a sequence of factors: the transforms, each with the time   *)
(* of its animation.                                                       *)
Factor(n, time) == <<<<n, IF n \in Animated THEN time ELSE 0>>>>

(* What the Identity at the end of the chain of a camera copies from the   *)
(* stack, on which the camera pushed an identity matrix.                   *)
ChainMatrix(n) == FoldLeft(LAMBDA m, k : m \o Factor(k, t), <<>>, EyeChain[n])

(* ngli_node_update of the scene, which leaves the stacks as they were.    *)
Update ==
  /\ phase = "update"
  /\ phase' = "draw"
  /\ matrix' = [n \in OfKind("transform") |-> IF n \in InScene \intersect Animated THEN t ELSE matrix[n]]
  /\ camera' = [n \in OfKind("camera") |-> IF n \in InScene THEN <<<<n, ChainMatrix(n)>>>> ELSE camera[n]]
  /\ stack' = <<[node |-> Context, rest |-> IF scene = None THEN <<>> ELSE <<scene>>,
                 target |-> target, viewport |-> viewport, clear |-> clear]>>
  /\ UNCHANGED <<conf, fb, ctxVars, saved, stackVars, gl, scene, t>>

(***************************************************************************)
(* ngli_node_draw                                                          *)
(***************************************************************************)
Top     == Last(stack)
Advanced == [stack EXCEPT ![Len(stack)].rest = Tail(@)]

Visit(n, k)  == phase = "draw" /\ stack # <<>> /\ Top.rest # <<>> /\ n = Head(Top.rest) /\ Kind[n] = k
Down(n)      == stack' = Append(Advanced, Frame(n))
Leave(n, k)  == phase = "draw" /\ Len(stack) > 1 /\ Top.rest = <<>> /\ n = Top.node /\ Kind[n] = k
Up           == stack' = Front(stack)

Unmoved == UNCHANGED <<conf, fb, sceneVars, t, phase>>

EnterGroup(n) == Visit(n, "group") /\ Down(n) /\ Unmoved /\ UNCHANGED <<ctxVars, saved, stackVars, gl>>
LeaveGroup(n) == Leave(n, "group") /\ Up /\ Unmoved /\ UNCHANGED <<ctxVars, saved, stackVars, gl>>

(* honor_config.                                                           *)
EnterConfig(n) ==
  /\ Visit(n, "config") /\ Down(n)
  /\ saved' = [saved EXCEPT ![n] = config]
  /\ config' = Override(Sets[n], config)
  /\ Unmoved /\ UNCHANGED <<target, viewport, clear, recorded, stackVars, gl>>

LeaveConfig(n) ==
  /\ Leave(n, "config") /\ Up
  /\ config' = saved[n]
  /\ Unmoved /\ UNCHANGED <<target, viewport, clear, recorded, saved, stackVars, gl>>

(* ngli_transform_draw.                                                    *)
EnterTransform(n) ==
  /\ Visit(n, "transform") /\ Down(n)
  /\ modelview' = Append(modelview, Last(modelview) \o <<<<n, matrix[n]>>>>)
  /\ Unmoved /\ UNCHANGED <<ctxVars, saved, projection, timer, gl>>

LeaveTransform(n) ==
  /\ Leave(n, "transform") /\ Up
  /\ modelview' = Front(modelview)
  /\ Unmoved /\ UNCHANGED <<ctxVars, saved, projection, timer, gl>>

(* camera_draw.                                                            *)
EnterCamera(n) ==
  /\ Visit(n, "camera") /\ Down(n)
  /\ modelview' = Append(modelview, camera[n])
  /\ projection' = Append(projection, <<n>>)
  /\ Unmoved /\ UNCHANGED <<ctxVars, saved, timer, gl>>

LeaveCamera(n) ==
  /\ Leave(n, "camera") /\ Up
  /\ modelview' = Front(modelview)
  /\ projection' = Front(projection)
  /\ Unmoved /\ UNCHANGED <<ctxVars, saved, timer, gl>>

(* widget_latency_make_stats: only one query can be active in a context.   *)
EnterHud(n) ==
  /\ Visit(n, "hud") /\ Down(n)
  /\ timer' = IF timer = None THEN n ELSE timer
  /\ Unmoved /\ UNCHANGED <<ctxVars, saved, modelview, projection, gl>>

LeaveHud(n) ==
  /\ Leave(n, "hud") /\ Up
  /\ timer' = IF timer = n THEN None ELSE timer
  /\ Unmoved /\ UNCHANGED <<ctxVars, saved, modelview, projection, gl>>

(* rtt_draw, up to the draw of the child.                                  *)
DrawTarget(n) == <<n, IF n \in Multisampled THEN "ms" ELSE "rt">>

EnterRtt(n) ==
  /\ Visit(n, "rtt") /\ Down(n)
  /\ target' = DrawTarget(n)
  /\ viewport' = n
  /\ clear' = IF n \in OwnClear THEN n ELSE clear
  /\ gl' = [SetTarget(gl, fb, target, target') EXCEPT !.viewport = n, !.clear = clear']
  /\ Unmoved /\ UNCHANGED <<config, recorded, saved, stackVars>>

(* Mutant: the clear colour is not put back.                               *)
LeaveRtt_KeepsClear(n) ==
  /\ Leave(n, "rtt") /\ Up
  /\ target' = Top.target
  /\ viewport' = Top.viewport
  /\ gl' = [SetTarget(gl, fb, target, target') EXCEPT !.viewport = viewport']
  /\ Unmoved /\ UNCHANGED <<clear, config, recorded, saved, stackVars>>

(* rtt_draw, after it: the samples are resolved, the context is put back.  *)
LeaveRtt(n) ==
  /\ Leave(n, "rtt") /\ Up
  /\ target' = Top.target
  /\ viewport' = Top.viewport
  /\ clear' = IF n \in OwnClear THEN Top.clear ELSE clear
  /\ LET resolved == IF n \in Multisampled THEN Rebound(gl, fb) ELSE gl
     IN  gl' = [SetTarget(resolved, fb, target, target') EXCEPT !.viewport = viewport', !.clear = clear']
  /\ Unmoved /\ UNCHANGED <<config, recorded, saved, stackVars>>

(* ngli_pass_exec, as far as it depends on this state.                     *)
Render(n) ==
  /\ Visit(n, "render")
  /\ stack' = Advanced
  /\ Honour
  /\ Unmoved /\ UNCHANGED <<target, viewport, clear, config, saved, stackVars>>

(* Mutant: the frame ends with the state of the last draw.                 *)
PostDraw_NotHonoured ==
  /\ \/ phase = "failed"
     \/ phase = "draw" /\ Len(stack) = 1 /\ Top.rest = <<>>
  /\ phase' = "idle"
  /\ stack' = <<>>
  /\ gl' = IF conf.capture THEN Rebound(gl, fb) ELSE gl
  /\ UNCHANGED <<conf, fb, ctxVars, saved, stackVars, sceneVars, t>>

(* gl_post_draw, which cmd_draw also calls after an error.                 *)
PostDraw ==
  /\ \/ phase = "failed"
     \/ phase = "draw" /\ Len(stack) = 1 /\ Top.rest = <<>>
  /\ phase' = "idle"
  /\ stack' = <<>>
  /\ gl' = LET g == [gl EXCEPT !.state = Honoured(gl.state)] IN IF conf.capture THEN Rebound(g, fb) ELSE g
  /\ recorded' = config
  /\ UNCHANGED <<conf, fb, target, viewport, clear, config, saved, stackVars, sceneVars, t>>

Draw(n) ==
  \/ EnterGroup(n) \/ LeaveGroup(n)
  \/ EnterConfig(n) \/ LeaveConfig(n)
  \/ EnterTransform(n) \/ LeaveTransform(n)
  \/ EnterCamera(n) \/ LeaveCamera(n)
  \/ EnterHud(n) \/ LeaveHud(n)
  \/ EnterRtt(n) \/ LeaveRtt(n)
  \/ Render(n)

Next ==
  \/ \E c \in Configs : Configure(c) \/ ConfigureFails(c)
  \/ \E size \in Size : Resize(size)
  \/ \E root \in Scenes \union {None} : SetScene(root)
  \/ \E time \in Time : PreDraw(time)
  \/ Prefetch
  \/ \E m \in Media : Convert(m)
  \/ Update
  \/ \E n \in Node : Draw(n)
  \/ PostDraw

Spec == Init /\ [][Next]_vars

(***************************************************************************)
(* What the nodes of a path ask for, from the scene alone                  *)
(***************************************************************************)
Path == [i \in 1 .. Len(stack) - 1 |-> stack[i + 1].node]

(* The positions on a path of the nodes of a kind; the last is innermost.  *)
OnPath(path, k) == {i \in DOMAIN path : Kind[path[i]] = k}

AskedConfig(path) ==
  [f \in Field |->
     LET setters == {i \in OnPath(path, "config") : f \in DOMAIN Sets[path[i]]}
     IN  IF setters = {} THEN Neutral(conf.size)[f] ELSE Sets[path[Max(setters)]][f]]

AskedTarget(path) ==
  LET rtts == OnPath(path, "rtt")
  IN  IF rtts # {} THEN DrawTarget(path[Max(rtts)])
      ELSE IF conf.offscreen THEN <<Context, "rt">> ELSE None

AskedViewport(path) ==
  LET rtts == OnPath(path, "rtt") IN IF rtts = {} THEN conf.size ELSE path[Max(rtts)]

AskedClear(path) ==
  LET own == {i \in OnPath(path, "rtt") : path[i] \in OwnClear}
  IN  IF own = {} THEN conf.clear ELSE path[Max(own)]

(* A camera looks from its own place, whatever is above it.                *)
AskedModelview(path) ==
  FoldLeft(LAMBDA m, n : IF Kind[n] = "camera" THEN <<<<n, ChainMatrix(n)>>>>
                         ELSE IF Kind[n] = "transform" THEN m \o Factor(n, t)
                         ELSE m, <<>>, path)

AskedProjection(path) ==
  LET cameras == OnPath(path, "camera") IN IF cameras = {} THEN <<>> ELSE <<path[Max(cameras)]>>

(* The hud that came first keeps the timer.                                *)
AskedTimer(path) ==
  LET huds == OnPath(path, "hud") IN IF huds = {} THEN None ELSE path[Min(huds)]

(* The box does not matter while the scissor test is off.                  *)
Effective(state) == IF state.test THEN state ELSE [state EXCEPT !.box = 0]

(* A draw happens with the GL state, in the framebuffer and with the       *)
(* viewport and matrices that the nodes above it ask for, whatever was     *)
(* drawn before.  Hazard: the state that is recorded, the one that is      *)
(* applied and the one that is pending are three (glstate.c:287-300), and  *)
(* what a node changed it must put back on the way up.                     *)
DrawnAsAsked ==
  [][\A n \in Node : Render(n) =>
       /\ Effective(gl'.state) = Effective(AskedConfig(Path))
       /\ gl'.fbo = NameOf(fb, AskedTarget(Path)) /\ (AskedTarget(Path) # None => gl'.fbo # 0)
       /\ gl'.viewport = AskedViewport(Path)
       /\ Last(modelview) = AskedModelview(Path) /\ Last(projection) = AskedProjection(Path)]_vars

(* The state of the context is at every moment the one of the path down    *)
(* the tree, and the configured one between frames.                        *)
StateFollowsPath ==
  phase # "off" =>
    /\ config = AskedConfig(Path)
    /\ NameOf(fb, target) = NameOf(fb, AskedTarget(Path))
    /\ viewport = AskedViewport(Path) /\ clear = AskedClear(Path)
    /\ Len(modelview) = 1 + Cardinality(OnPath(Path, "transform")) + Cardinality(OnPath(Path, "camera"))
    /\ Len(projection) = 1 + Cardinality(OnPath(Path, "camera"))
    /\ timer = AskedTimer(Path)

(* What the context believes of GL is what GL has: the framebuffer it      *)
(* thinks bound, the viewport, the clear colour, the applied state; a      *)
(* command it spares because of what it recorded would change nothing.     *)
ContextKnowsGL ==
  phase # "off" =>
    /\ gl.fbo = NameOf(fb, target) /\ gl.viewport = viewport /\ gl.clear = clear
    /\ gl.state.blend = recorded.blend /\ gl.state.test = recorded.test

(* The frame is cleared, and captured or shown, with the state of no node: *)
(* all of it, in the framebuffer of the context.                           *)
FrameIsWhole ==
  [][phase' # phase /\ (phase = "idle" \/ phase' = "idle") /\ phase # "off" /\ phase' # "off" =>
       Effective(gl'.state) = Effective(Neutral(conf'.size)) /\ gl'.fbo = NameOf(fb', AskedTarget(Path))]_vars

(* An rtt clears its target and resolves its samples under the             *)
(* configuration of the nodes above it.                                    *)
RttUnderItsPath ==
  [][\A n \in OfKind("rtt") : EnterRtt(n) \/ (LeaveRtt(n) /\ n \in Multisampled) =>
       Effective(gl.state) = Effective(AskedConfig(Path))]_vars

==============================================================================
