------------------------------- MODULE Context -------------------------------
(***************************************************************************)
(* The rendering contexts of libnodegl/api.c on a shared set of nodes: the *)
(* commands a client sends to its contexts (configure, set the scene,      *)
(* draw, free) and what it does to its nodes in between.  A command is     *)
(* synchronous (WorkerDispatch models the hand-over to the worker thread), *)
(* so one client runs one command at a time.                               *)
(***************************************************************************)
EXTENDS NodeActivity, FiniteSetsExt

CONSTANTS
  InitChildren,         \* the graph the client built before the behaviour starts
  MaxChildren,          \* bound on the children of a node the client extends
  MaxRefs,              \* bound on the references on a node used as a scene
  Roots,                \* the nodes the client uses as scenes
  Dropped,              \* the nodes whose reference the client may give up
  ConfigureMayFail,     \* the contexts whose backend may fail to configure
  MayReconfigure,       \* whether the client configures a context again
  Playback,             \* the times of the frames of a scene: "any", "seek" (never
                        \* the same twice in a row) or "forward"
  LiveNodes             \* the UserSwitch nodes the client changes while attached

(* The node parameters that refer to n: pairs of a node and an index.      *)
References(graph, n) ==
  UNION {{<<p, i>> : i \in {j \in DOMAIN graph[p] : graph[p][j] = n}} : p \in Node}

ASSUME ContextAssumption ==
  /\ IsFiniteSet(Node) /\ IsFiniteSet(Ctx)
  /\ InitChildren \in [Node -> Seq(Node)]
  /\ \A n \in Node : IsSwitch(n) \/ IsFilter(n) => Len(InitChildren[n]) = 1
  /\ MaxChildren \in Nat
  /\ MaxRefs \in Nat
  /\ Roots \subseteq Node
  /\ Dropped \subseteq Node
  /\ ConfigureMayFail \subseteq Ctx
  /\ MayReconfigure \in BOOLEAN
  /\ Playback \in {"any", "seek", "forward"}
  /\ LiveNodes \subseteq {n \in Node : IsSwitch(n)}

VARIABLES
  alive,       \* the contexts that exist (ngl_create, ngl_freep)
  configured,  \* the contexts whose "configured" flag is set
  backend,     \* the contexts with a backend
  scene,       \* s->scene of each context
  held,        \* the nodes the client holds a reference on
  pc,          \* where the command in progress stands, "idle" for none
  cmd          \* its arguments

ctxVars == <<alive, configured, backend, scene>>
vars    == <<nodeVars, callVars, activity, ctxVars, held, pc, cmd>>

CmdData == [op : {"none", "configure", "set_scene", "prepare_draw", "draw", "free"},
            ctx : Ctx \union {NoCtx}, node : Node \union {NoNode}, t : Time \union {Unset}]
NoCmd == [op |-> "none", ctx |-> NoCtx, node |-> NoNode, t |-> Unset]
Cmd(op, c, n, t) == [op |-> op, ctx |-> c, node |-> n, t |-> t]

TypeOK ==
  /\ children \in [Node -> Seq(Node)]
  /\ refcount \in [Node -> Int]
  /\ ctx \in [Node -> Ctx \union {NoCtx}]
  /\ ctx_refcount \in [Node -> Int]
  /\ state \in [Node -> State]
  /\ is_active \in [Node -> BOOLEAN]
  /\ visit_time \in [Node -> Time \union {Unset}]
  /\ last_update_time \in [Node -> Time \union {Unset}]
  /\ enabled \in [Node -> BOOLEAN]
  /\ range \in [Node -> RangeData]
  /\ stack \in Seq(Frame)
  /\ status \in {"ok", "error"}
  /\ aborted \in BOOLEAN
  /\ activity \in [Ctx -> Seq(Node)]
  /\ alive \subseteq Ctx
  /\ configured \subseteq Ctx
  /\ backend \subseteq Ctx
  /\ scene \in [Ctx -> Node \union {NoNode}]
  /\ held \subseteq Node
  /\ pc \in {"idle", "conf_backend", "conf_attached", "scene_unref", "scene_attach",
             "scene_attached", "draw_honor", "draw_draw", "free_unref", "free_stop"}
  /\ cmd \in CmdData

Init ==
  /\ children = InitChildren
  /\ refcount = [n \in Node |-> 1 + Cardinality(References(InitChildren, n))]
  /\ ctx = [n \in Node |-> NoCtx]
  /\ ctx_refcount = [n \in Node |-> 0]
  /\ state = [n \in Node |-> Uninitialized]
  /\ is_active = [n \in Node |-> FALSE]
  /\ visit_time = [n \in Node |-> Unset]
  /\ last_update_time = [n \in Node |-> Unset]
  /\ enabled = [n \in Node |-> TRUE]
  /\ range = [n \in Node |-> ZeroedRange]
  /\ stack = <<>>
  /\ status = "ok"
  /\ aborted = FALSE
  /\ activity = [c \in Ctx |-> <<>>]
  /\ alive = Ctx
  /\ configured = {}
  /\ backend = {}
  /\ scene = [c \in Ctx |-> NoNode]
  /\ held = Node
  /\ pc = "idle"
  /\ cmd = NoCmd

(***************************************************************************)
(* The client                                                              *)
(***************************************************************************)
Idle == pc = "idle" /\ stack = <<>> /\ ~aborted

nodesUnchanged == UNCHANGED <<nodeVars, held>>

(* The command in progress starts a walk and goes on at "next" after it.   *)
Start(call, next) == stack' = <<call>> /\ pc' = next

(* A command with the given arguments starts.                              *)
Begin(c) == cmd' = c /\ status' = "ok" /\ UNCHANGED aborted

(* ngl_create.                                                             *)
Create(c) ==
  /\ Idle
  /\ c \notin alive
  /\ alive' = alive \union {c}
  /\ UNCHANGED <<nodeVars, callVars, activity, configured, backend, scene, held, pc, cmd>>

(* ngl_configure and the start of cmd_configure.                           *)
Configure(c) ==
  /\ Idle
  /\ c \in alive
  /\ MayReconfigure \/ c \notin backend
  /\ configured' = configured \ {c}
  /\ Begin(Cmd("configure", c, NoNode, Unset))
  /\ IF scene[c] # NoNode
     THEN Start(DetachCall(scene[c], c), "conf_backend")
     ELSE pc' = "conf_backend" /\ UNCHANGED stack
  /\ nodesUnchanged
  /\ UNCHANGED <<activity, alive, backend, scene>>

(* ngl_set_scene and the start of cmd_set_scene.                           *)
SetScene(c, n) ==
  /\ Idle
  /\ c \in configured
  /\ n \in (held \intersect Roots) \union {NoNode}
  /\ n # NoNode => refcount[n] < MaxRefs
  /\ Begin(Cmd("set_scene", c, n, Unset))
  /\ IF scene[c] # NoNode
     THEN Start(DetachCall(scene[c], c), "scene_unref")
     ELSE pc' = "scene_attach" /\ UNCHANGED stack
  /\ nodesUnchanged
  /\ UNCHANGED <<activity, ctxVars>>

MayFollow(last, t) ==
  /\ Playback # "any" => t # last
  /\ Playback = "forward" => t > last

(* ngl_draw (op is "draw") and ngli_prepare_draw, on a context with a      *)
(* scene: without one there is nothing to do.                              *)
Draw(op, c, t) ==
  /\ Idle
  /\ c \in configured
  /\ scene[c] # NoNode
  /\ MayFollow(visit_time[scene[c]], t)
  /\ Begin(Cmd(op, c, NoNode, t))
  /\ activity' = [activity EXCEPT ![c] = <<>>]
  /\ Start(VisitCall(scene[c], TRUE, t), "draw_honor")
  /\ nodesUnchanged
  /\ UNCHANGED ctxVars

(* ngl_freep: only a configured context sets its scene to NULL first.      *)
Free(c) ==
  /\ Idle
  /\ c \in alive
  /\ Begin(Cmd("free", c, NoNode, Unset))
  /\ IF c \in configured /\ scene[c] # NoNode
     THEN Start(DetachCall(scene[c], c), "free_unref")
     ELSE pc' = "free_stop" /\ UNCHANGED stack
  /\ nodesUnchanged
  /\ UNCHANGED <<activity, ctxVars>>

(* ngl_node_unrefp: the client gives its reference up.                     *)
NodeUnref(n) ==
  /\ Idle
  /\ n \in held \intersect Dropped
  /\ held' = held \ {n}
  /\ Start(UnrefCall(n), "idle")
  /\ Begin(NoCmd)
  /\ UNCHANGED <<nodeVars, activity, ctxVars>>

Descendants(n) ==
  LET within[k \in 0 .. Cardinality(Node)] ==
        IF k = 0 THEN {n}
        ELSE within[k - 1] \union UNION {{children[p][i] : i \in DOMAIN children[p]} : p \in within[k - 1]}
  IN  within[Cardinality(Node)]

(* ngl_node_param_add on a Group, which refuses a live change.             *)
MayExtend(n) == ctx[n] = NoCtx

AddChild(n, child) ==
  /\ Idle
  /\ {n, child} \subseteq held
  /\ Kind[n] = "plain"
  /\ Len(children[n]) < MaxChildren
  /\ n \notin Descendants(child)
  /\ MayExtend(n)
  /\ children' = [children EXCEPT ![n] = Append(@, child)]
  /\ refcount' = [refcount EXCEPT ![child] = @ + 1]
  /\ UNCHANGED <<enabled, lifeVars, activityVars, range, callVars, activity, ctxVars, held, pc, cmd>>

(* ngl_node_param_set of a UserSwitch, live or not.                        *)
Toggle(n) ==
  /\ Idle
  /\ n \in held \intersect LiveNodes
  /\ enabled' = [enabled EXCEPT ![n] = ~@]
  /\ UNCHANGED <<children, refcount, lifeVars, activityVars, range, callVars, activity, ctxVars,
                 held, pc, cmd>>

(***************************************************************************)
(* The rest of a command, once the walk it started has returned            *)
(***************************************************************************)
At(label) == pc = label /\ stack = <<>> /\ ~aborted

Finish == pc' = "idle" /\ cmd' = NoCmd
Failed == status = "error"

(* Mutant: the scene is not attached to the new backend.                   *)
BackendConfigured_NoAttach ==
  LET c == cmd.ctx IN
  /\ At("conf_backend")
  /\ backend' = backend \union {c}
  /\ configured' = configured \union {c}
  /\ Finish
  /\ nodesUnchanged
  /\ UNCHANGED <<stack, status, aborted, activity, alive, scene>>

(* cmd_configure after the scene is detached.                              *)
BackendConfigured ==
  LET c == cmd.ctx IN
  /\ At("conf_backend")
  /\ backend' = backend \union {c}
  /\ IF scene[c] # NoNode
     THEN Start(AttachCall(scene[c], c), "conf_attached") /\ UNCHANGED <<cmd, configured>>
     ELSE Finish /\ configured' = configured \union {c} /\ UNCHANGED stack
  /\ nodesUnchanged
  /\ UNCHANGED <<status, aborted, activity, alive, scene>>

BackendFails ==
  /\ At("conf_backend")
  /\ cmd.ctx \in ConfigureMayFail
  /\ backend' = backend \ {cmd.ctx}
  /\ status' = "error"
  /\ Finish
  /\ nodesUnchanged
  /\ UNCHANGED <<stack, aborted, activity, alive, configured, scene>>

(* cmd_configure after the scene is attached: unlike cmd_set_scene, a      *)
(* failure drops the scene without detaching what was attached of it.      *)
SceneReattached ==
  LET c == cmd.ctx IN
  /\ At("conf_attached")
  /\ IF Failed
     THEN /\ stack' = <<UnrefCall(scene[c])>>
          /\ scene' = [scene EXCEPT ![c] = NoNode]
          /\ backend' = backend \ {c}
          /\ UNCHANGED configured
     ELSE configured' = configured \union {c} /\ UNCHANGED <<stack, scene, backend>>
  /\ Finish
  /\ nodesUnchanged
  /\ UNCHANGED <<status, aborted, activity, alive>>

(* cmd_set_scene after the old scene is detached, also from ngl_freep.     *)
UnrefScene ==
  LET c == cmd.ctx IN
  /\ pc \in {"scene_unref", "free_unref"}
  /\ At(pc)
  /\ Start(UnrefCall(scene[c]), IF pc = "scene_unref" THEN "scene_attach" ELSE "free_stop")
  /\ scene' = [scene EXCEPT ![c] = NoNode]
  /\ nodesUnchanged
  /\ UNCHANGED <<status, aborted, activity, alive, configured, backend, cmd>>

AttachScene ==
  /\ At("scene_attach")
  /\ IF cmd.node # NoNode
     THEN Start(AttachCall(cmd.node, cmd.ctx), "scene_attached") /\ UNCHANGED cmd
     ELSE Finish /\ UNCHANGED stack
  /\ nodesUnchanged
  /\ UNCHANGED <<status, aborted, activity, ctxVars>>

SceneAttached ==
  LET n == cmd.node IN
  /\ At("scene_attached")
  /\ ~Failed
  /\ refcount' = [refcount EXCEPT ![n] = @ + 1]
  /\ scene' = [scene EXCEPT ![cmd.ctx] = n]
  /\ Finish
  /\ UNCHANGED <<paramVars, lifeVars, activityVars, range, held, callVars, activity, alive, configured, backend>>

(* cmd_set_scene detaches what a failed attach has left.                   *)
SceneRefused ==
  /\ At("scene_attached")
  /\ Failed
  /\ stack' = <<DetachCall(cmd.node, cmd.ctx)>>
  /\ Finish
  /\ nodesUnchanged
  /\ UNCHANGED <<status, aborted, activity, ctxVars>>

(* cmd_prepare_draw after the visit: the queued nodes one by one.          *)
HonorNext ==
  LET c == cmd.ctx IN
  /\ At("draw_honor")
  /\ activity[c] # <<>>
  /\ \/ /\ HonorNode(Head(activity[c]))
        /\ activity' = [activity EXCEPT ![c] = Tail(@)]
        /\ UNCHANGED <<pc, cmd>>
     \/ /\ HonorFails(Head(activity[c]))
        /\ Finish
        /\ UNCHANGED activity
  /\ UNCHANGED <<ctxVars, held>>

UpdateScene ==
  LET c == cmd.ctx IN
  /\ At("draw_honor")
  /\ activity[c] = <<>>
  /\ Start(UpdateCall(scene[c], cmd.t), "draw_draw")
  /\ nodesUnchanged
  /\ UNCHANGED <<status, aborted, activity, ctxVars, cmd>>

(* cmd_draw after the update.                                              *)
DrawScene ==
  /\ At("draw_draw")
  /\ IF ~Failed /\ cmd.op = "draw"
     THEN stack' = <<DrawCall(scene[cmd.ctx])>>
     ELSE UNCHANGED stack
  /\ Finish
  /\ nodesUnchanged
  /\ UNCHANGED <<status, aborted, activity, ctxVars>>

(* stop_thread and the end of ngl_freep: the backend and the context go,   *)
(* and with them whatever scene the context still pointed to.              *)
FreeContext ==
  LET c == cmd.ctx IN
  /\ At("free_stop")
  /\ alive' = alive \ {c}
  /\ configured' = configured \ {c}
  /\ backend' = backend \ {c}
  /\ scene' = [scene EXCEPT ![c] = NoNode]
  /\ activity' = [activity EXCEPT ![c] = <<>>]
  /\ Finish
  /\ nodesUnchanged
  /\ UNCHANGED callVars

(***************************************************************************)
(* The whole                                                               *)
(***************************************************************************)
Client ==
  \/ \E c \in Ctx :
       \/ Create(c) \/ Configure(c) \/ Free(c)
       \/ \E n \in Node \union {NoNode} : SetScene(c, n)
       \/ \E t \in Time, op \in {"draw", "prepare_draw"} : Draw(op, c, t)
  \/ \E n \in Node : NodeUnref(n) \/ Toggle(n) \/ \E child \in Node : AddChild(n, child)

Command ==
  \/ BackendConfigured \/ BackendFails \/ SceneReattached
  \/ UnrefScene \/ AttachScene \/ SceneAttached \/ SceneRefused
  \/ HonorNext \/ UpdateScene \/ DrawScene \/ FreeContext

GraphWalk == GraphStep /\ UNCHANGED <<activity, ctxVars, held, pc, cmd>>
ActivityWalk == ActivityStep /\ UNCHANGED <<ctxVars, held, pc, cmd>>

Next == Client \/ Command \/ GraphWalk \/ ActivityWalk

(* A command runs to its end; nothing obliges the client to send one.      *)
Spec == Init /\ [][Next]_vars /\ WF_vars(Command \/ GraphWalk \/ ActivityWalk)

=============================================================================
