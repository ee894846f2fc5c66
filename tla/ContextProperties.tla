-------------------------- MODULE ContextProperties --------------------------
(***************************************************************************)
(* What the contexts and the nodes of module Context must satisfy.         *)
(***************************************************************************)
EXTENDS Context

(***************************************************************************)
(* Ownership of the nodes                                                  *)
(***************************************************************************)

(* OwnerCounted: a node has a context exactly while some attachment of it  *)
(* is counted, and is initialised then.  The assert of node_set_ctx on a   *)
(* negative count and those of node_release and node_uninit on node->ctx   *)
(* rest on it, in the middle of a walk as well as between commands.        *)
OwnerCounted ==
  \A n \in Node :
    /\ ctx_refcount[n] >= 0
    /\ ctx[n] = NoCtx <=> ctx_refcount[n] = 0
    /\ ctx[n] # NoCtx => state[n] # Uninitialized

(* SingleOwner: no step hands a node over from a context to another one; a *)
(* node shared by two scenes is refused by node_set_ctx until the first    *)
(* context has let go of it, however the walks of two scenes meet.         *)
SingleOwner ==
  [][\A n \in Node : ctx'[n] \in {ctx[n], NoCtx} \/ ctx[n] = NoCtx]_vars

(* What a context has attached: the scene of a context with a backend.     *)
Attached(c) == IF scene[c] = NoNode \/ c \notin backend THEN {} ELSE Descendants(scene[c])

(* SceneIsAttached: between two commands a context owns the nodes of its   *)
(* scene and no other.  A scene is attached as a whole or not at all, also *)
(* after an ngl_set_scene or an ngl_configure (api.c) that failed.         *)
SceneIsAttached ==
  Idle => \A c \in Ctx : {n \in Node : ctx[n] = c} = Attached(c)

(* CountIsPaths: between two commands the ctx_refcount of a node is the    *)
(* number of paths to it from the scene of its context, as node_set_ctx    *)
(* runs once per path: a node shared by several branches must neither be   *)
(* released by the first one nor outlive the last one.  The number of      *)
(* paths to a node is the sum of those to its parents, one more for a root.*)
CountIsPaths ==
  Idle => \A n \in Node :
    ctx_refcount[n] = Cardinality({c \in backend : scene[c] = n})
                      + MapThenSumSet(LAMBDA e : ctx_refcount[e[1]], References(children, n))

(* ChildrenOutliveParents: a node that is initialised has a context, and   *)
(* all its children initialised in that context, at every step of a walk:  *)
(* the init, update, draw and uninit callbacks of a node use its children  *)
(* freely, and node_prefetch does not look at the context of what a visit  *)
(* has queued.                                                             *)
ChildrenOutliveParents ==
  \A n \in Node : state[n] # Uninitialized =>
    /\ ctx[n] # NoCtx
    /\ \A i \in DOMAIN children[n] : ctx[children[n][i]] = ctx[n]

(* RefcountExact: between two commands the refcount of a node that is not  *)
(* freed counts the client's reference, the node parameters that name it   *)
(* and the contexts whose scene it is; nothing is leaked and nothing is    *)
(* freed early, whichever commands failed (nodes.c:601-623, params.c).     *)
Live(n) == refcount[n] > 0

RefcountExact ==
  Idle => \A n \in Node :
    refcount[n] = Cardinality({x \in held : x = n})
                  + Cardinality({e \in References(children, n) : Live(e[1])})
                  + Cardinality({c \in Ctx : scene[c] = n})

(* NoUseAfterFree: no walk runs on a freed node, no context points to one, *)
(* and no live node has one as a parameter.                                *)
NoUseAfterFree ==
  /\ stack # <<>> => \/ Live(Top.node)
                     \/ Top.fn = "unref" /\ Top.next > 0
  /\ \A c \in Ctx : scene[c] # NoNode => Live(scene[c])
  /\ \A n \in Node : Live(n) => \A i \in DOMAIN children[n] : Live(children[n][i])

(* AssertsHold: no ngli_assert() of nodes.c aborts the process.            *)
AssertsHold == ~aborted

(* CountsAreExact: both counts of a node are what the graph, the contexts  *)
(* and the client account for, whatever was refused, so that nothing is    *)
(* used after it was freed and no assertion fails when the last reference  *)
(* goes.                                                                   *)
CountsAreExact ==
  SceneIsAttached /\ CountIsPaths /\ RefcountExact /\ NoUseAfterFree /\ AssertsHold

(* Lifecycle: the contexts drive every node through the life cycle that    *)
(* nodes.h (lines 418-453) lets the node classes rely on, whatever the     *)
(* walks share and wherever they fail.                                     *)
NodeLife == INSTANCE NodeLifecycle
Lifecycle == NodeLife!Spec

(***************************************************************************)
(* Frames                                                                  *)
(***************************************************************************)

(* DrawReady: ngli_node_draw checks nothing, so the nodes it reaches must  *)
(* be prefetched already: the visit, the prefetch and the update before it *)
(* each choose the children they take, and must agree (nodes.h:418-453).   *)
DrawReady == Entering("draw") => state[Top.node] = Ready

(* DrawUpdated: a node that is drawn was updated for the time of the frame,*)
(* which is the one it was visited for, or for the render time of a "once" *)
(* range; it never shows another frame, nor the one it had before its      *)
(* resources were released.                                                *)
RenderTimes ==
  UNION {{Ranges[n][i].render : i \in {j \in DOMAIN Ranges[n] : Ranges[n][j].mode = "once"}}
         : n \in Node}

DrawUpdated ==
  Entering("draw") => last_update_time[Top.node] \in {visit_time[Top.node]} \union RenderTimes

(* A frame is settled when its visit, its prefetches and releases and its  *)
(* update succeeded and it is about to be drawn.                           *)
FrameSettled == At("draw_draw") /\ ~Failed
InFrame(n) == ctx[n] = cmd.ctx
ActiveNow(n) == is_active[n] /\ visit_time[n] = cmd.t

(* InactiveReleased: once a frame is settled, a node of the scene that has *)
(* resources to prefetch holds them if and only if the frame needs it.     *)
InactiveReleased ==
  FrameSettled => \A n \in Prefetching : InFrame(n) => (state[n] = Ready <=> ActiveNow(n))

(* ActivityFollowsParents: once the visit of a frame is done, a node below *)
(* the scene is active if and only if one of its active parents lets       *)
(* activity through at the time of the frame: any branch keeps a shared    *)
(* node, and the order in which the branches are visited does not matter.  *)
ActivityFollowsParents ==
  At("draw_honor") /\ ~Failed => \A n \in Node : InFrame(n) /\ n # scene[cmd.ctx] =>
    (ActiveNow(n) <=> \E r \in References(children, n) :
                         /\ InFrame(r[1])
                         /\ ActiveNow(r[1])
                         /\ ChildActive(r[1], TRUE, cmd.t))

(* OnceKeepsItsFrame: a TimeRangeFilter that was updated in a "once" range *)
(* and does not draw its child because it did already, shows the child at  *)
(* the render time of that range (node_timerangefilter.c:117-126, 181-187):*)
(* the child was not released, nor updated for another time, meanwhile.    *)
OnceKeepsItsFrame ==
  FrameSettled => \A n \in Node :
    IsFilter(n) /\ InFrame(n) /\ last_update_time[n] = cmd.t /\ Mode(n, cmd.t) = "once" =>
      last_update_time[children[n][1]] = ChildTime(n, cmd.t)

(* DrawnAsUpdated: the four walks of a frame take the same nodes for the   *)
(* same time: what is drawn is prefetched, shows the time of the frame or  *)
(* the frame its filter keeps, and no walk fails an assertion.             *)
DrawnAsUpdated == DrawReady /\ DrawUpdated /\ OnceKeepsItsFrame /\ AssertsHold

(***************************************************************************)
(* Liveness                                                                *)
(***************************************************************************)

(* CommandReturns: every command the client sends returns, as the walks    *)
(* are finite on a graph without cycle and none of them aborts, and leaves *)
(* every context with exactly its scene attached, after any failure (the   *)
(* client may do nothing more, so what a command leaves is what stays).    *)
CommandReturns == (pc # "idle" \/ stack # <<>>) ~> (Idle /\ SceneIsAttached)

=============================================================================
