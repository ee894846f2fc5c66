----------------------------- MODULE NodeGraph -----------------------------
(***************************************************************************)
(* The nodes of a scene graph and the walks that bind them to a rendering  *)
(* context (libnodegl/nodes.c): attach and detach (node_set_ctx) and the   *)
(* release of a reference (ngl_node_unrefp).                               *)
(*                                                                         *)
(* The walks of nodes.c are recursive functions.  Here the call stack is a *)
(* variable: its first element is the running call.  A call first runs its *)
(* part before the recursion, then calls its children one after the other, *)
(* then runs its part after the recursion.  An error return propagates     *)
(* through all the callers without any clean-up, so it empties the stack.  *)
(***************************************************************************)
EXTENDS Integers, Sequences, FiniteSets

CONSTANTS
  Node,         \* the nodes the client created
  Ctx,          \* the rendering contexts
  NoCtx,        \* the NULL context
  NoNode,       \* the NULL node
  Prefetching,  \* the nodes whose class has a prefetch callback
  InitMayFail,  \* the nodes whose class init callback may fail
  Time          \* the times a frame may be asked for

ASSUME NodeAssumption ==
  /\ NoCtx \notin Ctx
  /\ NoNode \notin Node
  /\ Prefetching \subseteq Node
  /\ InitMayFail \subseteq Node
  /\ Time \subseteq Int

VARIABLES
  children,          \* the node parameters of a node, in the order of its params
  refcount,          \* node->refcount, 0 once the node is freed
  ctx,               \* node->ctx
  ctx_refcount,      \* node->ctx_refcount
  state,             \* node->state
  is_active,         \* node->is_active
  visit_time,        \* node->visit_time
  last_update_time,  \* node->last_update_time
  enabled,           \* the "enabled" parameter of a UserSwitch
  range,             \* the private data of a TimeRangeFilter
  stack,             \* the calls in progress, the running one first
  status,            \* "ok", or "error" once a call has failed
  aborted            \* TRUE once an ngli_assert() has failed

paramVars    == <<children, enabled>>
lifeVars     == <<ctx, ctx_refcount, state>>
activityVars == <<is_active, visit_time, last_update_time>>
nodeVars     == <<paramVars, refcount, lifeVars, activityVars, range>>
callVars     == <<stack, status, aborted>>

Uninitialized == "UNINITIALIZED"
Initialized   == "INITIALIZED"
Ready         == "READY"
State         == {Uninitialized, Initialized, Ready}

Unset == -1     \* the initial visit_time and last_update_time

(* The non-parameter fields of a zeroed timerangefilter_priv and of the    *)
(* "updated" flags of its ranges; ranges are counted from 1.               *)
RangeData   == [current : Nat \ {0}, updated : SUBSET Nat, drawme : BOOLEAN]
ZeroedRange == [current |-> 1, updated |-> {}, drawme |-> FALSE]

(***************************************************************************)
(* Calls                                                                   *)
(***************************************************************************)
Walk == {"attach", "detach", "unref", "visit", "update", "draw"}

Frame == [fn : Walk, node : Node, owner : Ctx \union {NoCtx}, next : Nat,
          active : BOOLEAN, queue : BOOLEAN, t : Time \union {Unset}]

(* next is 0 before the call has run its first part, and then the index of *)
(* the next child to call; owner is the context argument of attach and     *)
(* detach; active and t are the arguments of visit and update; queue is    *)
(* the local variable queue_node of ngli_node_visit.                       *)
Call(fn, n, c, active, t) ==
  [fn |-> fn, node |-> n, owner |-> c, next |-> 0,
   active |-> active, queue |-> FALSE, t |-> t]

AttachCall(n, c) == Call("attach", n, c, FALSE, Unset)
DetachCall(n, c) == Call("detach", n, c, FALSE, Unset)
UnrefCall(n)     == Call("unref", n, NoCtx, FALSE, Unset)

Top          == Head(stack)
Running(fn)  == stack # <<>> /\ Top.fn = fn /\ ~aborted
Entering(fn) == Running(fn) /\ Top.next = 0
Leaving(fn)  == Running(fn) /\ Top.next = Len(children[Top.node]) + 1
Return       == stack' = Tail(stack) /\ UNCHANGED <<status, aborted>>
Fail         == stack' = <<>> /\ status' = "error" /\ UNCHANGED aborted
Abort        == aborted' = TRUE /\ UNCHANGED <<stack, status>>

(* The running call goes on with its first child, or skips all of them.    *)
Descend ==
  /\ stack' = <<[Top EXCEPT !.next = 1]>> \o Tail(stack)
  /\ UNCHANGED <<status, aborted>>
SkipChildren ==
  /\ stack' = <<[Top EXCEPT !.next = Len(children[Top.node]) + 1]>> \o Tail(stack)
  /\ UNCHANGED <<status, aborted>>

(* The running call calls its next child.                                  *)
NextChild == children[Top.node][Top.next]

CallChild(call) ==
  /\ Top.next \in 1 .. Len(children[Top.node])
  /\ stack' = <<call, [Top EXCEPT !.next = @ + 1]>> \o Tail(stack)
  /\ UNCHANGED <<nodeVars, status, aborted>>

(* Mutant: a node of another context is attached all the same.             *)
OwnedByAnother_Never(n, c) == FALSE

(***************************************************************************)
(* node_set_ctx(node, ctx, ctx): attach, children first                    *)
(***************************************************************************)
OwnedByAnother(n, c) == ctx[n] # NoCtx /\ ctx[n] # c

AttachEnter ==
  /\ Entering("attach")
  /\ IF OwnedByAnother(Top.node, Top.owner) THEN Fail ELSE Descend
  /\ UNCHANGED nodeVars

AttachChild == Running("attach") /\ CallChild(AttachCall(NextChild, Top.owner))

StateAfterInit(n) == IF n \in Prefetching THEN Initialized ELSE Ready

(* Mutant: an initialised node is not counted again.                       *)
AttachSucceeds_CountsOnce ==
  LET n == Top.node IN
  /\ Leaving("attach")
  /\ ctx' = [ctx EXCEPT ![n] = Top.owner]
  /\ state' = [state EXCEPT ![n] = IF @ = Uninitialized THEN StateAfterInit(n) ELSE @]
  /\ ctx_refcount' = [ctx_refcount EXCEPT ![n] = IF state[n] = Uninitialized THEN @ + 1 ELSE @]
  /\ Return
  /\ UNCHANGED <<paramVars, refcount, activityVars, range>>

(* node_init is skipped for a node that is already initialised.            *)
AttachSucceeds ==
  LET n == Top.node IN
  /\ Leaving("attach")
  /\ ctx' = [ctx EXCEPT ![n] = Top.owner]
  /\ state' = [state EXCEPT ![n] = IF @ = Uninitialized THEN StateAfterInit(n) ELSE @]
  /\ ctx_refcount' = [ctx_refcount EXCEPT ![n] = @ + 1]
  /\ Return
  /\ UNCHANGED <<paramVars, refcount, activityVars, range>>

(* Mutant: a node that failed to initialise keeps its context.             *)
AttachFails_KeepsCtx ==
  LET n == Top.node IN
  /\ Leaving("attach")
  /\ n \in InitMayFail
  /\ state[n] = Uninitialized
  /\ ctx' = [ctx EXCEPT ![n] = Top.owner]
  /\ visit_time' = [visit_time EXCEPT ![n] = Unset]
  /\ range' = [range EXCEPT ![n] = ZeroedRange]
  /\ Fail
  /\ UNCHANGED <<paramVars, refcount, ctx_refcount, state, is_active, last_update_time>>

(* A failing node_init leaves the node uninitialised and resets its        *)
(* private data; its children stay attached.                               *)
AttachFails ==
  LET n == Top.node IN
  /\ Leaving("attach")
  /\ n \in InitMayFail
  /\ state[n] = Uninitialized
  /\ ctx' = [ctx EXCEPT ![n] = NoCtx]
  /\ visit_time' = [visit_time EXCEPT ![n] = Unset]
  /\ range' = [range EXCEPT ![n] = ZeroedRange]
  /\ Fail
  /\ UNCHANGED <<paramVars, refcount, ctx_refcount, state, is_active, last_update_time>>

(***************************************************************************)
(* node_set_ctx(node, NULL, ctx): detach, the node before its children     *)
(***************************************************************************)
LastOwner(n) == ctx_refcount[n] = 1

(* Mutant: the last detach only releases the node.                         *)
Uninit_Releases(n) ==
  /\ state' = [state EXCEPT ![n] = Initialized]
  /\ ctx' = [ctx EXCEPT ![n] = NoCtx]
  /\ last_update_time' = [last_update_time EXCEPT ![n] = Unset]
  /\ UNCHANGED <<is_active, visit_time, range>>

(* node_uninit, through node_release for a node in the ready state.        *)
Uninit(n) ==
  /\ state' = [state EXCEPT ![n] = Uninitialized]
  /\ ctx' = [ctx EXCEPT ![n] = NoCtx]
  /\ visit_time' = [visit_time EXCEPT ![n] = Unset]
  /\ last_update_time' = [last_update_time EXCEPT ![n] = IF state[n] = Ready THEN Unset ELSE @]
  /\ range' = [range EXCEPT ![n] = ZeroedRange]
  /\ UNCHANGED is_active

DetachSkipsOther ==
  /\ Entering("detach")
  /\ state[Top.node] # Uninitialized
  /\ ctx[Top.node] # Top.owner
  /\ Return
  /\ UNCHANGED nodeVars

(* Mutant: a context also detaches the nodes of the others.                *)
DetachEnter_AnyOwner ==
  LET n == Top.node IN
  /\ Entering("detach")
  /\ state[n] # Uninitialized
  /\ ctx_refcount' = [ctx_refcount EXCEPT ![n] = @ - 1]
  /\ IF LastOwner(n) THEN Uninit(n)
                     ELSE UNCHANGED <<ctx, state, activityVars, range>>
  /\ IF ctx_refcount[n] >= 1 THEN Descend ELSE Abort
  /\ UNCHANGED <<paramVars, refcount>>

DetachEnter ==
  LET n == Top.node IN
  /\ Entering("detach")
  /\ state[n] # Uninitialized
  /\ ctx[n] = Top.owner
  /\ ctx_refcount' = [ctx_refcount EXCEPT ![n] = @ - 1]
  /\ IF LastOwner(n) THEN Uninit(n)
                     ELSE UNCHANGED <<ctx, state, activityVars, range>>
  /\ IF ctx_refcount[n] >= 1 THEN Descend ELSE Abort
  /\ UNCHANGED <<paramVars, refcount>>

DetachEnterUninit ==
  /\ Entering("detach")
  /\ state[Top.node] = Uninitialized
  /\ Descend
  /\ UNCHANGED nodeVars

DetachChild == Running("detach") /\ CallChild(DetachCall(NextChild, Top.owner))

DetachLeave == Leaving("detach") /\ Return /\ UNCHANGED nodeVars

(***************************************************************************)
(* ngl_node_unrefp: the last reference frees the node, which drops its     *)
(* references on its children                                              *)
(***************************************************************************)
UnrefEnter ==
  LET n == Top.node IN
  /\ Entering("unref")
  /\ refcount' = [refcount EXCEPT ![n] = @ - 1]
  /\ IF refcount[n] # 1 THEN Return
     ELSE IF ctx[n] # NoCtx THEN Abort
     ELSE Descend
  /\ UNCHANGED <<paramVars, lifeVars, activityVars, range>>

UnrefChild == Running("unref") /\ CallChild(UnrefCall(NextChild))

UnrefLeave ==
  /\ Leaving("unref")
  /\ children' = [children EXCEPT ![Top.node] = <<>>]
  /\ Return
  /\ UNCHANGED <<enabled, refcount, lifeVars, activityVars, range>>

GraphStep ==
  \/ AttachEnter \/ AttachChild \/ AttachSucceeds \/ AttachFails
  \/ DetachSkipsOther \/ DetachEnter \/ DetachEnterUninit \/ DetachChild \/ DetachLeave
  \/ UnrefEnter \/ UnrefChild \/ UnrefLeave

=============================================================================
