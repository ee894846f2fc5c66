---------------------------- MODULE NodeLifecycle ----------------------------
(***************************************************************************)
(* What libnodegl/nodes.h (lines 418-453) promises the implementation of a *)
(* node class: the order in which its init, prefetch, release and uninit   *)
(* callbacks are called, each node on its own.  A node is bound to one     *)
(* context from its init to its uninit.                                    *)
(***************************************************************************)
CONSTANTS Node, Ctx, NoCtx

VARIABLES
  state,  \* "UNINITIALIZED", "INITIALIZED" or "READY"
  ctx     \* the context the node is bound to

vars == <<state, ctx>>

Init ==
  /\ state = [n \in Node |-> "UNINITIALIZED"]
  /\ ctx = [n \in Node |-> NoCtx]

(* A class without a prefetch callback is ready as soon as it is set up.   *)
NodeInit(n, c) ==
  /\ state[n] = "UNINITIALIZED"
  /\ \E s \in {"INITIALIZED", "READY"} : state' = [state EXCEPT ![n] = s]
  /\ ctx' = [ctx EXCEPT ![n] = c]

NodePrefetch(n) ==
  /\ state[n] = "INITIALIZED"
  /\ state' = [state EXCEPT ![n] = "READY"]
  /\ UNCHANGED ctx

NodeRelease(n) ==
  /\ state[n] = "READY"
  /\ state' = [state EXCEPT ![n] = "INITIALIZED"]
  /\ UNCHANGED ctx

NodeUninit(n) ==
  /\ state[n] # "UNINITIALIZED"
  /\ state' = [state EXCEPT ![n] = "UNINITIALIZED"]
  /\ ctx' = [ctx EXCEPT ![n] = NoCtx]

Next ==
  \E n \in Node :
    \/ \E c \in Ctx : NodeInit(n, c)
    \/ NodePrefetch(n)
    \/ NodeRelease(n)
    \/ NodeUninit(n)

Spec == Init /\ [][Next]_vars

=============================================================================
