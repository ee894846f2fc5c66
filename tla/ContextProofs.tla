---------------------------- MODULE ContextProofs ----------------------------
(***************************************************************************)
(* Theorems about the contexts and their nodes, for every graph, every     *)
(* number of contexts and every set of times.                              *)
(***************************************************************************)
EXTENDS ContextProperties, SequenceTheorems, FiniteSetTheorems, TLAPS
INSTANCE DataTheorems WITH Vertex <- Node, CallFrame <- Frame

(* The calls of NodeGraph are what the facts about trails are stated for.   *)
LEMMA FramesTyped == FramesAreTyped
  BY DEF FramesAreTyped, Frame

(***************************************************************************)
(* The ranges of a filter                                                  *)
(***************************************************************************)

(* RangeAt finds no range or one that exists, from the given one on.       *)
LEMMA RangeAtType ==
  ASSUME NEW n \in Node, NEW first \in Nat \ {0}, NEW t \in Int
  PROVE  RangeAt(n, first, t) \in {0} \union (first .. Len(Ranges[n]))
<1> DEFINE started == {i \in first .. Len(Ranges[n]) :
                         \A j \in first .. i : Ranges[n][j].start <= t}
<1>1. Len(Ranges[n]) \in Nat
  BY ActivityAssumption
<1>2. CASE started = {}
  BY <1>2 DEF RangeAt
<1>3. CASE started # {}
  <2>1. started \in SUBSET (first .. Len(Ranges[n]))
    OBVIOUS
  <2>2. first \in Int /\ Len(Ranges[n]) \in Int
    BY <1>1
  <2> HIDE DEF started
  <2>3. \E i \in started : \A j \in started : j <= i
    BY <1>3, <2>1, <2>2, GreatestExists
  <2> QED
    BY <1>3, <2>1, <2>3 DEF RangeAt, started
<1> QED
  BY <1>2, <1>3

(***************************************************************************)
(* The inductive invariant                                                 *)
(***************************************************************************)

(* The arguments of the command in progress, by the point it has reached.  *)
CommandOK ==
  /\ pc # "idle" => cmd.ctx \in Ctx
  /\ pc \in {"conf_attached", "scene_unref", "free_unref", "draw_honor", "draw_draw"}
       => scene[cmd.ctx] \in Node
  /\ pc = "scene_attached" => cmd.node \in Node

(* The attachments in progress are all for the context of the command, and *)
(* those that have looked at their node found it free or theirs.           *)
CallsOK ==
  \A f \in Calls(stack) :
    /\ f.fn \in {"attach", "detach"} => f.owner \in Ctx
    /\ f.fn = "attach" => f.owner = cmd.ctx
    /\ f.fn = "attach" /\ f.next > 0 => ctx[f.node] \in {NoCtx, f.owner}

Invariant == TypeOK /\ CommandOK /\ CallsOK /\ OwnerCounted

LEMMA CallType ==
  ASSUME NEW n \in Node, NEW c \in Ctx \union {NoCtx},
         NEW active \in BOOLEAN, NEW t \in Time \union {Unset}
  PROVE  /\ AttachCall(n, c) \in Frame /\ AttachCall(n, c).fn = "attach"
         /\ AttachCall(n, c).owner = c /\ AttachCall(n, c).next = 0
         /\ DetachCall(n, c) \in Frame /\ DetachCall(n, c).fn = "detach"
         /\ DetachCall(n, c).owner = c /\ DetachCall(n, c).next = 0
         /\ UnrefCall(n) \in Frame /\ UnrefCall(n).fn = "unref" /\ UnrefCall(n).next = 0
         /\ VisitCall(n, active, t) \in Frame /\ VisitCall(n, active, t).fn = "visit"
         /\ VisitCall(n, active, t).next = 0
         /\ UpdateCall(n, t) \in Frame /\ UpdateCall(n, t).fn = "update"
         /\ UpdateCall(n, t).next = 0
         /\ DrawCall(n) \in Frame /\ DrawCall(n).fn = "draw" /\ DrawCall(n).next = 0
  BY DEF AttachCall, DetachCall, UnrefCall, VisitCall, UpdateCall, DrawCall, Call, Frame, Walk

LEMMA ZeroedRangeType == ZeroedRange \in RangeData
  BY DEF ZeroedRange, RangeData

(* The parameters that refer to a node are as many as a number says.       *)
LEMMA ReferencesAreFinite ==
  ASSUME NEW g \in [Node -> Seq(Node)], NEW n
  PROVE  IsFiniteSet(References(g, n))
<1> DEFINE f == [p \in Node |-> {<<p, i>> : i \in {j \in DOMAIN g[p] : g[p][j] = n}}]
           F == {f[p] : p \in Node}
<1>1. IsFiniteSet(Node)
  BY ContextAssumption
<1>2. ASSUME NEW p \in Node
      PROVE  IsFiniteSet(f[p])
  <2> DEFINE D == DOMAIN g[p]
             h == [i \in D |-> <<p, i>>]
             H == {h[i] : i \in D}
  <2>1. D = 1 .. Len(g[p]) /\ 1 \in Int /\ Len(g[p]) \in Int
    OBVIOUS
  <2>2. IsFiniteSet(D)
    BY <2>1, FS_Interval
  <2>3. f[p] \subseteq H
    OBVIOUS
  <2>4. IsFiniteSet(H)
    <3> HIDE DEF D, h
    <3> QED
      BY <2>2, ImageIsFinite
  <2> QED
    BY <2>3, <2>4, FS_Subset
<1>3. References(g, n) = UNION F
  BY DEF References
<1> HIDE DEF f
<1>4. IsFiniteSet(F)
  BY <1>1, ImageIsFinite
<1>5. \A T \in F : IsFiniteSet(T)
  BY <1>2
<1> HIDE DEF F
<1> QED
  BY <1>3, <1>4, <1>5, FS_UNION

LEMMA InitEstablishes == Init => Invariant
<1> SUFFICES ASSUME Init PROVE Invariant
  OBVIOUS
<1> USE DEF Init
<1>1. refcount \in [Node -> Int]
  <2>1. \A n \in Node : IsFiniteSet(References(InitChildren, n))
    BY ContextAssumption, ReferencesAreFinite
  <2>2. \A n \in Node : Cardinality(References(InitChildren, n)) \in Nat
    BY <2>1, FS_CardinalityType
  <2> QED
    BY <2>2
<1>2. TypeOK
  <2>1. ZeroedRange \in RangeData
    BY ZeroedRangeType
  <2>2. NoCmd \in CmdData
    BY DEF NoCmd, CmdData
  <2>3. stack \in Seq(Frame) /\ activity \in [Ctx -> Seq(Node)]
    OBVIOUS
  <2>4. /\ children \in [Node -> Seq(Node)]
        /\ state \in [Node -> State]
        /\ range \in [Node -> RangeData]
    BY <2>1, ContextAssumption DEF State, Uninitialized
  <2>5. /\ ctx \in [Node -> Ctx \union {NoCtx}]
        /\ ctx_refcount \in [Node -> Int]
        /\ is_active \in [Node -> BOOLEAN]
        /\ visit_time \in [Node -> Time \union {Unset}]
        /\ last_update_time \in [Node -> Time \union {Unset}]
        /\ enabled \in [Node -> BOOLEAN]
    OBVIOUS
  <2>6. /\ alive \subseteq Ctx
        /\ configured \subseteq Ctx
        /\ backend \subseteq Ctx
        /\ scene \in [Ctx -> Node \union {NoNode}]
        /\ held \subseteq Node
    OBVIOUS
  <2> QED
    BY <1>1, <2>2, <2>3, <2>4, <2>5, <2>6 DEF TypeOK
<1>3. CommandOK /\ CallsOK /\ OwnerCounted
  BY DEF CommandOK, CallsOK, OwnerCounted, Calls
<1> QED
  BY <1>2, <1>3 DEF Invariant

(* The running call of a walk, its node and its next child.                *)
LEMMA RunningCall ==
  ASSUME TypeOK, stack # <<>>
  PROVE  /\ Top \in Frame /\ Top \in Calls(stack)
         /\ Top.node \in Node /\ Top.next \in Nat /\ Top.fn \in Walk
         /\ Top.owner \in Ctx \union {NoCtx}
         /\ Top.active \in BOOLEAN /\ Top.queue \in BOOLEAN
         /\ Top.t \in Time \union {Unset}
         /\ Len(children[Top.node]) \in Nat
         /\ Top.next \in 1 .. Len(children[Top.node]) => NextChild \in Node
<1>1. stack \in Seq(Frame) /\ children \in [Node -> Seq(Node)]
  BY DEF TypeOK
<1>2. Top \in Frame /\ Top \in Calls(stack)
  BY <1>1, StackTop DEF Top
<1>3. children[Top.node] \in Seq(Node)
  BY <1>1, <1>2 DEF Frame
<1> QED
  BY <1>2, <1>3, ElementOfSeq DEF Frame, NextChild

(* A walk that returns, fails, aborts or goes on with its children keeps   *)
(* the calls in order, if it leaves the contexts of the nodes alone.       *)
LEMMA StackStep ==
  ASSUME TypeOK, CallsOK, stack # <<>>, UNCHANGED <<ctx, cmd>>,
         \/ Return \/ Fail \/ Abort
         \/ (Descend \/ SkipChildren) /\ (Top.fn = "attach" => ctx[Top.node] \in {NoCtx, Top.owner})
  PROVE  stack' \in Seq(Frame) /\ status' \in {"ok", "error"} /\ aborted' \in BOOLEAN /\ CallsOK'
<1>1. /\ stack \in Seq(Frame) /\ Top \in Frame /\ Top \in Calls(stack)
      /\ Tail(stack) \in Seq(Frame) /\ Calls(Tail(stack)) \subseteq Calls(stack)
      /\ Len(children[Top.node]) \in Nat
      /\ status \in {"ok", "error"} /\ aborted \in BOOLEAN
  BY StackTop, RunningCall DEF TypeOK, Top
<1>2. CASE Return
  BY <1>1, <1>2 DEF Return, CallsOK
<1>3. CASE Fail
  BY <1>1, <1>3 DEF Fail, CallsOK, Calls
<1>4. CASE Abort
  BY <1>1, <1>4 DEF Abort, CallsOK
<1>5. ASSUME NEW k \in Nat, Top.fn = "attach" => ctx[Top.node] \in {NoCtx, Top.owner},
             stack' = <<[Top EXCEPT !.next = k]>> \o Tail(stack)
      PROVE  stack' \in Seq(Frame) /\ CallsOK'
  <2> DEFINE f == [Top EXCEPT !.next = k]
  <2>1. f \in Frame /\ f.fn = Top.fn /\ f.owner = Top.owner /\ f.node = Top.node
    BY <1>1 DEF Frame
  <2> HIDE DEF f
  <2>2. stack' \in Seq(Frame) /\ Calls(stack') \subseteq {f} \union Calls(stack)
    BY <1>1, <1>5, <2>1, StackOperations DEF Top, f
  <2> QED
    BY <1>1, <1>5, <2>1, <2>2 DEF CallsOK
<1>6. CASE Descend /\ (Top.fn = "attach" => ctx[Top.node] \in {NoCtx, Top.owner})
  BY <1>1, <1>5, <1>6 DEF Descend
<1>7. CASE SkipChildren /\ (Top.fn = "attach" => ctx[Top.node] \in {NoCtx, Top.owner})
  <2> DEFINE k == Len(children[Top.node]) + 1
  <2>1. k \in Nat
    BY <1>1
  <2>2. stack' = <<[Top EXCEPT !.next = k]>> \o Tail(stack)
    BY <1>7 DEF SkipChildren
  <2> HIDE DEF k
  <2> QED
    BY <1>1, <1>5, <1>7, <2>1, <2>2 DEF SkipChildren
<1> QED
  BY <1>2, <1>3, <1>4, <1>6, <1>7

(* A call to a child keeps them in order too.                              *)
LEMMA ChildStep ==
  ASSUME TypeOK, CallsOK, stack # <<>>, UNCHANGED <<ctx, cmd>>,
         NEW call \in Frame, CallChild(call), call.fn = Top.fn, call.next = 0,
         call.fn \in {"attach", "detach"} => call.owner = Top.owner,
         Top.next > 0
  PROVE  stack' \in Seq(Frame) /\ CallsOK'
<1> DEFINE f == [Top EXCEPT !.next = @ + 1]
<1>1. /\ stack \in Seq(Frame) /\ Top \in Frame /\ Top \in Calls(stack)
  BY StackTop, RunningCall DEF TypeOK, Top
<1>2. f \in Frame /\ f.fn = Top.fn /\ f.owner = Top.owner /\ f.node = Top.node /\ f.next > 0
  BY <1>1 DEF Frame
<1>3. stack' = <<call, f>> \o Tail(stack)
  BY DEF CallChild
<1> HIDE DEF f
<1>4. stack' \in Seq(Frame) /\ Calls(stack') \subseteq {call, f} \union Calls(stack)
  BY <1>1, <1>2, <1>3, StackOperations
<1> QED
  BY <1>1, <1>2, <1>4 DEF CallsOK

(* The steps of attach, detach and unref keep the invariant.               *)
LEMMA GraphWalkPreserves == Invariant /\ GraphWalk => Invariant'
<1> SUFFICES ASSUME Invariant, GraphWalk
             PROVE  Invariant'
  OBVIOUS
<1> USE DEF Invariant
<1> DEFINE n == Top.node
<1>1. /\ stack # <<>>
      /\ UNCHANGED <<activity, alive, configured, backend, scene, held, pc, cmd>>
  BY DEF GraphWalk, GraphStep, ctxVars, AttachEnter, AttachChild, AttachSucceeds, AttachFails,
     DetachSkipsOther, DetachEnter, DetachEnterUninit, DetachChild, DetachLeave,
     UnrefEnter, UnrefChild, UnrefLeave, Entering, Leaving, Running
<1>2. CommandOK'
  BY <1>1 DEF CommandOK
<1>3. /\ n \in Node /\ Top \in Frame /\ Top \in Calls(stack) /\ Len(children[n]) \in Nat
      /\ Top.owner \in Ctx \union {NoCtx}
      /\ Top.fn \in {"attach", "detach"} => Top.owner \in Ctx
      /\ NoCtx \notin Ctx
  BY <1>1, RunningCall, NodeAssumption DEF CallsOK
(* Steps that only move on the stack.                                      *)
<1>4. ASSUME UNCHANGED nodeVars, stack' \in Seq(Frame), CallsOK',
             status' \in {"ok", "error"}, aborted' \in BOOLEAN
      PROVE  Invariant'
  BY <1>1, <1>2, <1>4
  DEF TypeOK, OwnerCounted, nodeVars, paramVars, lifeVars, activityVars
<1>5. CASE AttachEnter
  <2>1. ctx[n] # NoCtx => OwnedByAnother(n, Top.owner) \/ ctx[n] = Top.owner
    BY DEF OwnedByAnother
  <2>2. \/ Fail
        \/ Descend /\ ctx[n] \in {NoCtx, Top.owner}
    BY <1>5, <2>1 DEF AttachEnter
  <2>3. UNCHANGED nodeVars /\ UNCHANGED ctx
    BY <1>5 DEF AttachEnter, nodeVars, lifeVars
  <2> QED
    BY <1>1, <1>4, <2>2, <2>3, StackStep
<1>6. CASE AttachChild
  <2> DEFINE call == AttachCall(NextChild, Top.owner)
  <2>1. /\ CallChild(call) /\ Top.fn = "attach" /\ Top.next \in 1 .. Len(children[n])
        /\ UNCHANGED nodeVars /\ UNCHANGED ctx
    BY <1>6 DEF AttachChild, Running, CallChild, nodeVars, lifeVars
  <2>2. call \in Frame /\ call.fn = "attach" /\ call.next = 0 /\ call.owner = Top.owner
    BY <1>1, <1>3, <2>1, RunningCall, CallType
  <2>3. stack' \in Seq(Frame) /\ CallsOK'
    BY <1>1, <2>1, <2>2, ChildStep
  <2> QED
    BY <1>4, <2>1, <2>3 DEF CallChild, TypeOK
<1>7. CASE AttachSucceeds
  <2> USE <1>7 DEF AttachSucceeds
  <2>1. Top.fn = "attach" /\ Top.owner \in Ctx
    BY <1>3 DEF Leaving, Running
  <2>2. stack' \in Seq(Frame) /\ Calls(stack') \subseteq Calls(stack) /\ UNCHANGED <<status, aborted>>
    BY <1>1, StackTop DEF Return, TypeOK
  <2>3. /\ ctx' \in [Node -> Ctx \union {NoCtx}]
        /\ ctx_refcount' \in [Node -> Int]
        /\ state' \in [Node -> State]
    BY <1>3, <2>1 DEF TypeOK, StateAfterInit, State, Initialized, Ready
  <2>4. TypeOK'
    BY <1>1, <2>2, <2>3 DEF TypeOK, paramVars, activityVars
  <2>5. CallsOK'
    BY <1>1, <1>3, <2>1, <2>2 DEF CallsOK, TypeOK
  <2>6. OwnerCounted'
    BY <1>3, <2>1, <2>3
    DEF OwnerCounted, TypeOK, StateAfterInit, Initialized, Ready, Uninitialized, State
  <2> QED
    BY <1>2, <2>4, <2>5, <2>6
<1>8. CASE AttachFails
  <2> USE <1>8 DEF AttachFails
  <2>1. stack' = <<>> /\ status' = "error" /\ UNCHANGED aborted
    BY DEF Fail
  <2>2. /\ ctx' \in [Node -> Ctx \union {NoCtx}]
        /\ visit_time' \in [Node -> Time \union {Unset}]
        /\ range' \in [Node -> RangeData]
    BY <1>3, ZeroedRangeType DEF TypeOK
  <2>3. TypeOK'
    BY <1>1, <2>1, <2>2 DEF TypeOK, paramVars
  <2>4. CallsOK'
    BY <2>1 DEF CallsOK, Calls
  <2>5. OwnerCounted'
    BY <1>3, <2>2 DEF OwnerCounted, TypeOK
  <2> QED
    BY <1>2, <2>3, <2>4, <2>5
<1>9. CASE DetachSkipsOther
  <2>1. Return /\ UNCHANGED nodeVars /\ UNCHANGED ctx
    BY <1>9 DEF DetachSkipsOther, nodeVars, lifeVars
  <2> QED
    BY <1>1, <1>4, <2>1, StackStep
<1>10. CASE DetachEnter
  <2> USE <1>10 DEF DetachEnter
  <2>1. Top.fn = "detach" /\ ctx[n] \in Ctx /\ ctx_refcount[n] \in Int /\ ctx_refcount[n] >= 1
    BY <1>3 DEF Entering, Running, OwnerCounted, TypeOK
  <2>2. Descend
    BY <2>1
  <2>3. /\ ctx' \in [Node -> Ctx \union {NoCtx}]
        /\ ctx_refcount' \in [Node -> Int]
        /\ state' \in [Node -> State]
        /\ visit_time' \in [Node -> Time \union {Unset}]
        /\ last_update_time' \in [Node -> Time \union {Unset}]
        /\ range' \in [Node -> RangeData]
        /\ UNCHANGED is_active
    <3>1. ctx_refcount' \in [Node -> Int]
      BY <1>3, <2>1 DEF TypeOK
    <3>2. CASE LastOwner(n)
      <4>1. Uninit(n)
        BY <3>2
      <4>2. ctx' \in [Node -> Ctx \union {NoCtx}] /\ UNCHANGED is_active
        BY <1>3, <4>1 DEF TypeOK, Uninit
      <4>3. state' \in [Node -> State]
        BY <1>3, <4>1 DEF TypeOK, Uninit, State, Uninitialized
      <4>4. visit_time' \in [Node -> Time \union {Unset}]
        BY <1>3, <4>1 DEF TypeOK, Uninit
      <4>5. last_update_time' \in [Node -> Time \union {Unset}]
        BY <1>3, <4>1 DEF TypeOK, Uninit
      <4>6. range' \in [Node -> RangeData]
        BY <1>3, <4>1, ZeroedRangeType DEF TypeOK, Uninit
      <4> QED
        BY <3>1, <4>2, <4>3, <4>4, <4>5, <4>6
    <3>3. CASE ~LastOwner(n)
      BY <3>1, <3>3 DEF TypeOK, activityVars
    <3> QED
      BY <3>2, <3>3
  <2> DEFINE f == [Top EXCEPT !.next = 1]
  <2>4. f \in Frame /\ f.fn = "detach" /\ f.owner = Top.owner
    BY <1>3, <2>1 DEF Frame
  <2> HIDE DEF f
  <2>5. /\ stack' \in Seq(Frame) /\ Calls(stack') \subseteq {f} \union Calls(stack)
        /\ UNCHANGED <<status, aborted>>
    BY <1>1, <2>2, <2>4, StackOperations DEF Descend, TypeOK, f
  <2>6. TypeOK'
    BY <1>1, <2>3, <2>5 DEF TypeOK, paramVars
  <2>7. \A m \in Node : ctx'[m] \in {ctx[m], NoCtx}
    BY <1>3, <2>3 DEF Uninit, TypeOK
  <2>8. CallsOK'
    <3>1. ASSUME NEW g \in Calls(stack)
          PROVE  g.node \in Node
      <4>1. Calls(stack) \subseteq Frame
        BY DEF TypeOK, Calls
      <4> QED
        BY <4>1 DEF Frame
    <3>2. ASSUME NEW g \in Calls(stack), g.fn = "attach", g.next > 0
          PROVE  ctx'[g.node] \in {NoCtx, g.owner}
      BY <2>7, <3>1, <3>2 DEF CallsOK
    <3> QED
      BY <1>1, <1>3, <2>1, <2>4, <2>5, <3>2 DEF CallsOK
  <2>9. OwnerCounted'
    <3>1. CASE LastOwner(n)
      BY <1>3, <2>1, <2>3, <3>1 DEF OwnerCounted, TypeOK, LastOwner, Uninit
    <3>2. CASE ~LastOwner(n)
      BY <1>3, <2>1, <2>3, <3>2 DEF OwnerCounted, TypeOK, LastOwner
    <3> QED
      BY <3>1, <3>2
  <2> QED
    BY <1>2, <2>6, <2>8, <2>9
<1>11. CASE DetachEnterUninit
  <2>1. Descend /\ Top.fn = "detach" /\ UNCHANGED nodeVars /\ UNCHANGED ctx
    BY <1>11 DEF DetachEnterUninit, Entering, Running, nodeVars, lifeVars
  <2> QED
    BY <1>1, <1>4, <2>1, StackStep
<1>12. CASE DetachChild
  <2> DEFINE call == DetachCall(NextChild, Top.owner)
  <2>1. /\ CallChild(call) /\ Top.fn = "detach" /\ Top.next \in 1 .. Len(children[n])
        /\ UNCHANGED nodeVars /\ UNCHANGED ctx
    BY <1>12 DEF DetachChild, Running, CallChild, nodeVars, lifeVars
  <2>2. call \in Frame /\ call.fn = "detach" /\ call.next = 0 /\ call.owner = Top.owner
    BY <1>1, <1>3, <2>1, RunningCall, CallType
  <2>3. stack' \in Seq(Frame) /\ CallsOK'
    BY <1>1, <2>1, <2>2, ChildStep
  <2> QED
    BY <1>4, <2>1, <2>3 DEF CallChild, TypeOK
<1>13. CASE DetachLeave
  <2>1. Return /\ UNCHANGED nodeVars /\ UNCHANGED ctx
    BY <1>13 DEF DetachLeave, nodeVars, lifeVars
  <2> QED
    BY <1>1, <1>4, <2>1, StackStep
<1>14. CASE UnrefEnter
  <2> USE <1>14 DEF UnrefEnter
  <2>1. Top.fn = "unref" /\ (Return \/ Abort \/ Descend) /\ UNCHANGED ctx
    BY DEF Entering, Running, lifeVars
  <2>2. stack' \in Seq(Frame) /\ status' \in {"ok", "error"} /\ aborted' \in BOOLEAN /\ CallsOK'
    BY <1>1, <2>1, StackStep
  <2>3. refcount' \in [Node -> Int]
    BY <1>3 DEF TypeOK
  <2> QED
    BY <1>1, <1>2, <2>2, <2>3 DEF TypeOK, OwnerCounted, paramVars, lifeVars, activityVars
<1>15. CASE UnrefChild
  <2> DEFINE call == UnrefCall(NextChild)
  <2>1. /\ CallChild(call) /\ Top.fn = "unref" /\ Top.next \in 1 .. Len(children[n])
        /\ UNCHANGED nodeVars /\ UNCHANGED ctx
    BY <1>15 DEF UnrefChild, Running, CallChild, nodeVars, lifeVars
  <2>2. call \in Frame /\ call.fn = "unref" /\ call.next = 0
    BY <1>1, <1>3, <2>1, RunningCall, CallType
  <2>3. stack' \in Seq(Frame) /\ CallsOK'
    BY <1>1, <2>1, <2>2, ChildStep
  <2> QED
    BY <1>4, <2>1, <2>3 DEF CallChild, TypeOK
<1>16. CASE UnrefLeave
  <2>1. Return /\ UNCHANGED ctx
    BY <1>16 DEF UnrefLeave, lifeVars
  <2>2. stack' \in Seq(Frame) /\ status' \in {"ok", "error"} /\ aborted' \in BOOLEAN /\ CallsOK'
    BY <1>1, <2>1, StackStep
  <2>3. children' \in [Node -> Seq(Node)]
    BY <1>3, <1>16, EmptySeq DEF UnrefLeave, TypeOK
  <2> QED
    BY <1>1, <1>2, <1>16, <2>2, <2>3 DEF UnrefLeave, TypeOK, OwnerCounted, lifeVars, activityVars
<1> QED
  BY <1>5, <1>6, <1>7, <1>8, <1>9, <1>10, <1>11, <1>12, <1>13, <1>14, <1>15, <1>16
  DEF GraphWalk, GraphStep

(* The range a filter is in exists, if it is in any.                       *)
LEMMA CurrentRangeType ==
  ASSUME TypeOK, NEW n \in Node, NEW t \in Time \union {Unset}
  PROVE  CurrentRange(n, t) \in {0} \union (1 .. Len(Ranges[n]))
<1>1. t \in Int /\ Len(Ranges[n]) \in Nat
  BY NodeAssumption, ActivityAssumption DEF Unset
<1>2. range[n].current \in Nat \ {0}
  BY DEF TypeOK, RangeData
<1>3. /\ RangeAt(n, range[n].current, t) \in {0} \union (range[n].current .. Len(Ranges[n]))
      /\ RangeAt(n, 1, t) \in {0} \union (1 .. Len(Ranges[n]))
  BY <1>1, <1>2, RangeAtType
<1> QED
  BY <1>1, <1>2, <1>3 DEF CurrentRange

(* What a filter keeps of its ranges stays well-formed, at any time.       *)
LEMMA RangeTypes ==
  ASSUME TypeOK, NEW n \in Node, NEW t \in Time \union {Unset}, NEW active \in BOOLEAN
  PROVE  VisitedRange(n, active, t) \in RangeData /\ UpdatedRange(n, t) \in RangeData
<1>1. t \in Int /\ Len(Ranges[n]) \in Nat
  BY NodeAssumption, ActivityAssumption DEF Unset
<1>2. range[n] \in RangeData /\ range[n].current \in Nat \ {0}
  BY DEF TypeOK, RangeData
<1>3. CurrentRange(n, t) \in Nat
  BY <1>1, CurrentRangeType
<1>4. MovedRange(n, t) \in RangeData
  BY <1>2, <1>3 DEF MovedRange, RangeData
<1>5. VisitedRange(n, active, t) \in RangeData
  BY <1>2, <1>4 DEF VisitedRange, RangeData
<1>6. UpdatedRange(n, t) \in RangeData
  <2> DEFINE moved == MovedRange(n, t)
             id == CurrentRange(n, t)
  <2>1. [moved EXCEPT !.drawme = FALSE] \in RangeData
    BY <1>4 DEF RangeData
  <2>2. [moved EXCEPT !.drawme = TRUE] \in RangeData
    BY <1>4 DEF RangeData
  <2>3. [moved EXCEPT !.drawme = id \notin moved.updated, !.updated = @ \union {id}] \in RangeData
    BY <1>3, <1>4 DEF RangeData
  <2> HIDE DEF moved, id
  <2> QED
    BY <1>2, <2>1, <2>2, <2>3 DEF UpdatedRange, moved, id
<1> QED
  BY <1>5, <1>6

(* The time a filter updates its child for is one of a frame, or of one of *)
(* its ranges.                                                             *)
LEMMA ChildTimeType ==
  ASSUME TypeOK, NEW n \in Node, NEW t \in Time \union {Unset}
  PROVE  ChildTime(n, t) \in Time \union {Unset}
<1> DEFINE id == CurrentRange(n, t)
<1>1. CASE IsFilter(n) /\ Mode(n, t) = "once"
  <2>1. range[n].current \in Nat \ {0} /\ t \in Int
    BY NodeAssumption DEF TypeOK, RangeData, Unset
  <2>2. id \in {0} \union (1 .. Len(Ranges[n]))
    BY <2>1, CurrentRangeType
  <2>3. id # 0
    BY <1>1 DEF Mode
  <2>4. Ranges[n] \in Seq([mode : {"cont", "noop", "once"}, start : Int, render : Time])
    BY ActivityAssumption
  <2> HIDE DEF id
  <2>5. Ranges[n][id] \in [mode : {"cont", "noop", "once"}, start : Int, render : Time]
    BY <2>2, <2>3, <2>4, ElementOfSeq
  <2>6. Ranges[n][id].render \in Time
    BY <2>5
  <2> QED
    BY <1>1, <2>6 DEF ChildTime, id
<1>2. CASE ~(IsFilter(n) /\ Mode(n, t) = "once")
  BY <1>2 DEF ChildTime
<1> QED
  BY <1>1, <1>2

(* The steps of visit, update and draw keep the invariant: they never      *)
(* change which context a node belongs to.                                 *)
LEMMA ActivityWalkPreserves == Invariant /\ ActivityWalk => Invariant'
<1> SUFFICES ASSUME Invariant, ActivityWalk
             PROVE  Invariant'
  OBVIOUS
<1> USE DEF Invariant
<1> DEFINE n == Top.node
<1>1. /\ stack # <<>> /\ Top.fn \in {"visit", "update", "draw"}
      /\ UNCHANGED <<paramVars, refcount, lifeVars>>
      /\ UNCHANGED <<ctx, ctx_refcount, state, children, enabled>>
      /\ UNCHANGED <<alive, configured, backend, scene, held, pc, cmd>>
  BY DEF ActivityWalk, ActivityStep, VisitSkips, VisitEnter, VisitChild, VisitLeave,
     UpdateSkips, UpdateEnter, UpdateChild, UpdateLeave, UpdateFails, DrawEnter, DrawChild,
     DrawLeave, Entering, Leaving, Running, CallChild, ctxVars, nodeVars, paramVars, lifeVars
<1>2. CommandOK' /\ OwnerCounted'
  BY <1>1 DEF CommandOK, OwnerCounted
<1>3. /\ n \in Node /\ Top \in Frame /\ Top.t \in Time \union {Unset}
      /\ Top.active \in BOOLEAN /\ Len(children[n]) \in Nat
      /\ Top.next \in 1 .. Len(children[n]) => NextChild \in Node
  BY <1>1, RunningCall
(* It remains to type what a step changes and to look at the calls.        *)
<1>4. ASSUME /\ is_active' \in [Node -> BOOLEAN]
             /\ visit_time' \in [Node -> Time \union {Unset}]
             /\ last_update_time' \in [Node -> Time \union {Unset}]
             /\ range' \in [Node -> RangeData]
             /\ activity' \in [Ctx -> Seq(Node)]
             /\ stack' \in Seq(Frame) /\ status' \in {"ok", "error"} /\ aborted' \in BOOLEAN
             /\ CallsOK'
      PROVE  Invariant'
  BY <1>1, <1>2, <1>4 DEF TypeOK
<1>5. ASSUME UNCHANGED <<nodeVars, activity>>, stack' \in Seq(Frame), CallsOK',
             status' \in {"ok", "error"}, aborted' \in BOOLEAN
      PROVE  Invariant'
  BY <1>4, <1>5 DEF TypeOK, nodeVars, activityVars
<1>6. ASSUME Return \/ Fail \/ Abort \/ Descend \/ SkipChildren
      PROVE  stack' \in Seq(Frame) /\ status' \in {"ok", "error"} /\ aborted' \in BOOLEAN /\ CallsOK'
  BY <1>1, <1>6, StackStep
<1>7. ASSUME NEW call \in Frame, CallChild(call), call.fn = Top.fn, call.next = 0,
             UNCHANGED activity
      PROVE  Invariant'
  <2>1. /\ Top.next > 0 /\ UNCHANGED nodeVars /\ UNCHANGED <<status, aborted>>
    BY <1>3, <1>7 DEF CallChild
  <2>2. stack' \in Seq(Frame) /\ CallsOK'
    BY <1>1, <1>7, <2>1, ChildStep
  <2> QED
    BY <1>5, <1>7, <2>1, <2>2 DEF TypeOK
<1>8. CASE VisitSkips
  BY <1>5, <1>6, <1>8 DEF VisitSkips
<1>9. CASE VisitEnter
  <2> DEFINE f == [Top EXCEPT !.next = 1, !.queue = ToQueue(n, Top.t),
                              !.active = ChildActive(n, @, Top.t)]
  <2>1. ChildActive(n, Top.active, Top.t) \in BOOLEAN /\ ToQueue(n, Top.t) \in BOOLEAN
    BY <1>3 DEF ChildActive, ToQueue, TypeOK
  <2>2. f \in Frame /\ f.fn = Top.fn
    BY <1>3, <2>1 DEF Frame
  <2>3. stack' = <<f>> \o Tail(stack) /\ UNCHANGED <<status, aborted, activity, last_update_time>>
    BY <1>9 DEF VisitEnter
  <2> HIDE DEF f
  <2>4. stack' \in Seq(Frame) /\ Calls(stack') \subseteq {f} \union Calls(stack)
    BY <1>1, <2>2, <2>3, StackOperations DEF TypeOK
  <2>5. CallsOK'
    BY <1>1, <2>2, <2>4 DEF CallsOK
  <2>6. is_active' \in [Node -> BOOLEAN]
    BY <1>3, <1>9 DEF VisitEnter, TypeOK
  <2>7. visit_time' \in [Node -> Time \union {Unset}]
    BY <1>3, <1>9 DEF VisitEnter, TypeOK
  <2>8. range' \in [Node -> RangeData]
    <3>1. VisitedRange(n, Top.active, Top.t) \in RangeData
      BY <1>3, RangeTypes
    <3> QED
      BY <1>3, <1>9, <3>1 DEF VisitEnter, TypeOK
  <2> QED
    BY <1>4, <2>3, <2>4, <2>5, <2>6, <2>7, <2>8 DEF TypeOK
<1>10. CASE VisitChild
  <2>1. CallChild(VisitCall(NextChild, Top.active, Top.t)) /\ Top.fn = "visit" /\ UNCHANGED activity
    BY <1>10 DEF VisitChild, Running
  <2> DEFINE call == VisitCall(NextChild, Top.active, Top.t)
  <2>2. NextChild \in Node
    BY <1>3, <2>1 DEF CallChild
  <2>3. call \in Frame /\ call.fn = "visit" /\ call.next = 0
    BY <1>3, <2>2 DEF VisitCall, Call, Frame, Walk
  <2> HIDE DEF call
  <2>4. CallChild(call)
    BY <2>1 DEF call
  <2> QED
    BY <1>7, <2>1, <2>3, <2>4
<1>11. CASE VisitLeave
  <2>1. Return /\ UNCHANGED nodeVars
    BY <1>11 DEF VisitLeave
  <2>2. activity' \in [Ctx -> Seq(Node)]
    <3>1. \A q \in Seq(Node) : Append(q, n) \in Seq(Node)
      BY <1>3
    <3> QED
      BY <1>11, <3>1 DEF VisitLeave, TypeOK
  <2> QED
    BY <1>4, <1>6, <2>1, <2>2 DEF TypeOK, nodeVars, activityVars
<1>12. CASE UpdateSkips
  BY <1>5, <1>6, <1>12 DEF UpdateSkips
<1>13. CASE UpdateEnter
  <2>1. Abort \/ Descend \/ SkipChildren
    BY <1>13 DEF UpdateEnter
  <2>2. UpdatedRange(n, Top.t) \in RangeData
    BY <1>3, RangeTypes
  <2>3. range' \in [Node -> RangeData]
    BY <1>3, <1>13, <2>2 DEF UpdateEnter, TypeOK
  <2> QED
    BY <1>4, <1>6, <1>13, <2>1, <2>3 DEF UpdateEnter, TypeOK, activityVars
<1>14. CASE UpdateChild
  <2> DEFINE t == ChildTime(n, Top.t)
  <2>1. CallChild(UpdateCall(NextChild, t)) /\ Top.fn = "update" /\ UNCHANGED activity
    BY <1>14 DEF UpdateChild, Running
  <2>2. NextChild \in Node
    BY <1>3, <2>1 DEF CallChild
  <2>3. t \in Time \union {Unset}
    BY <1>3, ChildTimeType
  <2> HIDE DEF t
  <2>4. UpdateCall(NextChild, t) \in Frame /\ UpdateCall(NextChild, t).fn = "update"
        /\ UpdateCall(NextChild, t).next = 0
    BY <2>2, <2>3 DEF UpdateCall, Call, Frame, Walk
  <2> QED
    BY <1>7, <2>1, <2>4
<1>15. CASE UpdateLeave
  <2>1. last_update_time' \in [Node -> Time \union {Unset}]
    BY <1>3, <1>15 DEF UpdateLeave, TypeOK
  <2> QED
    BY <1>4, <1>6, <1>15, <2>1 DEF UpdateLeave, TypeOK
<1>16. CASE UpdateFails
  BY <1>5, <1>6, <1>16 DEF UpdateFails
<1>17. CASE DrawEnter
  BY <1>5, <1>6, <1>17 DEF DrawEnter
<1>18. CASE DrawChild
  <2>1. CallChild(DrawCall(NextChild)) /\ Top.fn = "draw" /\ UNCHANGED activity
    BY <1>18 DEF DrawChild, Running
  <2>2. NextChild \in Node
    BY <1>3, <2>1 DEF CallChild
  <2>3. DrawCall(NextChild) \in Frame /\ DrawCall(NextChild).fn = "draw" /\ DrawCall(NextChild).next = 0
    BY <2>2 DEF DrawCall, Call, Frame, Walk
  <2> QED
    BY <1>7, <2>1, <2>3
<1>19. CASE DrawLeave
  BY <1>5, <1>6, <1>19 DEF DrawLeave
<1> QED
  BY <1>8, <1>9, <1>10, <1>11, <1>12, <1>13, <1>14, <1>15, <1>16, <1>17, <1>18, <1>19
  DEF ActivityWalk, ActivityStep

(* A step taken while no call is in progress starts one call or none.      *)
LEMMA FirstCall ==
  ASSUME stack = <<>>, NEW call \in Frame, call.next = 0,
         call.fn \in {"attach", "detach"} => call.owner \in Ctx,
         call.fn = "attach" => call.owner = cmd'.ctx,
         stack' = <<call>> \/ stack' = stack
  PROVE  stack' \in Seq(Frame) /\ CallsOK'
<1>1. CASE stack' = <<call>>
  <2>1. stack' \in Seq(Frame) /\ Calls(stack') = {call}
    BY <1>1 DEF Calls
  <2> QED
    BY <2>1 DEF CallsOK
<1>2. CASE stack' = stack
  <2>1. stack' \in Seq(Frame) /\ Calls(stack') = {}
    BY <1>2 DEF Calls
  <2> QED
    BY <2>1 DEF CallsOK
<1> QED
  BY <1>1, <1>2

LEMMA NoCmdType == NoCmd \in CmdData /\ NoCmd.ctx = NoCtx
  BY DEF NoCmd, CmdData

(* The steps of the client keep the invariant.                             *)
LEMMA ClientPreserves == Invariant /\ Client => Invariant'
<1> SUFFICES ASSUME Invariant, Client
             PROVE  Invariant'
  OBVIOUS
<1> USE DEF Invariant
<1>1. /\ Idle /\ stack = <<>> /\ pc = "idle"
      /\ UNCHANGED <<ctx, ctx_refcount, state, is_active, visit_time, last_update_time, range>>
      /\ UNCHANGED <<aborted, backend, scene>>
  BY DEF Client, Create, Configure, SetScene, Draw, Free, NodeUnref, AddChild, Toggle, Idle,
     Begin, nodesUnchanged, nodeVars, lifeVars, activityVars, ctxVars, callVars
<1>2. OwnerCounted'
  BY <1>1 DEF OwnerCounted
(* The client sends nothing: no call and no command.                       *)
<1>3. ASSUME UNCHANGED <<stack, status, pc, cmd, activity, configured, held>>,
             children' \in [Node -> Seq(Node)], refcount' \in [Node -> Int],
             enabled' \in [Node -> BOOLEAN], alive' \subseteq Ctx
      PROVE  Invariant'
  BY <1>1, <1>2, <1>3 DEF TypeOK, CommandOK, CallsOK
(* The client sends a command, which starts a walk or not.                 *)
<1> DEFINE Sent ==
      /\ UNCHANGED <<children, refcount, enabled, alive>> /\ status' = "ok"
      /\ cmd' \in CmdData /\ activity' \in [Ctx -> Seq(Node)]
      /\ configured' \subseteq Ctx /\ held' \subseteq Node
      /\ pc' \in {"idle", "conf_backend", "scene_unref", "scene_attach", "draw_honor",
                  "free_unref", "free_stop"}
      /\ pc' # "idle" => cmd'.ctx \in Ctx
      /\ pc' \in {"scene_unref", "free_unref", "draw_honor"} => scene[cmd'.ctx] \in Node
<1>4. ASSUME Sent, stack' \in Seq(Frame), CallsOK'
      PROVE  Invariant'
  <2>1. CommandOK'
    BY <1>1, <1>4 DEF CommandOK
  <2>2. TypeOK'
    BY <1>1, <1>4 DEF TypeOK
  <2> QED
    BY <1>2, <1>4, <2>1, <2>2
<1>5. ASSUME NEW call \in Frame, Sent, stack' = <<call>>, call.next = 0, call.fn # "attach",
             call.fn = "detach" => call.owner \in Ctx
      PROVE  Invariant'
  <2> HIDE DEF Sent
  <2>1. stack' \in Seq(Frame) /\ CallsOK'
    BY <1>1, <1>5, FirstCall
  <2> QED
    BY <1>4, <1>5, <2>1
<1>6. ASSUME Sent, stack' = stack
      PROVE  Invariant'
  <2> HIDE DEF Sent
  <2>1. stack' \in Seq(Frame) /\ CallsOK'
    BY <1>1, <1>6 DEF CallsOK, Calls, TypeOK
  <2> QED
    BY <1>4, <1>6, <2>1
<1> HIDE DEF Sent
<1>7. ASSUME NEW c \in Ctx, Create(c)
      PROVE  Invariant'
  BY <1>3, <1>7 DEF Create, callVars, nodeVars, paramVars, TypeOK
<1>8. ASSUME NEW c \in Ctx, Configure(c)
      PROVE  Invariant'
  <2> USE <1>8 DEF Configure
  <2>1. Sent
    BY <1>1, <1>8 DEF Sent, Begin, Start, nodesUnchanged, nodeVars, paramVars, Cmd, CmdData, TypeOK
  <2>2. CASE scene[c] # NoNode
    <3>1. scene[c] \in Node /\ stack' = <<DetachCall(scene[c], c)>>
      BY <2>2 DEF TypeOK, Start
    <3>2. /\ DetachCall(scene[c], c) \in Frame /\ DetachCall(scene[c], c).next = 0
          /\ DetachCall(scene[c], c).fn = "detach" /\ DetachCall(scene[c], c).owner = c
      BY <3>1 DEF DetachCall, Call, Frame, Walk
    <3> QED
      BY <1>5, <2>1, <3>1, <3>2
  <2>3. CASE scene[c] = NoNode
    BY <1>6, <2>1, <2>3
  <2> QED
    BY <2>2, <2>3
<1>9. ASSUME NEW c \in Ctx, NEW m \in Node \union {NoNode}, SetScene(c, m)
      PROVE  Invariant'
  <2> USE <1>9 DEF SetScene
  <2>1. Sent
    BY <1>1, <1>9 DEF Sent, Begin, Start, nodesUnchanged, nodeVars, paramVars, ctxVars, Cmd,
                      CmdData, TypeOK
  <2>2. CASE scene[c] # NoNode
    <3>1. scene[c] \in Node /\ stack' = <<DetachCall(scene[c], c)>>
      BY <2>2 DEF TypeOK, Start
    <3>2. /\ DetachCall(scene[c], c) \in Frame /\ DetachCall(scene[c], c).next = 0
          /\ DetachCall(scene[c], c).fn = "detach" /\ DetachCall(scene[c], c).owner = c
      BY <3>1 DEF DetachCall, Call, Frame, Walk
    <3> QED
      BY <1>5, <2>1, <3>1, <3>2
  <2>3. CASE scene[c] = NoNode
    BY <1>6, <2>1, <2>3
  <2> QED
    BY <2>2, <2>3
<1>10. ASSUME NEW c \in Ctx, NEW t \in Time, NEW op \in {"draw", "prepare_draw"}, Draw(op, c, t)
       PROVE  Invariant'
  <2> USE <1>10 DEF Draw
  <2>1. Sent
    BY <1>1, <1>10 DEF Sent, Begin, Start, nodesUnchanged, nodeVars, paramVars, ctxVars, Cmd,
                       CmdData, TypeOK
  <2>2. scene[c] \in Node /\ stack' = <<VisitCall(scene[c], TRUE, t)>>
    BY DEF TypeOK, Start
  <2>3. VisitCall(scene[c], TRUE, t) \in Frame /\ VisitCall(scene[c], TRUE, t).next = 0
        /\ VisitCall(scene[c], TRUE, t).fn = "visit"
    BY <2>2 DEF VisitCall, Call, Frame, Walk
  <2> QED
    BY <1>5, <2>1, <2>2, <2>3
<1>11. ASSUME NEW c \in Ctx, Free(c)
       PROVE  Invariant'
  <2> USE <1>11 DEF Free
  <2>1. Sent
    BY <1>1, <1>11 DEF Sent, Begin, Start, nodesUnchanged, nodeVars, paramVars, ctxVars, Cmd,
                       CmdData, TypeOK
  <2>2. CASE c \in configured /\ scene[c] # NoNode
    <3>1. scene[c] \in Node /\ stack' = <<DetachCall(scene[c], c)>>
      BY <2>2 DEF TypeOK, Start
    <3>2. /\ DetachCall(scene[c], c) \in Frame /\ DetachCall(scene[c], c).next = 0
          /\ DetachCall(scene[c], c).fn = "detach" /\ DetachCall(scene[c], c).owner = c
      BY <3>1 DEF DetachCall, Call, Frame, Walk
    <3> QED
      BY <1>5, <2>1, <3>1, <3>2
  <2>3. CASE ~(c \in configured /\ scene[c] # NoNode)
    BY <1>6, <2>1, <2>3
  <2> QED
    BY <2>2, <2>3
<1>12. ASSUME NEW m \in Node, NodeUnref(m)
       PROVE  Invariant'
  <2> USE <1>12 DEF NodeUnref
  <2>1. Sent
    BY <1>1, <1>12, NoCmdType DEF Sent, Begin, Start, nodeVars, paramVars, ctxVars, TypeOK
  <2>2. stack' = <<UnrefCall(m)>>
    BY DEF Start
  <2>3. UnrefCall(m) \in Frame /\ UnrefCall(m).next = 0 /\ UnrefCall(m).fn = "unref"
    BY DEF UnrefCall, Call, Frame, Walk
  <2> QED
    BY <1>5, <2>1, <2>2, <2>3
<1>13. ASSUME NEW m \in Node, NEW child \in Node, AddChild(m, child)
       PROVE  Invariant'
  <2>1. Append(children[m], child) \in Seq(Node)
    BY DEF TypeOK
  <2>2. children' \in [Node -> Seq(Node)] /\ refcount' \in [Node -> Int]
    BY <1>13, <2>1 DEF AddChild, TypeOK
  <2> QED
    BY <1>3, <1>13, <2>2 DEF AddChild, callVars, ctxVars, TypeOK
<1>14. ASSUME NEW m \in Node, Toggle(m)
       PROVE  Invariant'
  <2>1. enabled' \in [Node -> BOOLEAN]
    BY <1>14 DEF Toggle, TypeOK
  <2> QED
    BY <1>3, <1>14, <2>1 DEF Toggle, callVars, ctxVars, TypeOK
<1> QED
  BY <1>7, <1>8, <1>9, <1>10, <1>11, <1>12, <1>13, <1>14 DEF Client

(* The steps of a command between its walks keep the invariant.            *)
LEMMA CommandPreserves == Invariant /\ Command => Invariant'
<1> SUFFICES ASSUME Invariant, Command
             PROVE  Invariant'
  OBVIOUS
<1> USE DEF Invariant
<1> DEFINE c == cmd.ctx
<1>1. /\ stack = <<>> /\ pc # "idle" /\ At(pc)
      /\ UNCHANGED <<children, enabled, ctx, ctx_refcount, is_active, range, held, aborted>>
  BY DEF Command, BackendConfigured, BackendFails, SceneReattached, UnrefScene, AttachScene,
     SceneAttached, SceneRefused, HonorNext, UpdateScene, DrawScene, FreeContext, At, HonorNode,
     HonorFails, NodePrefetch, NodePrefetchFails, NodeRelease, Fail, nodesUnchanged, nodeVars,
     paramVars, lifeVars, activityVars, callVars
<1>2. c \in Ctx
  BY <1>1 DEF CommandOK
(* What the steps change besides the calls and the command.                *)
<1> DEFINE Data ==
      /\ OwnerCounted'
      /\ refcount' \in [Node -> Int] /\ state' \in [Node -> State]
      /\ visit_time' \in [Node -> Time \union {Unset}]
      /\ last_update_time' \in [Node -> Time \union {Unset}]
      /\ activity' \in [Ctx -> Seq(Node)]
      /\ alive' \subseteq Ctx /\ configured' \subseteq Ctx /\ backend' \subseteq Ctx
      /\ scene' \in [Ctx -> Node \union {NoNode}]
      /\ status' \in {"ok", "error"}
<1> DEFINE Proceeds ==
      \/ pc' = "idle" /\ cmd' = NoCmd
      \/ /\ UNCHANGED cmd
         /\ pc' \in {"conf_attached", "scene_attach", "scene_attached", "draw_honor", "draw_draw",
                     "free_stop"}
         /\ pc' \in {"conf_attached", "draw_honor", "draw_draw"} => scene'[c] \in Node
         /\ pc' = "scene_attached" => cmd.node \in Node
<1>3. ASSUME Data, Proceeds, stack' \in Seq(Frame), CallsOK'
      PROVE  Invariant'
  <2>1. cmd' \in CmdData
    BY <1>3, NoCmdType DEF TypeOK
  <2>2. TypeOK'
    BY <1>1, <1>3, <2>1 DEF TypeOK
  <2>3. CommandOK'
    BY <1>2, <1>3 DEF CommandOK
  <2> QED
    BY <1>3, <2>2, <2>3
<1>4. ASSUME NEW call \in Frame, Data, Proceeds, stack' = <<call>>, call.next = 0,
             call.fn \in {"attach", "detach"} => call.owner \in Ctx,
             call.fn = "attach" => call.owner = cmd'.ctx
      PROVE  Invariant'
  <2> HIDE DEF Data, Proceeds
  <2>1. stack' \in Seq(Frame) /\ CallsOK'
    BY <1>1, <1>4, FirstCall
  <2> QED
    BY <1>3, <1>4, <2>1
<1>5. ASSUME Data, Proceeds, stack' = stack
      PROVE  Invariant'
  <2> HIDE DEF Data, Proceeds
  <2>1. stack' \in Seq(Frame) /\ CallsOK'
    BY <1>1, <1>5 DEF CallsOK, Calls, TypeOK
  <2> QED
    BY <1>3, <1>5, <2>1
(* The steps that leave the nodes alone.                                   *)
<1>6. ASSUME nodesUnchanged, activity' \in [Ctx -> Seq(Node)],
             alive' \subseteq Ctx, configured' \subseteq Ctx, backend' \subseteq Ctx,
             scene' \in [Ctx -> Node \union {NoNode}], status' \in {"ok", "error"}
      PROVE  Data
  BY <1>6 DEF TypeOK, OwnerCounted, nodesUnchanged, nodeVars, lifeVars, activityVars
<1> HIDE DEF Data, Proceeds
<1>7. CASE BackendConfigured
  <2> USE <1>7 DEF BackendConfigured
  <2>1. Data
    BY <1>2, <1>6, <1>7 DEF TypeOK, Finish
  <2>2. CASE scene[c] # NoNode
    <3>1. scene[c] \in Node /\ stack' = <<AttachCall(scene[c], c)>> /\ UNCHANGED cmd
          /\ Proceeds
      BY <1>2, <2>2 DEF TypeOK, Start, Proceeds
    <3>2. /\ AttachCall(scene[c], c) \in Frame /\ AttachCall(scene[c], c).next = 0
          /\ AttachCall(scene[c], c).fn = "attach" /\ AttachCall(scene[c], c).owner = c
      BY <1>2, <3>1 DEF AttachCall, Call, Frame, Walk
    <3> QED
      BY <1>2, <1>4, <2>1, <3>1, <3>2
  <2>3. CASE scene[c] = NoNode
    <3>1. Proceeds /\ stack' = stack
      BY <2>3 DEF Proceeds, Finish
    <3> QED
      BY <1>5, <2>1, <3>1
  <2> QED
    BY <2>2, <2>3
<1>8. CASE BackendFails
  <2>1. Data
    BY <1>6, <1>8 DEF BackendFails, TypeOK
  <2>2. Proceeds /\ stack' = stack
    BY <1>8 DEF BackendFails, Proceeds, Finish
  <2> QED
    BY <1>5, <2>1, <2>2
<1>9. CASE SceneReattached
  <2> USE <1>9 DEF SceneReattached
  <2>1. pc = "conf_attached" /\ scene[c] \in Node
    BY DEF At, CommandOK
  <2>2. Data
    BY <1>2, <1>6, <1>9 DEF TypeOK
  <2>3. Proceeds
    BY DEF Proceeds, Finish
  <2>4. stack' = <<UnrefCall(scene[c])>> \/ stack' = stack
    OBVIOUS
  <2>5. UnrefCall(scene[c]) \in Frame /\ UnrefCall(scene[c]).next = 0
        /\ UnrefCall(scene[c]).fn = "unref"
    BY <1>2, <2>1 DEF UnrefCall, Call, Frame, Walk
  <2> QED
    BY <1>4, <1>5, <2>2, <2>3, <2>4, <2>5
<1>10. CASE UnrefScene
  <2> USE <1>10 DEF UnrefScene
  <2>1. scene[c] \in Node
    BY DEF CommandOK
  <2>2. Data
    BY <1>2, <1>6, <1>10 DEF TypeOK
  <2>3. Proceeds /\ stack' = <<UnrefCall(scene[c])>>
    BY DEF Proceeds, Start
  <2>4. UnrefCall(scene[c]) \in Frame /\ UnrefCall(scene[c]).next = 0
        /\ UnrefCall(scene[c]).fn = "unref"
    BY <1>2, <2>1 DEF UnrefCall, Call, Frame, Walk
  <2> QED
    BY <1>4, <2>2, <2>3, <2>4
<1>11. CASE AttachScene
  <2> USE <1>11 DEF AttachScene
  <2>1. Data
    BY <1>6, <1>11 DEF TypeOK, ctxVars
  <2>2. CASE cmd.node # NoNode
    <3>1. cmd.node \in Node /\ stack' = <<AttachCall(cmd.node, c)>> /\ UNCHANGED cmd /\ Proceeds
      BY <2>2 DEF TypeOK, CmdData, Start, Proceeds
    <3>2. /\ AttachCall(cmd.node, c) \in Frame /\ AttachCall(cmd.node, c).next = 0
          /\ AttachCall(cmd.node, c).fn = "attach" /\ AttachCall(cmd.node, c).owner = c
      BY <1>2, <3>1 DEF AttachCall, Call, Frame, Walk
    <3> QED
      BY <1>2, <1>4, <2>1, <3>1, <3>2
  <2>3. CASE cmd.node = NoNode
    <3>1. Proceeds /\ stack' = stack
      BY <2>3 DEF Proceeds, Finish
    <3> QED
      BY <1>5, <2>1, <3>1
  <2> QED
    BY <2>2, <2>3
<1>12. CASE SceneAttached
  <2> USE <1>12 DEF SceneAttached
  <2>1. cmd.node \in Node
    BY DEF At, CommandOK
  <2>2. refcount' \in [Node -> Int]
    BY <2>1 DEF TypeOK
  <2>3. scene' \in [Ctx -> Node \union {NoNode}]
    BY <1>2, <2>1 DEF TypeOK
  <2>4. Data
    BY <2>2, <2>3 DEF Data, TypeOK, OwnerCounted, lifeVars, activityVars, callVars
  <2>5. Proceeds /\ stack' = stack
    BY DEF Proceeds, Finish, callVars
  <2> QED
    BY <1>5, <2>4, <2>5
<1>13. CASE SceneRefused
  <2> USE <1>13 DEF SceneRefused
  <2>1. cmd.node \in Node
    BY DEF At, CommandOK
  <2>2. Data
    BY <1>6, <1>13 DEF TypeOK, ctxVars
  <2>3. Proceeds /\ stack' = <<DetachCall(cmd.node, c)>>
    BY DEF Proceeds, Finish
  <2>4. /\ DetachCall(cmd.node, c) \in Frame /\ DetachCall(cmd.node, c).next = 0
        /\ DetachCall(cmd.node, c).fn = "detach" /\ DetachCall(cmd.node, c).owner = c
    BY <1>2, <2>1 DEF DetachCall, Call, Frame, Walk
  <2> QED
    BY <1>2, <1>4, <2>2, <2>3, <2>4
<1>14. CASE HonorNext
  <2> DEFINE m == Head(activity[c])
  <2>1. /\ m \in Node /\ Tail(activity[c]) \in Seq(Node) /\ scene[c] \in Node
        /\ UNCHANGED <<alive, configured, backend, scene>> /\ pc = "draw_honor"
    BY <1>2, <1>14 DEF HonorNext, At, CommandOK, TypeOK, ctxVars
  <2>2. /\ activity' \in [Ctx -> Seq(Node)]
        /\ Proceeds
    BY <1>14, <2>1 DEF HonorNext, Finish, Proceeds, TypeOK
  <2>3. HonorNode(m) \/ HonorFails(m)
    BY <1>14 DEF HonorNext
  <2> HIDE DEF m
  <2>4. CASE HonorNode(m) /\ is_active[m]
    <3>1. /\ state' = [state EXCEPT ![m] = Ready] /\ stack' = stack
          /\ UNCHANGED <<refcount, status, ctx, ctx_refcount, visit_time, last_update_time>>
      BY <2>4 DEF HonorNode, NodePrefetch, activityVars, callVars
    <3>2. Data
      BY <2>1, <2>2, <3>1 DEF Data, TypeOK, OwnerCounted, State, Ready, Uninitialized
    <3> QED
      BY <1>5, <2>2, <3>1, <3>2
  <2>5. CASE HonorNode(m) /\ ~is_active[m]
    <3>1. /\ state' = [state EXCEPT ![m] = IF @ = Ready THEN Initialized ELSE @] /\ stack' = stack
          /\ last_update_time' = [last_update_time EXCEPT ![m] = IF state[m] = Ready THEN Unset ELSE @]
          /\ UNCHANGED <<refcount, status, ctx, ctx_refcount, visit_time>>
      BY <2>5 DEF HonorNode, NodeRelease, callVars
    <3>2. last_update_time' \in [Node -> Time \union {Unset}]
      BY <2>1, <3>1 DEF TypeOK
    <3>3. state' \in [Node -> State]
      BY <2>1, <3>1 DEF TypeOK, State, Initialized
    <3>4. OwnerCounted'
      BY <2>1, <3>1 DEF TypeOK, OwnerCounted, State, Initialized, Uninitialized
    <3>5. Data
      BY <2>1, <2>2, <3>1, <3>2, <3>3, <3>4 DEF Data, TypeOK
    <3> QED
      BY <1>5, <2>2, <3>1, <3>5
  <2>6. CASE HonorFails(m)
    <3>1. /\ visit_time' = [visit_time EXCEPT ![m] = Unset] /\ stack' = stack /\ status' = "error"
          /\ UNCHANGED <<refcount, state, ctx, ctx_refcount, last_update_time>>
      BY <1>1, <2>6 DEF HonorFails, NodePrefetchFails, Fail, lifeVars
    <3>2. visit_time' \in [Node -> Time \union {Unset}]
      BY <2>1, <3>1 DEF TypeOK
    <3>3. Data
      BY <2>1, <2>2, <3>1, <3>2 DEF Data, TypeOK, OwnerCounted
    <3> QED
      BY <1>5, <2>2, <3>1, <3>3
  <2> QED
    BY <2>3, <2>4, <2>5, <2>6
<1>15. CASE UpdateScene
  <2> USE <1>15 DEF UpdateScene
  <2>1. scene[c] \in Node /\ cmd.t \in Time \union {Unset}
    BY DEF At, CommandOK, TypeOK, CmdData
  <2>2. Data
    BY <1>6, <1>15 DEF TypeOK, ctxVars
  <2>3. Proceeds /\ stack' = <<UpdateCall(scene[c], cmd.t)>>
    BY <2>1 DEF Proceeds, Start, ctxVars
  <2>4. UpdateCall(scene[c], cmd.t) \in Frame /\ UpdateCall(scene[c], cmd.t).next = 0
        /\ UpdateCall(scene[c], cmd.t).fn = "update"
    BY <2>1 DEF UpdateCall, Call, Frame, Walk
  <2> QED
    BY <1>4, <2>2, <2>3, <2>4
<1>16. CASE DrawScene
  <2> USE <1>16 DEF DrawScene
  <2>1. scene[c] \in Node
    BY DEF At, CommandOK
  <2>2. Data
    BY <1>6, <1>16 DEF TypeOK, ctxVars
  <2>3. Proceeds
    BY DEF Proceeds, Finish
  <2>4. stack' = <<DrawCall(scene[c])>> \/ stack' = stack
    OBVIOUS
  <2>5. DrawCall(scene[c]) \in Frame /\ DrawCall(scene[c]).next = 0 /\ DrawCall(scene[c]).fn = "draw"
    BY <2>1 DEF DrawCall, Call, Frame, Walk
  <2> QED
    BY <1>4, <1>5, <2>2, <2>3, <2>4, <2>5
<1>17. CASE FreeContext
  <2>1. Data
    BY <1>2, <1>6, <1>17 DEF FreeContext, TypeOK, callVars
  <2>2. Proceeds /\ stack' = stack
    BY <1>17 DEF FreeContext, Proceeds, Finish, callVars
  <2> QED
    BY <1>5, <2>1, <2>2
<1> QED
  BY <1>7, <1>8, <1>9, <1>10, <1>11, <1>12, <1>13, <1>14, <1>15, <1>16, <1>17 DEF Command

(***************************************************************************)
(* The theorems                                                            *)
(***************************************************************************)

LEMMA NextPreserves == Invariant /\ [Next]_vars => Invariant'
<1>1. Invariant /\ Next => Invariant'
  BY ClientPreserves, CommandPreserves, GraphWalkPreserves, ActivityWalkPreserves DEF Next
<1>2. Invariant /\ UNCHANGED vars => Invariant'
  BY DEF Invariant, TypeOK, CommandOK, CallsOK, OwnerCounted, vars, nodeVars, paramVars, lifeVars,
         activityVars, callVars, ctxVars
<1> QED
  BY <1>1, <1>2

LEMMA InvariantHolds == Spec => []Invariant
  BY InitEstablishes, NextPreserves, PTL DEF Spec

(* TypeCorrect: on every graph, the nodes, the calls in progress and the   *)
(* contexts keep their types: in particular a walk reaches nothing but     *)
(* nodes, and is never asked to attach a node to no context (nodes.c).     *)
THEOREM TypeCorrect == Spec => []TypeOK
<1>1. Invariant => TypeOK
  BY DEF Invariant
<1> QED
  BY <1>1, InvariantHolds, PTL

(* OwnershipIsCounted: the ctx_refcount of a node never becomes negative,  *)
(* and is zero exactly while the node has no context; a node that has one  *)
(* is initialised.  So the asserts of node_set_ctx, node_release and       *)
(* node_uninit (nodes.c:179-229, 350-393) never fail, on any graph, with   *)
(* any number of contexts and wherever a walk fails.                       *)
THEOREM OwnershipIsCounted == Spec => []OwnerCounted
<1>1. Invariant => OwnerCounted
  BY DEF Invariant
<1> QED
  BY <1>1, InvariantHolds, PTL

(* The contexts of the nodes change in three steps of the walks only.      *)
LEMMA OwnerStep ==
  ASSUME Invariant, Next, NEW m \in Node
  PROVE  ctx'[m] \in {ctx[m], NoCtx} \/ ctx[m] = NoCtx
<1> USE DEF Invariant
<1>1. \/ UNCHANGED ctx
      \/ GraphWalk /\ (AttachSucceeds \/ AttachFails \/ DetachEnter)
  <2>1. CASE Client
    BY <2>1 DEF Client, Create, Configure, SetScene, Draw, Free, NodeUnref, AddChild, Toggle,
       nodesUnchanged, nodeVars, lifeVars
  <2>2. CASE Command
    BY <2>2 DEF Command, BackendConfigured, BackendFails, SceneReattached, UnrefScene, AttachScene,
       SceneAttached, SceneRefused, HonorNext, UpdateScene, DrawScene, FreeContext, HonorNode,
       HonorFails, NodePrefetch, NodePrefetchFails, NodeRelease, nodesUnchanged, nodeVars, lifeVars
  <2>3. CASE GraphWalk
    BY <2>3 DEF GraphWalk, GraphStep, AttachEnter, AttachChild, DetachSkipsOther,
       DetachEnterUninit, DetachChild, DetachLeave, UnrefEnter, UnrefChild, UnrefLeave, CallChild,
       nodeVars, lifeVars
  <2>4. CASE ActivityWalk
    BY <2>4 DEF ActivityWalk, ActivityStep, VisitSkips, VisitEnter, VisitChild, VisitLeave,
       UpdateSkips, UpdateEnter, UpdateChild, UpdateLeave, UpdateFails, DrawEnter, DrawChild,
       DrawLeave, CallChild, nodeVars, lifeVars
  <2> QED
    BY <2>1, <2>2, <2>3, <2>4 DEF Next
<1>2. CASE UNCHANGED ctx
  BY <1>2
<1>3. CASE AttachSucceeds
  <2>1. stack # <<>> /\ Top.fn = "attach" /\ Top.next = Len(children[Top.node]) + 1
        /\ ctx' = [ctx EXCEPT ![Top.node] = Top.owner]
    BY <1>3 DEF AttachSucceeds, Leaving, Running
  <2>2. Top.node \in Node /\ Top \in Calls(stack) /\ Len(children[Top.node]) \in Nat
    BY <2>1, RunningCall
  <2>3. ctx[Top.node] \in {NoCtx, Top.owner}
    BY <2>1, <2>2 DEF CallsOK
  <2> QED
    BY <2>1, <2>2, <2>3 DEF TypeOK
<1>4. CASE AttachFails
  <2>1. ctx' = [ctx EXCEPT ![Top.node] = NoCtx]
    BY <1>4 DEF AttachFails
  <2> QED
    BY <2>1 DEF TypeOK
<1>5. CASE DetachEnter
  <2>1. ctx' = ctx \/ ctx' = [ctx EXCEPT ![Top.node] = NoCtx]
    BY <1>5 DEF DetachEnter, Uninit
  <2> QED
    BY <2>1 DEF TypeOK
<1> QED
  BY <1>1, <1>2, <1>3, <1>4, <1>5

(* NoNodeIsStolen: no step takes a node from a context and gives it to     *)
(* another one, on any graph and with any number of scenes that share      *)
(* nodes; the first context has to release it (nodes.c:350-393).           *)
THEOREM NoNodeIsStolen == Spec => SingleOwner
<1> DEFINE Kept == \A n \in Node : ctx'[n] \in {ctx[n], NoCtx} \/ ctx[n] = NoCtx
<1>1. Invariant /\ [Next]_vars => [Kept]_vars
  BY OwnerStep
<1> HIDE DEF Kept
<1>2. Spec => [][Kept]_vars
  BY <1>1, InvariantHolds, PTL DEF Spec
<1> QED
  BY <1>2, Zenon DEF SingleOwner, Kept

(***************************************************************************)
(* Where a command stands                                                  *)
(***************************************************************************)

(* The contexts that are configured have a backend, and the others have    *)
(* none, but the one that is being configured.  A command that attaches a  *)
(* scene has a backend to attach it to, and no scene yet.                  *)
Control ==
  /\ configured \subseteq backend
  /\ pc \in {"conf_backend", "conf_attached"} => cmd.ctx \notin configured
  /\ backend \ configured \subseteq
       IF pc \in {"conf_backend", "conf_attached"} THEN {cmd.ctx} ELSE {}
  /\ pc \in {"conf_attached", "scene_unref", "scene_attach", "scene_attached"} =>
       cmd.ctx \in backend
  /\ pc = "free_stop" => scene[cmd.ctx] = NoNode \/ cmd.ctx \notin backend
  /\ pc \in {"scene_attach", "scene_attached"} => scene[cmd.ctx] = NoNode
  /\ pc = "idle" => cmd = NoCmd

(* A client that configures each context once never attaches a scene in    *)
(* cmd_configure.                                                          *)
ConfiguredOnce ==
  ~MayReconfigure =>
    /\ pc # "conf_attached"
    /\ \A c \in Ctx : scene[c] # NoNode => c \in backend
    /\ pc = "conf_backend" => scene[cmd.ctx] = NoNode

(* All the calls on the stack are of one walk.                             *)
Alike(f, g) == f.fn = g.fn /\ (f.fn \in {"attach", "detach"} => f.owner = g.owner)
OneWalk(s) == \A f \in Calls(s) : Alike(f, Head(s))

(* A walk for the context c that started from the node n.                  *)
Stands(fn, c, n) ==
  /\ fn = "attach" => \/ pc = "conf_attached" /\ n = scene[cmd.ctx]
                      \/ pc = "scene_attached" /\ n = cmd.node
  /\ fn = "detach" => \/ pc \in {"conf_backend", "scene_unref", "free_unref"} /\ c = cmd.ctx
                      \/ pc = "idle" /\ scene[c] = NoNode
  /\ fn = "unref" => pc \in {"idle", "scene_attach", "free_stop"}

WalkStands == stack # <<>> => Stands(Top.fn, Top.owner, Bottom(stack).node)

(* The nodes that are being freed have no context.                         *)
FreedAreFree == \A f \in Calls(stack) : f.fn = "unref" /\ f.next > 0 => ctx[f.node] = NoCtx

Ordered == Control /\ ConfiguredOnce /\ OneWalk(stack) /\ WalkStands /\ FreedAreFree

(* What one step of a walk does with its calls.                            *)
Goes(s, u) ==
  \/ u = <<>> \/ u = s \/ u = Tail(s)
  \/ \E f \in Frame : Alike(f, Head(s)) /\ f.node = Head(s).node /\ u = <<f>> \o Tail(s)
  \/ \E e, f \in Frame : /\ Alike(f, Head(s)) /\ f.node = Head(s).node /\ Alike(e, Head(s))
                         /\ u = <<e, f>> \o Tail(s)

LEMMA BottomStays ==
  ASSUME NEW s \in Seq(Frame), s # <<>>, NEW u \in Seq(Frame), u # <<>>, Goes(s, u)
  PROVE  Bottom(u).node = Bottom(s).node
<1>1. Len(s) \in Nat \ {0} /\ Bottom(s) = FrameAt(s, 1) /\ Bottom(u) = FrameAt(u, 1)
      /\ Head(s) = FrameAt(s, Len(s))
  BY FramesTyped, FrameType
<1>2. CASE u = s
  BY <1>2
<1>3. CASE u = Tail(s)
  <2>1. Len(u) = Len(s) - 1 /\ Len(u) # 0
    BY <1>3, EmptySeq, HeadTailProperties
  <2>2. Len(s) > 1 /\ 1 \in 1 .. Len(s) - 1
    BY <1>1, <2>1
  <2>3. FrameAt(u, 1) = FrameAt(s, 1)
    BY <1>3, <2>2, FramesOfTail
  <2> QED
    BY <1>1, <2>3
<1>4. ASSUME NEW e \in Frame, NEW f \in Frame, f.node = Head(s).node,
             FrameAt(u, Len(s)) = f, \A j \in 1 .. Len(s) - 1 : FrameAt(u, j) = FrameAt(s, j)
      PROVE  Bottom(u).node = Bottom(s).node
  <2>2. CASE Len(s) = 1
    BY <1>1, <1>4, <2>2
  <2>3. CASE Len(s) # 1
    <3>1. 1 \in 1 .. Len(s) - 1
      <4>1. \A k \in Nat \ {0} : k # 1 => 1 \in 1 .. k - 1
        OBVIOUS
      <4> QED
        BY <1>1, <2>3, <4>1
    <3> QED
      BY <1>1, <1>4, <3>1
  <2> QED
    BY <2>2, <2>3
<1>5. ASSUME NEW f \in Frame, f.node = Head(s).node, u = <<f>> \o Tail(s)
      PROVE  Bottom(u).node = Bottom(s).node
  <2> HIDE DEF Bottom
  <2>1. FrameAt(<<f>> \o Tail(s), Len(s)) = f
        /\ \A j \in 1 .. Len(s) - 1 : FrameAt(<<f>> \o Tail(s), j) = FrameAt(s, j)
    BY <1>5, FramesOfPush
  <2> QED
    BY <1>4, <1>5, <2>1
<1>6. ASSUME NEW e \in Frame, NEW f \in Frame, f.node = Head(s).node, u = <<e, f>> \o Tail(s)
      PROVE  Bottom(u).node = Bottom(s).node
  <2>1. FrameAt(<<e, f>> \o Tail(s), Len(s)) = f
        /\ \A j \in 1 .. Len(s) - 1 : FrameAt(<<e, f>> \o Tail(s), j) = FrameAt(s, j)
    BY <1>6, FramesOfPush, ZenonT(60)
  <2> QED
    BY <1>4, <1>6, <2>1
<1> QED
  BY <1>2, <1>3, <1>5, <1>6 DEF Goes

LEMMA WalkGoesOn ==
  ASSUME NEW s \in Seq(Frame), s # <<>>, NEW u, Goes(s, u), OneWalk(s)
  PROVE  /\ u \in Seq(Frame) /\ OneWalk(u)
         /\ u # <<>> => Alike(Head(u), Head(s)) /\ Bottom(u).node = Bottom(s).node
<1>1. Head(s) \in Frame /\ Tail(s) \in Seq(Frame) /\ Calls(Tail(s)) \subseteq Calls(s)
  BY StackTop
<1>2. u \in Seq(Frame) /\ \A f \in Calls(u) : Alike(f, Head(s))
  <2>1. CASE u = <<>>
    BY <2>1 DEF Calls
  <2>2. CASE u = s \/ u = Tail(s)
    BY <1>1, <2>2 DEF OneWalk, Alike
  <2>3. ASSUME NEW e \in Frame, NEW f \in Frame, Alike(f, Head(s)),
               \/ u = <<f>> \o Tail(s)
               \/ u = <<e, f>> \o Tail(s) /\ Alike(e, Head(s))
        PROVE  u \in Seq(Frame) /\ \A g \in Calls(u) : Alike(g, Head(s))
    <3>1. CASE u = <<f>> \o Tail(s)
      <4>1. u \in Seq(Frame) /\ Calls(u) \subseteq {f} \union Calls(s)
        BY <3>1, StackOperations
      <4> QED
        BY <2>3, <4>1 DEF OneWalk, Alike
    <3>2. CASE u = <<e, f>> \o Tail(s) /\ Alike(e, Head(s))
      <4>1. u \in Seq(Frame) /\ Calls(u) \subseteq {e, f} \union Calls(s)
        BY <3>2, StackOperations
      <4> QED
        BY <2>3, <3>2, <4>1 DEF OneWalk, Alike
    <3> QED
      BY <2>3, <3>1, <3>2
  <2> QED
    BY <2>1, <2>2, <2>3 DEF Goes
<1>3. u # <<>> => Head(u) \in Calls(u)
  BY <1>2, StackTop
<1>4. u # <<>> => Alike(Head(u), Head(s)) /\ Bottom(u).node = Bottom(s).node
  BY <1>2, <1>3, BottomStays
<1>5. OneWalk(u)
  <2>1. Calls(<<>>) = {}
    BY DEF Calls
  <2> QED
    BY <1>2, <1>4, <2>1 DEF OneWalk, Alike
<1> QED
  BY <1>2, <1>4, <1>5

(* How the running call goes on.                                           *)
LEMMA WaysToGo ==
  ASSUME TypeOK, stack # <<>>
  PROVE  /\ Return \/ Fail \/ Abort \/ Descend \/ SkipChildren => Goes(stack, stack')
         /\ \A call \in Frame : CallChild(call) /\ Alike(call, Top) => Goes(stack, stack')
<1>1. Top \in Frame /\ Len(children[Top.node]) + 1 \in Nat /\ Top.next + 1 \in Nat
  BY RunningCall
<1>2. \A k \in Nat : [Top EXCEPT !.next = k] \in Frame /\ Alike([Top EXCEPT !.next = k], Top)
                     /\ [Top EXCEPT !.next = k].node = Top.node
  BY <1>1 DEF Frame, Alike
<1>3. \A k \in Nat : stack' = <<[Top EXCEPT !.next = k]>> \o Tail(stack) => Goes(stack, stack')
  BY <1>2 DEF Goes, Top
<1>4. Descend \/ SkipChildren => Goes(stack, stack')
  BY <1>1, <1>3 DEF Descend, SkipChildren
<1>5. Return \/ Fail \/ Abort => Goes(stack, stack')
  BY DEF Return, Fail, Abort, Goes
<1>6. ASSUME NEW call \in Frame, CallChild(call), Alike(call, Top)
      PROVE  Goes(stack, stack')
  <2> DEFINE f == [Top EXCEPT !.next = @ + 1]
  <2>1. f \in Frame /\ Alike(f, Top) /\ f.node = Top.node
    BY <1>1 DEF Frame, Alike
  <2>2. stack' = <<call, f>> \o Tail(stack)
    BY <1>6 DEF CallChild
  <2> HIDE DEF f
  <2> QED
    BY <1>6, <2>1, <2>2 DEF Goes, Top
<1> QED
  BY <1>4, <1>5, <1>6

LEMMA WalkGoes ==
  ASSUME TypeOK, GraphWalk \/ ActivityWalk
  PROVE  /\ stack # <<>> /\ Goes(stack, stack')
         /\ UNCHANGED <<alive, configured, backend, scene, held, pc, cmd>>
<1>1. /\ stack # <<>>
      /\ UNCHANGED <<alive, configured, backend, scene, held, pc, cmd>>
  BY DEF GraphWalk, GraphStep, ctxVars, AttachEnter, AttachChild, AttachSucceeds, AttachFails,
     DetachSkipsOther, DetachEnter, DetachEnterUninit, DetachChild, DetachLeave,
     UnrefEnter, UnrefChild, UnrefLeave, Entering, Leaving, Running, ActivityWalk, ActivityStep,
     VisitSkips, VisitEnter, VisitChild, VisitLeave, UpdateSkips, UpdateEnter, UpdateChild,
     UpdateLeave, UpdateFails, DrawEnter, DrawChild, DrawLeave
<1>2. /\ Top \in Frame
      /\ Top.next \in 1 .. Len(children[Top.node]) => NextChild \in Node
      /\ Top.node \in Node /\ Top.active \in BOOLEAN /\ Top.t \in Time \union {Unset}
  BY <1>1, RunningCall
<1>3. CASE Return \/ Fail \/ Abort \/ Descend \/ SkipChildren
  BY <1>1, <1>3, WaysToGo
<1>4. ASSUME NEW call \in Frame, CallChild(call), Alike(call, Top)
      PROVE  Goes(stack, stack')
  BY <1>1, <1>4, WaysToGo
<1>5. CASE GraphStep
  <2>1. CASE AttachEnter \/ AttachSucceeds \/ AttachFails \/ DetachSkipsOther \/ DetachEnter
             \/ DetachEnterUninit \/ DetachLeave \/ UnrefEnter \/ UnrefLeave
    BY <1>1, <1>3, <2>1 DEF AttachEnter, AttachSucceeds, AttachFails, DetachSkipsOther, DetachEnter,
       DetachEnterUninit, DetachLeave, UnrefEnter, UnrefLeave
  <2>2. CASE AttachChild
    <3> DEFINE call == AttachCall(NextChild, Top.owner)
    <3>1. CallChild(call) /\ Top.fn = "attach" /\ Top.next \in 1 .. Len(children[Top.node])
      BY <2>2 DEF AttachChild, Running, CallChild
    <3>2. call \in Frame /\ Alike(call, Top)
      BY <1>1, <1>2, <3>1, RunningCall, CallType DEF Alike
    <3> HIDE DEF call
    <3> QED
      BY <1>1, <1>4, <3>1, <3>2
  <2>3. CASE DetachChild
    <3> DEFINE call == DetachCall(NextChild, Top.owner)
    <3>1. CallChild(call) /\ Top.fn = "detach" /\ Top.next \in 1 .. Len(children[Top.node])
      BY <2>3 DEF DetachChild, Running, CallChild
    <3>2. call \in Frame /\ Alike(call, Top)
      BY <1>1, <1>2, <3>1, RunningCall, CallType, ZenonT(60) DEF Alike
    <3> HIDE DEF call
    <3> QED
      BY <1>1, <1>4, <3>1, <3>2
  <2>4. CASE UnrefChild
    <3> DEFINE call == UnrefCall(NextChild)
    <3>1. CallChild(call) /\ Top.fn = "unref" /\ Top.next \in 1 .. Len(children[Top.node])
      BY <2>4 DEF UnrefChild, Running, CallChild
    <3>2. call \in Frame /\ Alike(call, Top)
      BY <1>2, <3>1 DEF UnrefCall, Call, Frame, Walk, Alike
    <3> HIDE DEF call
    <3> QED
      BY <1>1, <1>4, <3>1, <3>2
  <2> QED
    BY <1>5, <2>1, <2>2, <2>3, <2>4 DEF GraphStep
<1>6. CASE ActivityStep
  <2>1. CASE VisitSkips \/ VisitLeave \/ UpdateSkips \/ UpdateEnter \/ UpdateLeave \/ UpdateFails
             \/ DrawEnter \/ DrawLeave
    BY <1>1, <1>3, <2>1 DEF VisitSkips, VisitLeave, UpdateSkips, UpdateEnter, UpdateLeave,
       UpdateFails, DrawEnter, DrawLeave
  <2>2. CASE VisitEnter
    <3> DEFINE f == [Top EXCEPT !.next = 1, !.queue = ToQueue(Top.node, Top.t),
                                !.active = ChildActive(Top.node, @, Top.t)]
    <3>1. stack' = <<f>> \o Tail(stack)
      BY <2>2 DEF VisitEnter
    <3>3. ChildActive(Top.node, Top.active, Top.t) \in BOOLEAN /\ ToQueue(Top.node, Top.t) \in BOOLEAN
      BY <1>2 DEF ChildActive, ToQueue, TypeOK
    <3>2. f \in Frame /\ Alike(f, Top) /\ f.node = Top.node
      BY <1>2, <3>3 DEF Frame, Alike
    <3> HIDE DEF f
    <3> QED
      BY <1>1, <3>1, <3>2 DEF Goes, Top
  <2>3. CASE VisitChild
    <3> DEFINE call == VisitCall(NextChild, Top.active, Top.t)
    <3>1. CallChild(call) /\ Top.fn = "visit" /\ Top.next \in 1 .. Len(children[Top.node])
      BY <2>3 DEF VisitChild, Running, CallChild
    <3>2. call \in Frame /\ Alike(call, Top)
      BY <1>2, <3>1 DEF VisitCall, Call, Frame, Walk, Alike
    <3> HIDE DEF call
    <3> QED
      BY <1>1, <1>4, <3>1, <3>2
  <2>4. CASE UpdateChild
    <3> DEFINE call == UpdateCall(NextChild, ChildTime(Top.node, Top.t))
    <3>1. CallChild(call) /\ Top.fn = "update" /\ Top.next \in 1 .. Len(children[Top.node])
      BY <2>4 DEF UpdateChild, Running, CallChild
    <3>0. ChildTime(Top.node, Top.t) \in Time \union {Unset}
      BY <1>2, ChildTimeType
    <3>2. call \in Frame /\ Alike(call, Top)
      BY <1>2, <3>0, <3>1 DEF UpdateCall, Call, Frame, Walk, Alike
    <3> HIDE DEF call
    <3> QED
      BY <1>1, <1>4, <3>1, <3>2
  <2>5. CASE DrawChild
    <3> DEFINE call == DrawCall(NextChild)
    <3>1. CallChild(call) /\ Top.fn = "draw" /\ Top.next \in 1 .. Len(children[Top.node])
      BY <2>5 DEF DrawChild, Running, CallChild
    <3>2. call \in Frame /\ Alike(call, Top)
      BY <1>2, <3>1 DEF DrawCall, Call, Frame, Walk, Alike
    <3> HIDE DEF call
    <3> QED
      BY <1>1, <1>4, <3>1, <3>2
  <2> QED
    BY <1>6, <2>1, <2>2, <2>3, <2>4, <2>5 DEF ActivityStep
<1> QED
  BY <1>1, <1>5, <1>6 DEF GraphWalk, ActivityWalk

(* A step of a walk keeps the order.                                       *)
LEMMA WalkOrdered ==
  ASSUME Invariant, Invariant', Ordered, GraphWalk \/ ActivityWalk
  PROVE  Ordered'
<1> USE DEF Invariant
<1>1. /\ stack # <<>> /\ stack \in Seq(Frame) /\ Goes(stack, stack') /\ TypeOK
      /\ UNCHANGED <<alive, configured, backend, scene, held, pc, cmd>>
  BY WalkGoes DEF TypeOK
<1>2. Control' /\ ConfiguredOnce'
  BY <1>1 DEF Ordered, Control, ConfiguredOnce
<1>3. /\ OneWalk(stack')
      /\ stack' # <<>> => Alike(Head(stack'), Head(stack)) /\ Bottom(stack').node = Bottom(stack).node
  BY <1>1, WalkGoesOn DEF Ordered
<1>4. WalkStands'
  BY <1>1, <1>3 DEF Ordered, WalkStands, Stands, Top, Alike
<1>5. FreedAreFree'
  <2>1. /\ Top \in Frame /\ Top \in Calls(stack) /\ Top.node \in Node /\ Top.next \in Nat
        /\ Len(children[Top.node]) \in Nat
    BY <1>1, RunningCall
  <2>2. CASE Top.fn # "unref"
    <3>1. \A f \in Calls(stack') : f.fn # "unref"
      <4>1. stack' = <<>> => Calls(stack') = {}
        BY DEF Calls
      <4> QED
        BY <1>3, <2>2, <4>1 DEF OneWalk, Alike, Top
    <3> QED
      BY <3>1 DEF FreedAreFree
  <2>3. CASE Top.fn = "unref"
    <3>1. /\ UnrefEnter \/ UnrefChild \/ UnrefLeave
          /\ UNCHANGED ctx
      BY <2>3 DEF GraphWalk, GraphStep, AttachEnter, AttachChild, AttachSucceeds, AttachFails,
         DetachSkipsOther, DetachEnter, DetachEnterUninit, DetachChild, DetachLeave,
         UnrefEnter, UnrefChild, UnrefLeave, Entering, Leaving, Running, ActivityWalk, ActivityStep,
         VisitSkips, VisitEnter, VisitChild, VisitLeave, UpdateSkips, UpdateEnter, UpdateChild,
         UpdateLeave, UpdateFails, DrawEnter, DrawChild, DrawLeave, CallChild, nodeVars, lifeVars
    <3>2. CASE Return \/ Abort
      <4>1. Calls(stack') \subseteq Calls(stack)
        BY <1>1, <3>2, StackTop DEF Return, Abort
      <4> QED
        BY <3>1, <4>1 DEF Ordered, FreedAreFree
    <3>3. CASE UnrefEnter /\ ctx[Top.node] = NoCtx /\ Descend
      <4> DEFINE f == [Top EXCEPT !.next = 1]
      <4>1. f \in Frame /\ f.node = Top.node
        BY <2>1 DEF Frame
      <4>2. stack' = <<f>> \o Tail(stack)
        BY <3>3 DEF Descend
      <4> HIDE DEF f
      <4>3. Calls(stack') \subseteq {f} \union Calls(stack)
        BY <1>1, <2>1, <4>1, <4>2, StackOperations
      <4> QED
        BY <3>1, <3>3, <4>1, <4>3 DEF Ordered, FreedAreFree
    <3>4. CASE UnrefChild
      <4> DEFINE f == [Top EXCEPT !.next = @ + 1]
                 e == UnrefCall(NextChild)
      <4>1. f \in Frame /\ f.node = Top.node /\ Top.next > 0
        BY <2>1, <3>4 DEF Frame, UnrefChild, CallChild
      <4>2. stack' = <<e, f>> \o Tail(stack)
        BY <3>4 DEF UnrefChild, CallChild
      <4>3. e \in Frame /\ e.next = 0
        <5>1. NextChild \in Node
          BY <1>1, <3>4, RunningCall DEF UnrefChild, CallChild
        <5> QED
          BY <5>1 DEF UnrefCall, Call, Frame, Walk
      <4> HIDE DEF f, e
      <4>4. Calls(stack') \subseteq {e, f} \union Calls(stack)
        BY <1>1, <2>1, <4>1, <4>2, <4>3, StackOperations
      <4>5. ctx[Top.node] = NoCtx
        BY <2>1, <2>3, <4>1 DEF Ordered, FreedAreFree
      <4> QED
        BY <3>1, <4>1, <4>3, <4>4, <4>5 DEF Ordered, FreedAreFree
    <3> QED
      BY <3>1, <3>2, <3>3, <3>4 DEF UnrefEnter, UnrefLeave
  <2> QED
    BY <2>2, <2>3
<1> QED
  BY <1>2, <1>3, <1>4, <1>5 DEF Ordered

(* A command that starts a walk, or ends.                                  *)
LEMMA FirstStands ==
  ASSUME NEW call \in Frame, stack' = <<call>>, call.next = 0,
         Stands(call.fn, call.owner, call.node)'
  PROVE  OneWalk(stack') /\ WalkStands' /\ FreedAreFree'
<1>1. Head(stack') = call /\ Bottom(stack') = call /\ Calls(stack') = {call}
  BY DEF Calls, Bottom
<1> QED
  BY <1>1 DEF OneWalk, WalkStands, FreedAreFree, Alike, Top

LEMMA NoCallStands ==
  ASSUME stack' = <<>>
  PROVE  OneWalk(stack') /\ WalkStands' /\ FreedAreFree'
<1>1. Calls(stack') = {}
  BY DEF Calls
<1> QED
  BY <1>1 DEF OneWalk, WalkStands, FreedAreFree

LEMMA ClientOrdered ==
  ASSUME Invariant, Ordered, Client
  PROVE  Ordered'
<1> USE DEF Invariant
<1>1. /\ stack = <<>> /\ pc = "idle" /\ configured = backend /\ NoCtx \notin Ctx
      /\ UNCHANGED <<backend, scene>>
  <2>1. Idle /\ UNCHANGED <<backend, scene>>
    BY DEF Client, Create, Configure, SetScene, Draw, Free, NodeUnref, AddChild, Toggle, Idle,
       Begin, nodesUnchanged, nodeVars, lifeVars, activityVars, ctxVars, callVars
  <2> QED
    BY <2>1, NodeAssumption DEF Idle, Ordered, Control
<1>2. ASSUME UNCHANGED <<stack, pc, cmd, configured>>
      PROVE  Ordered'
  <2>1. OneWalk(stack') /\ WalkStands' /\ FreedAreFree'
    BY <1>1, <1>2, NoCallStands
  <2> QED
    BY <1>1, <1>2, <2>1 DEF Ordered, Control, ConfiguredOnce
<1>3. ASSUME \/ \E c \in Ctx : Create(c)
             \/ \E n \in Node : Toggle(n) \/ \E child \in Node : AddChild(n, child)
      PROVE  Ordered'
  BY <1>2, <1>3 DEF Create, Toggle, AddChild, callVars, ctxVars
<1>4. ASSUME NEW c \in Ctx, Configure(c)
      PROVE  Ordered'
  <2>1. Control' /\ ConfiguredOnce'
    BY <1>1, <1>4 DEF Configure, Ordered, Control, ConfiguredOnce, Cmd, Begin, Start
  <2>2. CASE scene[c] # NoNode
    <3> DEFINE call == DetachCall(scene[c], c)
    <3>1. call \in Frame /\ call.fn = "detach" /\ call.next = 0 /\ call.owner = c
      BY <2>2 DEF DetachCall, Call, Frame, Walk, TypeOK
    <3>2. stack' = <<call>> /\ pc' = "conf_backend" /\ cmd'.ctx = c
      BY <1>4, <2>2 DEF Configure, Start, Begin, Cmd
    <3> HIDE DEF call
    <3> QED
      BY <2>1, <3>1, <3>2, FirstStands DEF Ordered, Stands
  <2>3. CASE scene[c] = NoNode
    BY <1>1, <1>4, <2>1, <2>3, NoCallStands DEF Configure, Ordered
  <2> QED
    BY <2>2, <2>3
<1>5. ASSUME NEW c \in Ctx, NEW n \in Node \union {NoNode}, SetScene(c, n)
      PROVE  Ordered'
  <2>1. Control' /\ ConfiguredOnce'
    BY <1>1, <1>5 DEF SetScene, Ordered, Control, ConfiguredOnce, Cmd, Begin, Start, ctxVars
  <2>2. CASE scene[c] # NoNode
    <3> DEFINE call == DetachCall(scene[c], c)
    <3>1. call \in Frame /\ call.fn = "detach" /\ call.next = 0 /\ call.owner = c
      BY <2>2 DEF DetachCall, Call, Frame, Walk, TypeOK
    <3>2. stack' = <<call>> /\ pc' = "scene_unref" /\ cmd'.ctx = c
      BY <1>5, <2>2 DEF SetScene, Start, Begin, Cmd
    <3> HIDE DEF call
    <3> QED
      BY <2>1, <3>1, <3>2, FirstStands DEF Ordered, Stands
  <2>3. CASE scene[c] = NoNode
    BY <1>1, <1>5, <2>1, <2>3, NoCallStands DEF SetScene, Ordered
  <2> QED
    BY <2>2, <2>3
<1>6. ASSUME NEW c \in Ctx, NEW t \in Time, NEW op \in {"draw", "prepare_draw"}, Draw(op, c, t)
      PROVE  Ordered'
  <2>1. Control' /\ ConfiguredOnce'
    BY <1>1, <1>6 DEF Draw, Ordered, Control, ConfiguredOnce, Cmd, Begin, Start, ctxVars
  <2> DEFINE call == VisitCall(scene[c], TRUE, t)
  <2>2. call \in Frame /\ call.fn = "visit" /\ call.next = 0 /\ stack' = <<call>>
    BY <1>6 DEF VisitCall, Call, Frame, Walk, Draw, Start, TypeOK
  <2> HIDE DEF call
  <2> QED
    BY <2>1, <2>2, FirstStands DEF Ordered, Stands
<1>7. ASSUME NEW c \in Ctx, Free(c)
      PROVE  Ordered'
  <2>1. Control' /\ ConfiguredOnce'
    BY <1>1, <1>7 DEF Free, Ordered, Control, ConfiguredOnce, Cmd, Begin, Start, ctxVars
  <2>2. CASE c \in configured /\ scene[c] # NoNode
    <3> DEFINE call == DetachCall(scene[c], c)
    <3>1. call \in Frame /\ call.fn = "detach" /\ call.next = 0 /\ call.owner = c
      BY <2>2 DEF DetachCall, Call, Frame, Walk, TypeOK
    <3>2. stack' = <<call>> /\ pc' = "free_unref" /\ cmd'.ctx = c
      BY <1>7, <2>2 DEF Free, Start, Begin, Cmd
    <3> HIDE DEF call
    <3> QED
      BY <2>1, <3>1, <3>2, FirstStands DEF Ordered, Stands
  <2>3. CASE ~(c \in configured /\ scene[c] # NoNode)
    BY <1>1, <1>7, <2>1, <2>3, NoCallStands DEF Free, Ordered
  <2> QED
    BY <2>2, <2>3
<1>8. ASSUME NEW n \in Node, NodeUnref(n)
      PROVE  Ordered'
  <2>1. Control' /\ ConfiguredOnce'
    BY <1>1, <1>8 DEF NodeUnref, Ordered, Control, ConfiguredOnce, Begin, Start, ctxVars
  <2> DEFINE call == UnrefCall(n)
  <2>2. call \in Frame /\ call.fn = "unref" /\ call.next = 0 /\ stack' = <<call>> /\ pc' = "idle"
    BY <1>8 DEF UnrefCall, Call, Frame, Walk, NodeUnref, Start
  <2> HIDE DEF call
  <2> QED
    BY <2>1, <2>2, FirstStands DEF Ordered, Stands
<1> QED
  BY <1>3, <1>4, <1>5, <1>6, <1>7, <1>8 DEF Client

LEMMA CommandOrdered ==
  ASSUME Invariant, Ordered, Command
  PROVE  Ordered'
<1> USE DEF Invariant
<1> DEFINE c == cmd.ctx
<1>1. stack = <<>> /\ pc # "idle" /\ c \in Ctx /\ NoCtx \notin Ctx
  BY NodeAssumption DEF Command, BackendConfigured, BackendFails, SceneReattached, UnrefScene,
     AttachScene, SceneAttached, SceneRefused, HonorNext, UpdateScene, DrawScene, FreeContext, At,
     CommandOK
<1>2. Control' /\ ConfiguredOnce'
  <2> USE <1>1 DEF Ordered, Control, ConfiguredOnce, CommandOK, TypeOK
  <2>1. CASE BackendConfigured \/ BackendFails \/ SceneReattached
    <3>1. CASE BackendConfigured
      BY <3>1 DEF BackendConfigured, At, Start, Finish
    <3>2. CASE BackendFails
      BY <3>2 DEF BackendFails, At, Finish
    <3>3. CASE SceneReattached
      BY <3>3 DEF SceneReattached, At, Finish
    <3> QED
      BY <2>1, <3>1, <3>2, <3>3
  <2>2. CASE UnrefScene
    BY <2>2 DEF UnrefScene, At, Start
  <2>3. CASE AttachScene \/ SceneAttached \/ SceneRefused
    <3>1. CASE AttachScene
      BY <3>1 DEF AttachScene, At, Start, Finish, ctxVars
    <3>2. CASE SceneAttached
      BY <3>2 DEF SceneAttached, At, Finish
    <3>3. CASE SceneRefused
      BY <3>3 DEF SceneRefused, At, Finish, ctxVars
    <3> QED
      BY <2>3, <3>1, <3>2, <3>3
  <2>4. CASE HonorNext \/ UpdateScene \/ DrawScene
    BY <2>4 DEF HonorNext, UpdateScene, DrawScene, At, Start, Finish, ctxVars
  <2>5. CASE FreeContext
    BY <2>5 DEF FreeContext, At, Finish
  <2> QED
    BY <2>1, <2>2, <2>3, <2>4, <2>5 DEF Command
<1>3. CASE stack' = <<>>
  BY <1>2, <1>3, NoCallStands DEF Ordered
<1>4. ASSUME NEW call \in Frame, stack' = <<call>>, call.next = 0,
             Stands(call.fn, call.owner, call.node)'
      PROVE  Ordered'
  BY <1>2, <1>4, FirstStands DEF Ordered
<1>5. \A n \in Node : \A k \in Ctx \union {NoCtx} :
        /\ AttachCall(n, k) \in Frame /\ AttachCall(n, k).fn = "attach"
        /\ AttachCall(n, k).next = 0 /\ AttachCall(n, k).node = n
        /\ DetachCall(n, k) \in Frame /\ DetachCall(n, k).fn = "detach"
        /\ DetachCall(n, k).owner = k /\ DetachCall(n, k).next = 0
        /\ UnrefCall(n) \in Frame /\ UnrefCall(n).fn = "unref" /\ UnrefCall(n).next = 0
        /\ DrawCall(n) \in Frame /\ DrawCall(n).fn = "draw" /\ DrawCall(n).next = 0
  BY DEF AttachCall, DetachCall, UnrefCall, DrawCall, Call, Frame, Walk
<1>6. CASE BackendConfigured
  <2>1. CASE scene[c] # NoNode
    <3> DEFINE call == AttachCall(scene[c], c)
    <3>1. /\ call \in Frame /\ call.fn = "attach" /\ call.next = 0 /\ call.node = scene[c]
      BY <1>1, <1>5, <2>1 DEF TypeOK
    <3>2. stack' = <<call>> /\ pc' = "conf_attached" /\ scene' = scene /\ cmd' = cmd
      BY <1>6, <2>1 DEF BackendConfigured, Start
    <3> HIDE DEF call
    <3> QED
      BY <1>4, <3>1, <3>2 DEF Stands
  <2>2. CASE scene[c] = NoNode
    BY <1>1, <1>3, <1>6, <2>2 DEF BackendConfigured
  <2> QED
    BY <2>1, <2>2
<1>7. CASE BackendFails \/ SceneAttached
  BY <1>1, <1>3, <1>7 DEF BackendFails, SceneAttached, callVars
<1>8. CASE SceneReattached
  <2> DEFINE call == UnrefCall(scene[c])
  <2>1. scene[c] \in Node
    BY <1>8 DEF SceneReattached, At, CommandOK
  <2>2. call \in Frame /\ call.fn = "unref" /\ call.next = 0
    BY <1>1, <1>5, <2>1
  <2>3. stack' = <<>> \/ (stack' = <<call>> /\ pc' = "idle")
    BY <1>1, <1>8 DEF SceneReattached, Finish
  <2> HIDE DEF call
  <2> QED
    BY <1>3, <1>4, <2>2, <2>3 DEF Stands
<1>9. CASE UnrefScene
  <2> DEFINE call == UnrefCall(scene[c])
  <2>1. scene[c] \in Node
    BY <1>9 DEF UnrefScene, At, CommandOK
  <2>2. call \in Frame /\ call.fn = "unref" /\ call.next = 0
    BY <1>1, <1>5, <2>1
  <2>3. stack' = <<call>> /\ pc' \in {"scene_attach", "free_stop"}
    BY <1>1, <1>9 DEF UnrefScene, Start
  <2> HIDE DEF call
  <2> QED
    BY <1>4, <2>2, <2>3 DEF Stands
<1>10. CASE AttachScene
  <2>1. CASE cmd.node # NoNode
    <3> DEFINE call == AttachCall(cmd.node, c)
    <3>1. /\ call \in Frame /\ call.fn = "attach" /\ call.next = 0 /\ call.node = cmd.node
      BY <1>1, <1>5, <2>1 DEF TypeOK, CmdData
    <3>2. stack' = <<call>> /\ pc' = "scene_attached" /\ cmd' = cmd
      BY <1>10, <2>1 DEF AttachScene, Start
    <3> HIDE DEF call
    <3> QED
      BY <1>4, <3>1, <3>2 DEF Stands
  <2>2. CASE cmd.node = NoNode
    BY <1>1, <1>3, <1>10, <2>2 DEF AttachScene
  <2> QED
    BY <2>1, <2>2
<1>11. CASE SceneRefused
  <2> DEFINE call == DetachCall(cmd.node, c)
  <2>1. cmd.node \in Node /\ scene[c] = NoNode
    BY <1>11 DEF SceneRefused, At, CommandOK, Ordered, Control
  <2>2. call \in Frame /\ call.fn = "detach" /\ call.next = 0 /\ call.owner = c
    BY <1>1, <1>5, <2>1
  <2>3. stack' = <<call>> /\ pc' = "idle" /\ scene' = scene
    BY <1>1, <1>11 DEF SceneRefused, Finish, ctxVars
  <2>4. scene'[call.owner] = NoNode
    BY <2>1, <2>2, <2>3
  <2> HIDE DEF call, c
  <2> QED
    BY <1>4, <2>2, <2>3, <2>4 DEF Stands
<1>12. CASE HonorNext
  BY <1>1, <1>3, <1>12 DEF HonorNext, HonorNode, HonorFails, Fail, callVars
<1>13. CASE UpdateScene
  <2> DEFINE call == UpdateCall(scene[c], cmd.t)
  <2>1. scene[c] \in Node /\ cmd.t \in Time \union {Unset}
    BY <1>13 DEF UpdateScene, At, CommandOK, TypeOK, CmdData
  <2>2. call \in Frame /\ call.fn = "update" /\ call.next = 0
    BY <2>1 DEF UpdateCall, Call, Frame, Walk
  <2>3. stack' = <<call>>
    BY <1>13 DEF UpdateScene, Start
  <2> HIDE DEF call
  <2> QED
    BY <1>4, <2>2, <2>3 DEF Stands
<1>14. CASE DrawScene
  <2> DEFINE call == DrawCall(scene[c])
  <2>1. scene[c] \in Node
    BY <1>14 DEF DrawScene, At, CommandOK
  <2>2. call \in Frame /\ call.fn = "draw" /\ call.next = 0
    BY <1>1, <1>5, <2>1
  <2>3. stack' = <<>> \/ stack' = <<call>>
    BY <1>1, <1>14 DEF DrawScene
  <2> HIDE DEF call
  <2> QED
    BY <1>3, <1>4, <2>2, <2>3 DEF Stands
<1>15. CASE FreeContext
  BY <1>1, <1>3, <1>15 DEF FreeContext, callVars
<1> QED
  BY <1>6, <1>7, <1>8, <1>9, <1>10, <1>11, <1>12, <1>13, <1>14, <1>15 DEF Command

LEMMA OrderedPreserved == Invariant /\ Ordered /\ [Next]_vars => Ordered'
<1>1. ASSUME Invariant, Ordered, Next
      PROVE  Ordered'
  <2>1. Invariant'
    BY <1>1, NextPreserves
  <2> QED
    BY <1>1, <2>1, ClientOrdered, CommandOrdered, WalkOrdered DEF Next
<1>2. Ordered /\ UNCHANGED vars => Ordered'
  BY DEF Ordered, Control, ConfiguredOnce, OneWalk, WalkStands, Stands, FreedAreFree, Calls, Top,
         vars, nodeVars, lifeVars, callVars, ctxVars
<1> QED
  BY <1>1, <1>2

LEMMA OrderedInitially == Init => Ordered
  BY DEF Init, Ordered, Control, ConfiguredOnce, OneWalk, WalkStands, FreedAreFree, Calls

LEMMA OrderedHolds == Spec => [](Invariant /\ Ordered)
  BY InitEstablishes, NextPreserves, OrderedInitially, OrderedPreserved, PTL DEF Spec

(***************************************************************************)
(* What is attached, path by path                                          *)
(*                                                                         *)
(* node_set_ctx counts the paths it attaches.  P gives the paths that each *)
(* context has attached and not detached: x and k stand for the contexts   *)
(* of the nodes and their counts.                                          *)
(***************************************************************************)
EndingAt(Q, n) == {s \in Q : End(s) = n}

(* A node at the end of an attached path has the context of the path, and  *)
(* the nodes on the way have it too or none.                               *)
Sound(x, c, Q) ==
  \A s \in Q : x[End(s)] = c /\ \A m \in 1 .. Len(s) : x[s[m][1]] \in {c, NoCtx}

Accounted(x, k, P) ==
  /\ \A c \in Ctx : IsFiniteSet(P[c]) /\ Sound(x, c, P[c])
  /\ \A n \in Node : x[n] # NoCtx => k[n] = Cardinality(EndingAt(P[x[n]], n))

(* The beginning of a path.                                                *)
Upto(s, j) == [m \in 1 .. j |-> s[m]]

LEMMA PrefixIsPath ==
  ASSUME NEW s \in Paths, NEW j \in 1 .. Len(s)
  PROVE  /\ Upto(s, j) \in Paths /\ Len(Upto(s, j)) = j
         /\ \A m \in 1 .. j : Upto(s, j)[m] = s[m]
         /\ End(Upto(s, j)) = s[j][1] /\ Upto(s, j)[1] = s[1]
<1>1. Len(s) \in Nat \ {0} /\ \A m \in 1 .. Len(s) : s[m] \in Node \X Nat
  BY PathsType
<1>2. j \in Nat \ {0} /\ \A m \in 1 .. j : m \in 1 .. Len(s)
  BY <1>1
<1>3. Upto(s, j) \in [1 .. j -> Node \X Nat]
  BY <1>1, <1>2 DEF Upto
<1>4. Upto(s, j) \in Seq(Node \X Nat) /\ Len(Upto(s, j)) = j
  BY <1>2, <1>3
<1>5. \A m \in 1 .. j : Upto(s, j)[m] = s[m]
  BY DEF Upto
<1> HIDE DEF Upto
<1>6. Upto(s, j) \in Paths
  BY <1>2, <1>4, EmptySeq DEF Paths
<1>7. 1 \in 1 .. j /\ j \in 1 .. j
  BY <1>2
<1> QED
  BY <1>4, <1>5, <1>6, <1>7 DEF End

(* When all the paths from a node are attached, their nodes all have the   *)
(* context.                                                                *)
LEMMA OwnedAlong ==
  ASSUME NEW g, NEW n, NEW x, NEW c, Sound(x, c, PathsFrom(g, n)), NEW s \in PathsFrom(g, n),
         NEW j \in 1 .. Len(s)
  PROVE  x[s[j][1]] = c
<1>1. s \in Paths /\ s[1] = <<n, 0>> /\ Valid(g, s) /\ Len(s) \in Nat
  BY PathsType DEF PathsFrom
<1>2. /\ Upto(s, j) \in Paths /\ Len(Upto(s, j)) = j
      /\ \A m \in 1 .. j : Upto(s, j)[m] = s[m]
      /\ End(Upto(s, j)) = s[j][1] /\ Upto(s, j)[1] = s[1]
  BY <1>1, PrefixIsPath
<1>3. Valid(g, Upto(s, j))
  <2>1. \A m \in 1 .. j - 1 : m \in 1 .. j /\ m + 1 \in 1 .. j /\ m \in 1 .. Len(s) - 1
    BY <1>1
  <2> QED
    BY <1>1, <1>2, <2>1 DEF Valid
<1> QED
  BY <1>1, <1>2, <1>3 DEF PathsFrom, Sound

(* A node without a context may get or lose children: no attached path     *)
(* goes through it.                                                        *)
LEMMA PathsStay ==
  ASSUME NEW g \in [Node -> Seq(Node)], NEW h \in [Node -> Seq(Node)], NEW n \in Node, NEW f \in Node,
         \A m \in Node : m # f => h[m] = g[m],
         NEW x, NEW c, c # NoCtx, Sound(x, c, PathsFrom(g, n)), x[f] = NoCtx
  PROVE  PathsFrom(h, n) = PathsFrom(g, n)
<1>1. ASSUME NEW s \in PathsFrom(g, n)
      PROVE  s \in PathsFrom(h, n)
  <2>1. s \in Paths /\ s[1] = <<n, 0>> /\ Valid(g, s) /\ Len(s) \in Nat
        /\ \A m \in 1 .. Len(s) : s[m][1] \in Node
    BY PathsType DEF PathsFrom
  <2>2. \A m \in 1 .. Len(s) : s[m][1] # f
    BY <1>1, OwnedAlong
  <2>3. \A m \in 1 .. Len(s) - 1 : m \in 1 .. Len(s)
    BY <2>1
  <2>4. Valid(h, s)
    BY <2>1, <2>2, <2>3 DEF Valid
  <2> QED
    BY <2>1, <2>4 DEF PathsFrom
<1>2. ASSUME NEW s \in PathsFrom(h, n)
      PROVE  s \in PathsFrom(g, n)
  <2>1. s \in Paths /\ s[1] = <<n, 0>> /\ Valid(h, s) /\ Len(s) \in Nat
        /\ \A m \in 1 .. Len(s) : s[m][1] \in Node
    BY PathsType DEF PathsFrom
  <2> DEFINE S == {m \in 1 .. Len(s) : s[m][1] = f}
  <2>2. CASE S = {}
    <3>1. \A m \in 1 .. Len(s) - 1 : m \in 1 .. Len(s)
      BY <2>1
    <3>2. Valid(g, s)
      BY <2>1, <2>2, <3>1 DEF Valid
    <3> QED
      BY <2>1, <3>2 DEF PathsFrom
  <2>3. CASE S # {}
    <3>1. S \in SUBSET Nat
      BY <2>1
    <3>2. PICK j \in S : \A m \in S : j <= m
      <4> HIDE DEF S
      <4> QED
        BY <2>3, <3>1, LeastExists
    <3>3. j \in 1 .. Len(s) /\ s[j][1] = f /\ j \in Nat
      BY <2>1, <3>2
    <3>4. /\ Upto(s, j) \in Paths /\ Len(Upto(s, j)) = j
          /\ \A m \in 1 .. j : Upto(s, j)[m] = s[m]
          /\ End(Upto(s, j)) = s[j][1] /\ Upto(s, j)[1] = s[1]
      BY <2>1, <3>3, PrefixIsPath
    <3>5. Valid(g, Upto(s, j))
      <4>1. \A m \in 1 .. j - 1 : m \in 1 .. j /\ m + 1 \in 1 .. j /\ m \in 1 .. Len(s) - 1
                                  /\ m \in 1 .. Len(s) /\ m < j
        BY <2>1, <3>3
      <4>2. \A m \in 1 .. j - 1 : s[m][1] # f
        BY <2>1, <3>2, <4>1
      <4>3. \A m \in 1 .. j - 1 : g[s[m][1]] = h[s[m][1]]
        BY <2>1, <4>1, <4>2
      <4>4. \A m \in 1 .. j - 1 : /\ Upto(s, j)[m] = s[m] /\ Upto(s, j)[m + 1] = s[m + 1]
                                  /\ s[m + 1][2] \in 1 .. Len(h[s[m][1]])
                                  /\ s[m + 1][1] = h[s[m][1]][s[m + 1][2]]
        BY <2>1, <3>4, <4>1 DEF Valid
      <4> HIDE DEF Upto
      <4> SUFFICES ASSUME NEW m \in 1 .. j - 1
                   PROVE  /\ Upto(s, j)[m + 1][2] \in 1 .. Len(g[Upto(s, j)[m][1]])
                          /\ Upto(s, j)[m + 1][1] = g[Upto(s, j)[m][1]][Upto(s, j)[m + 1][2]]
        BY <3>4 DEF Valid
      <4> QED
        BY <4>3, <4>4, ZenonT(60)
    <3>6. Upto(s, j) \in PathsFrom(g, n)
      BY <2>1, <3>4, <3>5 DEF PathsFrom
    <3> QED
      BY <3>3, <3>4, <3>6 DEF Sound
  <2> QED
    BY <2>2, <2>3
<1> QED
  BY <1>1, <1>2

(* The contexts of the nodes along a path.                                 *)
Along(x, s) == {x[s[m][1]] : m \in 1 .. Len(s)}

(* One more path is attached.                                              *)
LEMMA AddPath ==
  ASSUME NEW x \in [Node -> Ctx \union {NoCtx}], NEW k \in [Node -> Int],
         NEW P \in [Ctx -> SUBSET Paths], Accounted(x, k, P),
         \A n \in Node : x[n] = NoCtx => k[n] = 0,
         NEW c \in Ctx, NEW t \in Paths, t \notin P[c],
         Along(x, t) \subseteq {c, NoCtx},
         \A d \in Ctx \ {c} : \A s \in P[d] : Along(x, s) \subseteq {d},
         NEW n, n = End(t)
  PROVE  /\ [P EXCEPT ![c] = @ \union {t}] \in [Ctx -> SUBSET Paths]
         /\ Accounted([x EXCEPT ![n] = c], [k EXCEPT ![n] = @ + 1], [P EXCEPT ![c] = @ \union {t}])
<1> DEFINE y == [x EXCEPT ![n] = c]
           l == [k EXCEPT ![n] = @ + 1]
           R == P[c] \union {t}
           Q == [P EXCEPT ![c] = @ \union {t}]
<1>1. n \in Node /\ x[n] \in {c, NoCtx} /\ NoCtx \notin Ctx
  <2>1. Len(t) \in 1 .. Len(t) /\ n \in Node
    BY PathsType
  <2>2. x[t[Len(t)][1]] \in Along(x, t)
    BY <2>1 DEF Along
  <2> QED
    BY <2>1, <2>2, NodeAssumption DEF End
<1>2. /\ \A m \in Node : y[m] = IF m = n THEN c ELSE x[m]
      /\ \A m \in Node : l[m] = IF m = n THEN k[n] + 1 ELSE k[m]
      /\ \A d \in Ctx : Q[d] = IF d = c THEN R ELSE P[d]
      /\ Q \in [Ctx -> SUBSET Paths]
  BY <1>1
<1>3. /\ \A d \in Ctx : P[d] \subseteq Paths
      /\ \A s \in Paths : End(s) \in Node /\ \A m \in 1 .. Len(s) : s[m][1] \in Node
      /\ t \in R
      /\ \A s \in R : s \in P[c] \/ s = t
      /\ \A s \in P[c] : s \in R
  BY PathsType
<1>0. /\ \A m \in 1 .. Len(t) : x[t[m][1]] \in {c, NoCtx}
      /\ \A d \in Ctx \ {c} : \A s \in P[d] : \A m \in 1 .. Len(s) : x[s[m][1]] = d
  <2>1. \A s, O : Along(x, s) \subseteq O => \A m \in 1 .. Len(s) : x[s[m][1]] \in O
    BY DEF Along
  <2>2. ASSUME NEW d \in Ctx \ {c}, NEW s \in P[d], NEW m \in 1 .. Len(s)
        PROVE  x[s[m][1]] = d
    <3>1. x[s[m][1]] \in {d}
      BY <2>1, <2>2
    <3> QED
      BY <3>1
  <2> QED
    BY <2>1, <2>2
<1> HIDE DEF y, l, Q, R
<1>4. ASSUME NEW d \in Ctx
      PROVE  IsFiniteSet(Q[d]) /\ Sound(y, d, Q[d])
  <2>1. IsFiniteSet(P[d]) /\ Sound(x, d, P[d])
    BY DEF Accounted
  <2>2. CASE d = c
    <3>1. IsFiniteSet(R)
      BY <2>1, <2>2, FS_AddElement DEF R
    <3>2. Sound(y, c, R)
      BY <1>0, <1>1, <1>2, <1>3, <2>1, <2>2, SMTT(30) DEF Sound
    <3> QED
      BY <1>2, <2>2, <3>1, <3>2
  <2>3. CASE d # c
    <3>1. Q[d] = P[d]
      BY <1>2, <2>3
    <3>2. \A s \in P[d] : End(s) \in Node /\ x[End(s)] = d
                          /\ \A m \in 1 .. Len(s) : s[m][1] \in Node /\ x[s[m][1]] = d
      BY <1>0, <1>3, <2>1, <2>3 DEF Sound
    <3>3. d # NoCtx
      BY <1>1
    <3> QED
      BY <1>1, <1>2, <2>1, <2>3, <3>1, <3>2, <3>3 DEF Sound
  <2> QED
    BY <2>2, <2>3
<1>5. ASSUME NEW m \in Node, y[m] # NoCtx
      PROVE  l[m] = Cardinality(EndingAt(Q[y[m]], m))
  <2>1. CASE m = n
    <3> DEFINE S == EndingAt(P[c], n)
    <3>1. EndingAt(R, n) = S \union {t} /\ t \notin S
      BY <1>3 DEF EndingAt
    <3>2. IsFiniteSet(S)
      <4>1. IsFiniteSet(P[c]) /\ S \subseteq P[c]
        BY DEF Accounted, EndingAt
      <4> QED
        BY <4>1, FS_Subset
    <3>3. Cardinality(EndingAt(R, n)) = Cardinality(S) + 1
      <4> HIDE DEF S
      <4> QED
        BY <3>1, <3>2, FS_AddElement
    <3>4. CASE x[n] = c
      <4>1. k[n] = Cardinality(S)
        BY <1>1, <3>4 DEF Accounted
      <4> QED
        BY <1>1, <1>2, <2>1, <3>3, <4>1
    <3>5. CASE x[n] = NoCtx
      <4>1. S = {}
        BY <1>1, <3>5 DEF EndingAt, Accounted, Sound
      <4>2. Cardinality(S) = 0
        BY <4>1, FS_EmptySet
      <4> QED
        BY <1>1, <1>2, <2>1, <3>3, <3>5, <4>2
    <3> QED
      BY <1>1, <3>4, <3>5
  <2>2. CASE m # n
    <3>1. y[m] = x[m] /\ l[m] = k[m] /\ x[m] \in Ctx
      BY <1>2, <1>5, <2>2
    <3>2. EndingAt(Q[x[m]], m) = EndingAt(P[x[m]], m)
      <4>1. CASE x[m] = c
        <5>1. EndingAt(R, m) = EndingAt(P[c], m)
          BY <1>3, <2>2 DEF EndingAt
        <5> QED
          BY <1>2, <4>1, <5>1
      <4>2. CASE x[m] # c
        BY <1>2, <3>1, <4>2
      <4> QED
        BY <4>1, <4>2
    <3>3. k[m] = Cardinality(EndingAt(P[x[m]], m))
      BY <1>5, <3>1 DEF Accounted
    <3> QED
      BY <3>1, <3>2, <3>3
  <2> QED
    BY <2>1, <2>2
<1>6. Accounted(y, l, Q)
  BY <1>4, <1>5 DEF Accounted
<1> QED
  BY <1>2, <1>6 DEF y, l, Q

(* One path is detached, and its node keeps the context if it was not the  *)
(* last one.                                                               *)
LEMMA RemovePath ==
  ASSUME NEW x \in [Node -> Ctx \union {NoCtx}], NEW k \in [Node -> Int],
         NEW P \in [Ctx -> SUBSET Paths], Accounted(x, k, P),
         NEW c \in Ctx, NEW t \in P[c], NEW y,
         y = IF k[End(t)] = 1 THEN [x EXCEPT ![End(t)] = NoCtx] ELSE x
  PROVE  /\ [P EXCEPT ![c] = @ \ {t}] \in [Ctx -> SUBSET Paths]
         /\ Accounted(y, [k EXCEPT ![End(t)] = @ - 1], [P EXCEPT ![c] = @ \ {t}])
<1> DEFINE n == End(t)
           l == [k EXCEPT ![n] = @ - 1]
           R == P[c] \ {t}
           Q == [P EXCEPT ![c] = @ \ {t}]
           S == EndingAt(P[c], n)
<1>1. n \in Node /\ x[n] = c /\ NoCtx \notin Ctx /\ t \in Paths
  BY PathsType, NodeAssumption DEF Accounted, Sound
<1>2. /\ \A m \in Node : y[m] = IF m = n /\ k[n] = 1 THEN NoCtx ELSE x[m]
      /\ \A m \in Node : l[m] = IF m = n THEN k[n] - 1 ELSE k[m]
      /\ \A d \in Ctx : Q[d] = IF d = c THEN R ELSE P[d]
      /\ Q \in [Ctx -> SUBSET Paths]
  BY <1>1
<1>3. /\ \A d \in Ctx : P[d] \subseteq Paths
      /\ \A s \in Paths : End(s) \in Node /\ \A m \in 1 .. Len(s) : s[m][1] \in Node
      /\ t \notin R /\ R \subseteq P[c]
      /\ \A s \in P[c] : s \in R \/ s = t
  BY PathsType
<1>4. IsFiniteSet(S) /\ k[n] = Cardinality(S) /\ t \in S
  <2>1. IsFiniteSet(P[c]) /\ S \subseteq P[c]
    BY DEF Accounted, EndingAt
  <2>2. k[n] = Cardinality(S)
    BY <1>1 DEF Accounted
  <2> QED
    BY <2>1, <2>2, FS_Subset DEF EndingAt
<1>5. Cardinality(S \ {t}) = k[n] - 1
  <2> HIDE DEF S, n
  <2> QED
    BY <1>4, FS_RemoveElement
<1>6. EndingAt(R, n) = S \ {t}
  BY DEF EndingAt
<1>7. k[n] = 1 => EndingAt(R, n) = {}
  <2>1. IsFiniteSet(S \ {t})
    BY <1>4, FS_RemoveElement
  <2> HIDE DEF S, n
  <2> QED
    <3>1. ASSUME k[n] = 1
          PROVE  Cardinality(S \ {t}) = 0
      BY <1>5, <3>1
    <3> DEFINE T == S \ {t}
    <3>2. IsFiniteSet(T) /\ EndingAt(R, n) = T /\ (k[n] = 1 => Cardinality(T) = 0)
      BY <1>6, <2>1, <3>1
    <3> HIDE DEF T
    <3> QED
      BY <3>2, FS_EmptySet
<1> HIDE DEF l, Q, R, S
<1>8. ASSUME NEW d \in Ctx
      PROVE  IsFiniteSet(Q[d]) /\ Sound(y, d, Q[d])
  <2>1. IsFiniteSet(P[d]) /\ Sound(x, d, P[d])
    BY DEF Accounted
  <2>2. IsFiniteSet(Q[d]) /\ Q[d] \subseteq P[d]
    <3>1. Q[d] \subseteq P[d]
      BY <1>2, <1>3
    <3> QED
      BY <2>1, <3>1, FS_Subset
  <2>3. ASSUME NEW s \in Q[d]
        PROVE  y[End(s)] = d
    <3>1. End(s) \in Node /\ x[End(s)] = d
      BY <1>3, <2>1, <2>2 DEF Sound
    <3>2. CASE End(s) = n /\ k[n] = 1
      <4>1. d = c
        BY <1>1, <3>1, <3>2
      <4>2. s \in EndingAt(R, n)
        BY <1>2, <3>2, <4>1 DEF EndingAt
      <4> QED
        BY <1>7, <3>2, <4>2
    <3>3. CASE ~(End(s) = n /\ k[n] = 1)
      BY <1>2, <3>1, <3>3
    <3> QED
      BY <3>2, <3>3
  <2>4. ASSUME NEW s \in Q[d], NEW m \in 1 .. Len(s)
        PROVE  y[s[m][1]] \in {d, NoCtx}
    <3>1. s[m][1] \in Node /\ x[s[m][1]] \in {d, NoCtx}
      BY <1>3, <2>1, <2>2 DEF Sound
    <3> QED
      BY <1>2, <3>1
  <2> QED
    BY <2>2, <2>3, <2>4 DEF Sound
<1>9. ASSUME NEW m \in Node, y[m] # NoCtx
      PROVE  l[m] = Cardinality(EndingAt(Q[y[m]], m))
  <2>1. y[m] = x[m] /\ x[m] \in Ctx
    BY <1>2, <1>9
  <2>2. CASE m = n
    BY <1>1, <1>2, <1>5, <1>6, <2>1, <2>2
  <2>3. CASE m # n
    <3>1. l[m] = k[m] /\ k[m] = Cardinality(EndingAt(P[x[m]], m))
      BY <1>2, <1>9, <2>1, <2>3 DEF Accounted
    <3>2. EndingAt(Q[x[m]], m) = EndingAt(P[x[m]], m)
      <4>1. CASE x[m] = c
        <5>1. EndingAt(R, m) = EndingAt(P[c], m)
          BY <1>3, <2>3 DEF EndingAt, n
        <5> QED
          BY <1>2, <4>1, <5>1
      <4>2. CASE x[m] # c
        BY <1>2, <2>1, <4>2
      <4> QED
        BY <4>1, <4>2
    <3> QED
      BY <2>1, <3>1, <3>2
  <2> QED
    BY <2>2, <2>3
<1>10. Accounted(y, l, Q)
  BY <1>8, <1>9 DEF Accounted
<1> QED
  BY <1>2, <1>10 DEF l, Q

(* The paths a context has when its scene is attached as a whole.          *)
Whole(c) == IF c \in backend /\ scene[c] # NoNode THEN PathsFrom(children, scene[c]) ELSE {}

Walking(fn, c) == stack # <<>> /\ Top.fn = fn /\ Top.owner = c

(* The paths that the context c has at each point of a command: those an   *)
(* attachment has gone through, those a detachment has yet to enter, none  *)
(* once it has come to its end, what an attachment has left when it came   *)
(* to its end or failed, and otherwise the whole scene.                    *)
Shape(Q, c) ==
  IF Walking("attach", c)
  THEN Attaching(children, Bottom(stack).node, Trail(stack), Top.next, Q)
  ELSE IF Walking("detach", c)
  THEN Detaching(children, Bottom(stack).node, Trail(stack), Top.next, Q)
  ELSE IF c = cmd.ctx /\ pc \in {"conf_backend", "scene_unref", "free_unref"}
  THEN Q = {}
  ELSE IF c = cmd.ctx /\ pc = "conf_attached"
  THEN /\ Refusable(children, scene[c], Q)
       /\ status = "ok" => Q = PathsFrom(children, scene[c])
  ELSE IF c = cmd.ctx /\ pc = "scene_attached"
  THEN /\ Refusable(children, cmd.node, Q)
       /\ status = "ok" => Q = PathsFrom(children, cmd.node)
  ELSE Q = Whole(c)

Pathwise(P) == Accounted(ctx, ctx_refcount, P) /\ \A c \in Ctx : Shape(P[c], c)

(* The calls of an attachment or a detachment lead from one to the next.   *)
Tied == stack # <<>> /\ Top.fn \in {"attach", "detach"} => Linked(children, stack)

(* A node without a context is not initialised, and a frame visits and     *)
(* queues the nodes of its context only.                                   *)
Tracked ==
  /\ \A n \in Node : state[n] = Uninitialized <=> ctx[n] = NoCtx
  /\ pc = "draw_honor" => \A i \in DOMAIN activity[cmd.ctx] : ctx[activity[cmd.ctx][i]] = cmd.ctx
  /\ \A f \in Calls(stack) : f.fn = "visit" => cmd.ctx \in Ctx /\ ctx[f.node] = cmd.ctx

Attachment == Tied /\ Tracked /\ \E P \in [Ctx -> SUBSET Paths] : Pathwise(P)

(* What is attached of a node goes down to its descendants.                *)
LEMMA ShapeIsClosed ==
  ASSUME Invariant, Tied, NEW c \in Ctx, NEW Q \in SUBSET Paths, Shape(Q, c)
  PROVE  Carried(children, Q)
<1>1. children \in [Node -> Seq(Node)] /\ stack \in Seq(Frame)
  BY DEF Invariant, TypeOK
<1>2. ASSUME Walking("attach", c) \/ Walking("detach", c)
      PROVE  /\ Bottom(stack).node \in Node /\ Trail(stack) \in PathsFrom(children, Bottom(stack).node)
             /\ Trail(stack) \in Paths /\ Top.next \in Nat
  BY <1>1, <1>2, FramesTyped, TrailIsPath, RunningCall DEF Tied, Walking, Invariant, PathsFrom
<1>3. CASE Walking("attach", c)
  <2>1. Attaching(children, Bottom(stack).node, Trail(stack), Top.next, Q)
    BY <1>3 DEF Shape
  <2>2. Refusable(children, Bottom(stack).node, Q)
    BY <1>1, <1>2, <1>3, <2>1, AttachingFails
  <2> QED
    BY <1>1, <1>2, <1>3, <2>2, LeftIsClosed
<1>4. CASE ~Walking("attach", c) /\ Walking("detach", c)
  <2>1. Detaching(children, Bottom(stack).node, Trail(stack), Top.next, Q)
    BY <1>4 DEF Shape
  <2> QED
    BY <1>1, <1>2, <1>4, <2>1, LeftIsClosed
<1>5. CASE ~Walking("attach", c) /\ ~Walking("detach", c)
  <2>1. Q = {} \/ \E n : Refusable(children, n, Q) \/ Q = PathsFrom(children, n)
    BY <1>5 DEF Shape, Whole
  <2>2. \E n : Refusable(children, n, Q)
    BY <2>1, AllIsRefusable
  <2>3. \A s \in Paths : s \in Paths /\ 0 \in Nat
    OBVIOUS
  <2>4. CASE Q = {}
    BY <2>4 DEF Carried
  <2>5. CASE Q # {}
    BY <1>1, <2>2, <2>5, LeftIsClosed DEF Refusable, PathsFrom
  <2> QED
    BY <2>4, <2>5
<1> QED
  BY <1>3, <1>4, <1>5

(* An attached node is at the end of an attached path.                     *)
LEMMA AttachedByPath ==
  ASSUME Invariant, NEW P \in [Ctx -> SUBSET Paths], Accounted(ctx, ctx_refcount, P),
         NEW n \in Node, ctx[n] # NoCtx
  PROVE  ctx[n] \in Ctx /\ \E s \in P[ctx[n]] : End(s) = n
<1>1. ctx[n] \in Ctx /\ ctx_refcount[n] # 0
  BY DEF Invariant, TypeOK, OwnerCounted
<1>2. ctx_refcount[n] = Cardinality(EndingAt(P[ctx[n]], n))
  BY DEF Accounted
<1>3. EndingAt(P[ctx[n]], n) # {}
  BY <1>1, <1>2, FS_EmptySet
<1> QED
  BY <1>1, <1>3 DEF EndingAt

LEMMA ChildrenAreAttached ==
  ASSUME Invariant, Tied, NEW P \in [Ctx -> SUBSET Paths], Pathwise(P),
         NEW n \in Node, ctx[n] # NoCtx, NEW i \in 1 .. Len(children[n])
  PROVE  ctx[children[n][i]] = ctx[n]
<1> DEFINE c == ctx[n]
<1>1. PICK s \in P[c] : End(s) = n
  BY AttachedByPath DEF Pathwise
<1>2. c \in Ctx /\ children \in [Node -> Seq(Node)]
  BY AttachedByPath DEF Pathwise, Invariant, TypeOK
<1>3. Carried(children, P[c]) /\ Sound(ctx, c, P[c]) /\ P[c] \subseteq Paths
  BY <1>2, ShapeIsClosed DEF Pathwise, Accounted
<1>4. s \in Paths /\ i \in 1 .. Len(children[End(s)])
  BY <1>1, <1>3
<1>5. Longer(children, s, i) \in P[c]
  BY <1>1, <1>3, <1>4 DEF Carried
<1>6. End(Longer(children, s, i)) = children[n][i]
  <2>1. Len(s) \in Nat \ {0} /\ s \in Seq(Node \X Nat) /\ <<children[n][i], i>> \in Node \X Nat
    BY <1>2, <1>4, PathsType, GraphType
  <2> DEFINE e == <<children[n][i], i>>
  <2>2. e \in Node \X Nat /\ e[1] = children[n][i]
    BY <2>1
  <2>3. Longer(children, s, i) = Append(s, e)
    BY <1>1 DEF Longer
  <2> HIDE DEF e
  <2>4. Len(Append(s, e)) = Len(s) + 1 /\ Append(s, e)[Len(s) + 1] = e
    BY <2>1, <2>2, AppendProperties
  <2> QED
    BY <2>2, <2>3, <2>4 DEF End
<1> QED
  BY <1>1, <1>3, <1>5, <1>6 DEF Sound

(* A walk that starts.                                                     *)
LEMMA AttachmentStarts ==
  ASSUME NEW n \in Node, NEW c \in Ctx, children' \in [Node -> Seq(Node)],
         stack' = <<AttachCall(n, c)>>
  PROVE  /\ Tied' /\ Shape({}, c)'
         /\ \A f \in Calls(stack') : f.fn # "visit"
         /\ \A fn, d : Walking(fn, d)' => fn = "attach" /\ d = c
<1> DEFINE f == AttachCall(n, c)
           g == children'
<1>1. f \in Frame /\ f.fn = "attach" /\ f.next = 0 /\ f.owner = c /\ f.node = n
  BY DEF AttachCall, Call, Frame, Walk
<1> HIDE DEF f
<1>2. stack' = <<f>> /\ g \in [Node -> Seq(Node)]
  BY DEF f
<1> HIDE DEF g
<1>3. /\ Linked(g, <<f>>) /\ Len(Trail(<<f>>)) = 1
      /\ Bottom(<<f>>) = f /\ Head(<<f>>) = f /\ <<f>> \in Seq(Frame) /\ <<f>> # <<>>
  BY <1>1, <1>2, FramesTyped, TrailOfFirst
<1>4. Trail(<<f>>) \in PathsFrom(g, n)
  <2>1. Trail(<<f>>) \in PathsFrom(g, Bottom(<<f>>).node)
    BY <1>1, <1>2, <1>3, FramesTyped, TrailIsPath
  <2> QED
    BY <1>1, <1>3, <2>1
<1>5. Attaching(g, n, Trail(<<f>>), 0, {})
  BY <1>2, <1>3, <1>4, AttachingStarts
<1>6. Calls(stack') = {f}
  BY <1>2 DEF Calls
<1>7. \A fn, d : Walking(fn, d)' <=> fn = "attach" /\ d = c
  BY <1>1, <1>2, <1>3 DEF Walking, Top
<1>8. Shape({}, c)'
  BY <1>1, <1>2, <1>3, <1>5, <1>7 DEF Shape, Top, g
<1> QED
  BY <1>1, <1>2, <1>3, <1>6, <1>7, <1>8 DEF Tied, g

LEMMA DetachmentStarts ==
  ASSUME NEW n \in Node, NEW c \in Ctx, children' \in [Node -> Seq(Node)],
         stack' = <<DetachCall(n, c)>>, NEW Q, Refusable(children', n, Q)
  PROVE  /\ Tied' /\ Shape(Q, c)'
         /\ \A f \in Calls(stack') : f.fn # "visit"
         /\ \A fn, d : Walking(fn, d)' => fn = "detach" /\ d = c
<1> DEFINE f == DetachCall(n, c)
           g == children'
<1>1. f \in Frame /\ f.fn = "detach" /\ f.next = 0 /\ f.owner = c /\ f.node = n
  BY DEF DetachCall, Call, Frame, Walk
<1> HIDE DEF f
<1>2. stack' = <<f>> /\ g \in [Node -> Seq(Node)] /\ Refusable(g, n, Q)
  BY DEF f
<1> HIDE DEF g
<1>3. /\ Linked(g, <<f>>) /\ Len(Trail(<<f>>)) = 1
      /\ Bottom(<<f>>) = f /\ Head(<<f>>) = f /\ <<f>> \in Seq(Frame) /\ <<f>> # <<>>
  BY <1>1, <1>2, FramesTyped, TrailOfFirst
<1>4. Trail(<<f>>) \in PathsFrom(g, n)
  <2>1. Trail(<<f>>) \in PathsFrom(g, Bottom(<<f>>).node)
    BY <1>1, <1>2, <1>3, FramesTyped, TrailIsPath
  <2> QED
    BY <1>1, <1>3, <2>1
<1>5. Detaching(g, n, Trail(<<f>>), 0, Q)
  BY <1>2, <1>3, <1>4, DetachingStarts
<1>6. Calls(stack') = {f}
  BY <1>2 DEF Calls
<1>7. \A fn, d : Walking(fn, d)' <=> fn = "detach" /\ d = c
  BY <1>1, <1>2, <1>3 DEF Walking, Top
<1>8. Shape(Q, c)'
  BY <1>1, <1>2, <1>3, <1>5, <1>7 DEF Shape, Top, g
<1> QED
  BY <1>1, <1>2, <1>3, <1>6, <1>7, <1>8 DEF Tied, g

(* A walk of another kind that starts, or no walk.                         *)
LEMMA OtherStarts ==
  ASSUME NEW call \in Frame, call.fn \notin {"attach", "detach"},
         stack' = <<call>> \/ stack' = <<>>
  PROVE  /\ Tied' /\ \A fn \in {"attach", "detach"} : \A d : ~Walking(fn, d)'
         /\ \A f \in Calls(stack') : f = call
<1>1. Calls(stack') \subseteq {call}
  BY DEF Calls
<1>2. stack' # <<>> => Head(stack') = call
  OBVIOUS
<1> QED
  BY <1>1, <1>2 DEF Tied, Walking, Top

LEMMA RootIsOwned ==
  ASSUME NEW g, NEW n \in Node, NEW x, NEW c, Sound(x, c, PathsFrom(g, n))
  PROVE  x[n] = c
<1> DEFINE s == <<<<n, 0>>>>
<1>1. <<n, 0>> \in Node \X Nat
  OBVIOUS
<1>2. s \in Seq(Node \X Nat) /\ Len(s) = 1 /\ s[1] = <<n, 0>> /\ s # <<>>
  BY <1>1
<1> HIDE DEF s
<1>3. Valid(g, s) /\ End(s) = n
  BY <1>2 DEF Valid, End
<1>4. s \in PathsFrom(g, n)
  BY <1>2, <1>3 DEF PathsFrom, Paths
<1> QED
  BY <1>3, <1>4 DEF Sound

(* The contexts but the one whose nodes a step attaches or detaches keep   *)
(* their scene.                                                            *)
LEMMA OthersStay ==
  ASSUME NEW P, NEW S \in SUBSET Ctx, \A d \in S : P[d] = Whole(d),
         \/ \A d \in S : cmd'.ctx # d
         \/ pc' \notin {"conf_backend", "conf_attached", "scene_unref", "free_unref", "scene_attached"},
         \A d \in S : ~Walking("attach", d)' /\ ~Walking("detach", d)',
         children' = children,
         \A d \in S : (d \in backend' <=> d \in backend) /\ scene'[d] = scene[d]
  PROVE  \A d \in S : Shape(P[d], d)'
  BY DEF Shape, Whole

LEMMA AttachmentKept ==
  ASSUME NEW P \in [Ctx -> SUBSET Paths], Accounted(ctx, ctx_refcount, P),
         UNCHANGED <<ctx, ctx_refcount>>, Tied', Tracked', \A c \in Ctx : Shape(P[c], c)'
  PROVE  Attachment'
<1>1. Pathwise(P)'
  BY DEF Pathwise
<1> QED
  BY <1>1 DEF Attachment

LEMMA AttachmentStays ==
  ASSUME Attachment,
         UNCHANGED <<children, ctx, ctx_refcount, state, stack, status, activity, backend, scene, pc, cmd>>
  PROVE  Attachment'
<1>1. PICK P \in [Ctx -> SUBSET Paths] : Pathwise(P)
  BY DEF Attachment
<1>2. Tied' /\ Tracked'
  BY DEF Attachment, Tied, Tracked, Calls, Top
<1>3. ASSUME NEW c \in Ctx
      PROVE  Shape(P[c], c)'
  BY <1>1 DEF Pathwise, Shape, Whole, Walking, Top
<1> QED
  BY <1>1, <1>2, <1>3, AttachmentKept DEF Pathwise

(* The steps of the client.                                                *)
LEMMA ClientAttaches ==
  ASSUME Invariant, Ordered, Attachment, Client
  PROVE  Attachment'
<1> USE DEF Invariant
<1>1. /\ stack = <<>> /\ pc = "idle" /\ cmd.ctx = NoCtx /\ configured = backend /\ NoCtx \notin Ctx
      /\ children \in [Node -> Seq(Node)] /\ scene \in [Ctx -> Node \union {NoNode}]
      /\ UNCHANGED <<ctx, ctx_refcount, state, backend, scene>>
  <2>1. Idle /\ UNCHANGED <<ctx, ctx_refcount, state, backend, scene>>
    BY DEF Client, Create, Configure, SetScene, Draw, Free, NodeUnref, AddChild, Toggle, Idle,
       Begin, nodesUnchanged, nodeVars, lifeVars, activityVars, ctxVars, callVars
  <2> QED
    BY <2>1, NodeAssumption DEF Idle, Ordered, Control, NoCmd, TypeOK
<1>2. PICK P \in [Ctx -> SUBSET Paths] : Pathwise(P)
  BY DEF Attachment
<1>3. Accounted(ctx, ctx_refcount, P) /\ \A c \in Ctx : Sound(ctx, c, P[c])
  BY <1>2 DEF Pathwise, Accounted
<1>4. \A c \in Ctx : P[c] = Whole(c)
  BY <1>1, <1>2 DEF Pathwise, Shape, Walking
<1>5. \A n \in Node : state[n] = Uninitialized <=> ctx[n] = NoCtx
  BY DEF Attachment, Tracked
(* A command starts a walk that detaches the scene of its context.         *)
<1>6. ASSUME NEW c \in Ctx, scene[c] # NoNode, stack' = <<DetachCall(scene[c], c)>>,
             cmd'.ctx = c, pc' \in {"conf_backend", "scene_unref", "free_unref"}, children' = children
      PROVE  Attachment'
  <2>1. scene[c] \in Node /\ children' \in [Node -> Seq(Node)]
    BY <1>1, <1>6
  <2>2. Refusable(children', scene[c], P[c])
    BY <1>4, <1>6, AllIsRefusable DEF Whole
  <2>3. /\ Tied' /\ Shape(P[c], c)'
        /\ \A f \in Calls(stack') : f.fn # "visit"
        /\ \A fn, d : Walking(fn, d)' => fn = "detach" /\ d = c
    BY <1>6, <2>1, <2>2, DetachmentStarts
  <2>4. \A d \in Ctx \ {c} : Shape(P[d], d)'
    BY <1>1, <1>4, <1>6, <2>3, OthersStay
  <2>5. Tracked'
    BY <1>1, <1>5, <1>6, <2>3 DEF Tracked
  <2> QED
    BY <1>1, <1>3, <2>3, <2>4, <2>5, AttachmentKept
(* A command starts another walk, or none.                                 *)
<1>7. ASSUME \/ stack' = <<>>
             \/ \E call \in Frame : call.fn \notin {"attach", "detach", "visit"} /\ stack' = <<call>>,
             children' = children,
             \/ pc' \in {"idle", "scene_attach", "free_stop"}
             \/ pc' = "conf_backend" /\ scene[cmd'.ctx] = NoNode
      PROVE  Attachment'
  <2>1. Tied' /\ (\A fn \in {"attach", "detach"} : \A d : ~Walking(fn, d)')
        /\ \A f \in Calls(stack') : f.fn # "visit"
    <3>2. CASE stack' = <<>>
      BY <3>2 DEF Tied, Walking, Calls
    <3>3. CASE stack' # <<>>
      BY <1>7, <3>3, OtherStarts
    <3> QED
      BY <3>2, <3>3
  <2>2. Tracked'
    BY <1>1, <1>5, <1>7, <2>1 DEF Tracked
  <2>3. ASSUME NEW d \in Ctx
        PROVE  Shape(P[d], d)'
    <3>1. CASE pc' \in {"idle", "scene_attach", "free_stop"}
      BY <1>1, <1>4, <1>7, <2>1, <3>1 DEF Shape, Whole
    <3>2. CASE pc' = "conf_backend" /\ scene[cmd'.ctx] = NoNode
      BY <1>1, <1>4, <1>7, <2>1, <3>2 DEF Shape, Whole
    <3> QED
      BY <1>7, <3>1, <3>2
  <2> QED
    BY <1>1, <1>3, <2>1, <2>2, <2>3, AttachmentKept
<1>8. ASSUME NEW c \in Ctx, Create(c)
      PROVE  Attachment'
  BY <1>8, AttachmentStays DEF Create, nodeVars, paramVars, lifeVars, callVars
<1>9. ASSUME NEW c \in Ctx, Configure(c)
      PROVE  Attachment'
  <2>1. /\ children' = children /\ cmd'.ctx = c /\ pc' = "conf_backend"
        /\ scene[c] # NoNode => stack' = <<DetachCall(scene[c], c)>>
        /\ scene[c] = NoNode => stack' = <<>>
    BY <1>1, <1>9 DEF Configure, Begin, Start, Cmd, nodesUnchanged, nodeVars, paramVars
  <2> QED
    BY <1>6, <1>7, <2>1
<1>10. ASSUME NEW c \in Ctx, NEW m \in Node \union {NoNode}, SetScene(c, m)
      PROVE  Attachment'
  <2>1. /\ children' = children /\ cmd'.ctx = c
        /\ scene[c] # NoNode => pc' = "scene_unref" /\ stack' = <<DetachCall(scene[c], c)>>
        /\ scene[c] = NoNode => pc' = "scene_attach" /\ stack' = <<>>
    BY <1>1, <1>10 DEF SetScene, Begin, Start, Cmd, nodesUnchanged, nodeVars, paramVars
  <2> QED
    BY <1>6, <1>7, <2>1
<1>11. ASSUME NEW c \in Ctx, Free(c)
      PROVE  Attachment'
  <2>1. /\ children' = children /\ cmd'.ctx = c
        /\ \/ scene[c] # NoNode /\ pc' = "free_unref" /\ stack' = <<DetachCall(scene[c], c)>>
           \/ pc' = "free_stop" /\ stack' = <<>>
    BY <1>1, <1>11 DEF Free, Begin, Start, Cmd, nodesUnchanged, nodeVars, paramVars
  <2> QED
    BY <1>6, <1>7, <2>1
<1>12. ASSUME NEW m \in Node, NodeUnref(m)
       PROVE  Attachment'
  <2>1. children' = children /\ pc' = "idle" /\ stack' = <<UnrefCall(m)>>
    BY <1>12 DEF NodeUnref, Start, nodeVars, paramVars
  <2>2. UnrefCall(m) \in Frame /\ UnrefCall(m).fn = "unref"
    BY DEF UnrefCall, Call, Frame, Walk
  <2> QED
    BY <1>7, <2>1, <2>2
<1>13. ASSUME NEW m \in Node, Toggle(m)
       PROVE  Attachment'
  BY <1>13, AttachmentStays DEF Toggle, lifeVars, callVars, ctxVars
<1>14. ASSUME NEW c \in Ctx, NEW t \in Time, NEW op \in {"draw", "prepare_draw"}, Draw(op, c, t)
       PROVE  Attachment'
  <2>1. /\ children' = children /\ cmd'.ctx = c /\ pc' = "draw_honor"
        /\ scene[c] \in Node /\ c \in backend
        /\ stack' = <<VisitCall(scene[c], TRUE, t)>> /\ activity'[c] = <<>>
    BY <1>1, <1>14 DEF Draw, Begin, Start, Cmd, nodesUnchanged, nodeVars, paramVars, TypeOK
  <2> DEFINE call == VisitCall(scene[c], TRUE, t)
  <2>2. call \in Frame /\ call.fn = "visit" /\ call.node = scene[c]
    BY <2>1 DEF VisitCall, Call, Frame, Walk
  <2> HIDE DEF call
  <2>3. ctx[scene[c]] = c
    BY <1>3, <1>4, <2>1, RootIsOwned, NodeAssumption DEF Whole
  <2>4. /\ Tied' /\ \A fn \in {"attach", "detach"} : \A d : ~Walking(fn, d)'
        /\ \A f \in Calls(stack') : f = call
    BY <2>1, <2>2, OtherStarts DEF call
  <2>5. Tracked'
    <3>1. DOMAIN activity'[cmd'.ctx] = {}
      BY <2>1
    <3>2. \A f \in Calls(stack') : cmd'.ctx \in Ctx /\ ctx'[f.node] = cmd'.ctx
      BY <1>1, <2>1, <2>2, <2>3, <2>4
    <3> QED
      BY <1>1, <1>5, <3>1, <3>2 DEF Tracked
  <2>6. \A d \in Ctx : Shape(P[d], d)'
    BY <1>1, <1>4, <2>1, <2>4, OthersStay
  <2> QED
    BY <1>1, <1>3, <2>4, <2>5, <2>6, AttachmentKept
<1>15. ASSUME NEW m \in Node, NEW child \in Node, AddChild(m, child)
       PROVE  Attachment'
  <2>1. /\ UNCHANGED <<stack, status, activity, pc, cmd>> /\ ctx[m] = NoCtx
        /\ children' = [children EXCEPT ![m] = Append(@, child)]
    BY <1>15 DEF AddChild, MayExtend, callVars
  <2>2. children' \in [Node -> Seq(Node)] /\ \A n \in Node : n # m => children'[n] = children[n]
    <3>1. Append(children[m], child) \in Seq(Node)
      BY <1>1
    <3> QED
      BY <1>1, <2>1, <3>1
  <2>3. ASSUME NEW c \in Ctx
        PROVE  Shape(P[c], c)'
    <3>1. CASE c \in backend /\ scene[c] # NoNode
      <4>1. Sound(ctx, c, PathsFrom(children, scene[c])) /\ scene[c] \in Node /\ c # NoCtx
        BY <1>1, <1>3, <1>4, <3>1 DEF Whole
      <4> DEFINE g == children
                 h == children'
                 x == ctx
      <4>2. /\ g \in [Node -> Seq(Node)] /\ h \in [Node -> Seq(Node)]
            /\ \A n \in Node : n # m => h[n] = g[n]
            /\ Sound(x, c, PathsFrom(g, scene[c])) /\ x[m] = NoCtx
        BY <1>1, <2>1, <2>2, <4>1
      <4> HIDE DEF g, h, x
      <4>3. PathsFrom(h, scene[c]) = PathsFrom(g, scene[c])
        BY <4>1, <4>2, PathsStay
      <4> QED
        BY <1>1, <1>4, <2>1, <3>1, <4>3 DEF Shape, Whole, Walking, g, h
    <3>2. CASE ~(c \in backend /\ scene[c] # NoNode)
      BY <1>1, <1>4, <2>1, <3>2 DEF Shape, Whole, Walking
    <3> QED
      BY <3>1, <3>2
  <2>4. Tied' /\ Tracked'
    BY <1>1, <1>5, <2>1 DEF Tied, Tracked, Calls
  <2> QED
    BY <1>1, <1>3, <2>3, <2>4, AttachmentKept
<1> QED
  BY <1>8, <1>9, <1>10, <1>11, <1>12, <1>13, <1>14, <1>15 DEF Client

(* ngl_configure, called again on a context, attaches its scene to the new *)
(* backend; when that fails, the scene stays attached in part.             *)
Reattaches == At("conf_attached") => ~Failed

(* The steps of a command between its walks.                               *)
LEMMA CommandAttaches ==
  ASSUME Invariant, Ordered, Attachment, Reattaches, Command, NEW c \in Ctx, c = cmd.ctx
  PROVE  Attachment'
<1> USE DEF Invariant
<1>1. /\ stack = <<>> /\ pc # "idle" /\ ~aborted /\ NoCtx \notin Ctx
      /\ NoCmd.ctx = NoCtx /\ UNCHANGED <<ctx, ctx_refcount, children>>
      /\ children \in [Node -> Seq(Node)] /\ scene \in [Ctx -> Node \union {NoNode}]
      /\ NoNode \notin Node
  BY NodeAssumption DEF Command, BackendConfigured, BackendFails, SceneReattached, UnrefScene,
     AttachScene, SceneAttached, SceneRefused, HonorNext, UpdateScene, DrawScene, FreeContext, At,
     CommandOK, TypeOK, NoCmd, nodesUnchanged, nodeVars, paramVars, lifeVars, HonorNode, HonorFails,
     NodePrefetch, NodeRelease, NodePrefetchFails
<1>2. PICK P \in [Ctx -> SUBSET Paths] : Pathwise(P)
  BY DEF Attachment
<1>3. Accounted(ctx, ctx_refcount, P) /\ \A d \in Ctx : Sound(ctx, d, P[d])
  BY <1>2 DEF Pathwise, Accounted
<1>4. \A d \in Ctx \ {c} : P[d] = Whole(d)
  BY <1>1, <1>2 DEF Pathwise, Shape, Walking
<1>5. Shape(P[c], c) /\ (\A fn, d : ~Walking(fn, d)) /\ P[c] \in SUBSET Paths
  BY <1>1, <1>2 DEF Pathwise, Walking
<1>6. \A n \in Node : state[n] = Uninitialized <=> ctx[n] = NoCtx
  BY DEF Attachment, Tracked
(* No walk is started, or another one.                                     *)
<1>7. ASSUME \/ stack' = <<>>
             \/ \E call \in Frame : call.fn \notin {"attach", "detach", "visit"} /\ stack' = <<call>>
      PROVE  /\ Tied' /\ (\A fn \in {"attach", "detach"} : \A d : ~Walking(fn, d)')
             /\ \A f \in Calls(stack') : f.fn # "visit"
  <2>1. CASE stack' = <<>>
    BY <2>1 DEF Tied, Walking, Calls
  <2>2. CASE stack' # <<>>
    BY <1>7, <2>2, OtherStarts
  <2> QED
    BY <2>1, <2>2
<1>8. ASSUME \/ stack' = <<>>
             \/ \E call \in Frame : call.fn \notin {"attach", "detach", "visit"} /\ stack' = <<call>>,
             pc' \in {"idle", "scene_attach", "draw_draw", "free_stop"}, state' = state,
             \A d \in Ctx \ {c} : (d \in backend' <=> d \in backend) /\ scene'[d] = scene[d],
             P[c] = Whole(c)'
      PROVE  Attachment'
  <2>1. /\ Tied' /\ (\A fn \in {"attach", "detach"} : \A d : ~Walking(fn, d)')
        /\ \A f \in Calls(stack') : f.fn # "visit"
    BY <1>7, <1>8
  <2>2. Tracked'
    BY <1>1, <1>6, <1>8, <2>1 DEF Tracked
  <2>3. \A d \in Ctx \ {c} : Shape(P[d], d)'
    <3>1. Ctx \ {c} \in SUBSET Ctx
      OBVIOUS
    <3> QED
      BY <1>1, <1>4, <1>8, <2>1, <3>1, OthersStay
  <2>4. Shape(P[c], c)'
    BY <1>1, <1>8, <2>1 DEF Shape
  <2> QED
    BY <1>1, <1>3, <2>1, <2>2, <2>3, <2>4, AttachmentKept
<1>9. CASE BackendConfigured
  <2>1. pc = "conf_backend" /\ scene' = scene
        /\ \A d \in Ctx \ {c} : (d \in backend' <=> d \in backend)
    BY <1>9 DEF BackendConfigured, At
  <2>2. P[c] = {}
    BY <1>5, <2>1 DEF Shape
  <2>3. CASE scene[c] # NoNode
    <3>1. /\ scene[c] \in Node /\ stack' = <<AttachCall(scene[c], c)>> /\ pc' = "conf_attached"
          /\ cmd' = cmd /\ state' = state
      BY <1>1, <1>9, <2>3 DEF BackendConfigured, Start, nodesUnchanged, nodeVars, lifeVars
    <3>2. /\ Tied' /\ Shape({}, c)'
          /\ \A f \in Calls(stack') : f.fn # "visit"
          /\ \A fn, d : Walking(fn, d)' => fn = "attach" /\ d = c
      BY <1>1, <3>1, AttachmentStarts
    <3>3. \A d \in Ctx \ {c} : Shape(P[d], d)'
      <4>1. Ctx \ {c} \in SUBSET Ctx
        OBVIOUS
      <4> QED
        BY <1>1, <1>4, <2>1, <3>1, <3>2, <4>1, OthersStay
    <3>4. Tracked'
      BY <1>1, <1>6, <3>1, <3>2 DEF Tracked
    <3> QED
      BY <1>1, <1>3, <2>2, <3>2, <3>3, <3>4, AttachmentKept, ZenonT(60)
  <2>4. CASE scene[c] = NoNode
    <3>1. stack' = <<>> /\ pc' = "idle" /\ state' = state
      BY <1>1, <1>9, <2>4 DEF BackendConfigured, Finish, nodesUnchanged, nodeVars, lifeVars
    <3>2. P[c] = Whole(c)'
      BY <2>1, <2>2, <2>4 DEF Whole
    <3> QED
      BY <1>8, <2>1, <3>1, <3>2
  <2> QED
    BY <2>3, <2>4
<1>10. CASE BackendFails
  <2>1. /\ pc = "conf_backend" /\ scene' = scene /\ backend' = backend \ {c}
        /\ stack' = <<>> /\ pc' = "idle" /\ state' = state
    BY <1>1, <1>10 DEF BackendFails, At, Finish, nodesUnchanged, nodeVars, lifeVars
  <2>2. P[c] = {}
    BY <1>5, <2>1 DEF Shape
  <2>3. P[c] = Whole(c)'
    BY <2>1, <2>2 DEF Whole
  <2> QED
    BY <1>8, <2>1, <2>3
<1>11. CASE SceneReattached
  <2>1. ~Failed /\ pc = "conf_attached"
    BY <1>11 DEF SceneReattached, Reattaches, At
  <2>2. /\ scene' = scene /\ backend' = backend /\ stack' = <<>> /\ pc' = "idle" /\ state' = state
        /\ status = "ok"
    BY <1>1, <1>11, <2>1 DEF SceneReattached, Failed, Finish, nodesUnchanged, nodeVars, lifeVars, TypeOK
  <2>3. P[c] = PathsFrom(children, scene[c])
    BY <1>5, <2>1, <2>2 DEF Shape
  <2>4. c \in backend /\ scene[c] # NoNode
    BY <1>1, <2>1 DEF Ordered, Control, CommandOK
  <2>5. P[c] = Whole(c)'
    BY <1>1, <2>2, <2>3, <2>4 DEF Whole
  <2> QED
    BY <1>8, <2>2, <2>5
<1>12. CASE UnrefScene
  <2>1. /\ pc \in {"scene_unref", "free_unref"} /\ pc' \in {"scene_attach", "free_stop"}
        /\ stack' = <<UnrefCall(scene[c])>> /\ scene' = [scene EXCEPT ![c] = NoNode]
        /\ backend' = backend /\ state' = state
    BY <1>12 DEF UnrefScene, Start, nodesUnchanged, nodeVars, lifeVars
  <2>2. UnrefCall(scene[c]) \in Frame /\ UnrefCall(scene[c]).fn = "unref"
    <3>1. scene[c] \in Node
      BY <2>1 DEF CommandOK
    <3> QED
      BY <3>1 DEF UnrefCall, Call, Frame, Walk
  <2>3. P[c] = {}
    BY <1>5, <2>1 DEF Shape
  <2>4. P[c] = Whole(c)'
    BY <1>1, <2>1, <2>3 DEF Whole
  <2>5. \A d \in Ctx \ {c} : (d \in backend' <=> d \in backend) /\ scene'[d] = scene[d]
    BY <1>1, <2>1
  <2> QED
    BY <1>8, <2>1, <2>2, <2>4, <2>5
<1>13. CASE AttachScene
  <2>1. pc = "scene_attach" /\ scene' = scene /\ backend' = backend /\ state' = state
    BY <1>13 DEF AttachScene, At, ctxVars, nodesUnchanged, nodeVars, lifeVars
  <2>2. P[c] = {} /\ P[c] = Whole(c)'
    BY <1>5, <1>1, <2>1 DEF Shape, Whole, Ordered, Control
  <2>3. CASE cmd.node # NoNode
    <3>1. /\ cmd.node \in Node /\ stack' = <<AttachCall(cmd.node, c)>> /\ pc' = "scene_attached"
          /\ cmd' = cmd
      BY <1>13, <2>3 DEF AttachScene, Start, TypeOK, CmdData
    <3>2. /\ Tied' /\ Shape({}, c)'
          /\ \A f \in Calls(stack') : f.fn # "visit"
          /\ \A fn, d : Walking(fn, d)' => fn = "attach" /\ d = c
      BY <1>1, <3>1, AttachmentStarts
    <3>3. \A d \in Ctx \ {c} : Shape(P[d], d)'
      <4>1. Ctx \ {c} \in SUBSET Ctx
        OBVIOUS
      <4> QED
        BY <1>1, <1>4, <2>1, <3>1, <3>2, <4>1, OthersStay, ZenonT(60)
    <3>4. Tracked'
      BY <1>1, <1>6, <2>1, <3>1, <3>2 DEF Tracked
    <3> QED
      BY <1>1, <1>3, <2>2, <3>2, <3>3, <3>4, AttachmentKept, ZenonT(60)
  <2>4. CASE cmd.node = NoNode
    <3>1. stack' = <<>> /\ pc' = "idle"
      BY <1>1, <1>13, <2>4 DEF AttachScene, Finish
    <3> QED
      BY <1>8, <2>1, <2>2, <3>1
  <2> QED
    BY <2>3, <2>4
<1>14. CASE SceneAttached
  <2>1. /\ pc = "scene_attached" /\ status = "ok" /\ stack' = <<>> /\ pc' = "idle" /\ state' = state
        /\ scene' = [scene EXCEPT ![c] = cmd.node] /\ backend' = backend
    BY <1>1, <1>14 DEF SceneAttached, At, Failed, Finish, lifeVars, callVars, TypeOK
  <2>2. P[c] = PathsFrom(children, cmd.node) /\ c \in backend /\ cmd.node # NoNode
    BY <1>1, <1>5, <2>1 DEF Shape, Ordered, Control, CommandOK
  <2>3. P[c] = Whole(c)'
    BY <1>1, <2>1, <2>2 DEF Whole
  <2>4. \A d \in Ctx \ {c} : (d \in backend' <=> d \in backend) /\ scene'[d] = scene[d]
    BY <1>1, <2>1
  <2> QED
    BY <1>8, <2>1, <2>3, <2>4
<1>15. CASE SceneRefused
  <2>1. /\ pc = "scene_attached" /\ stack' = <<DetachCall(cmd.node, c)>> /\ pc' = "idle"
        /\ state' = state /\ scene' = scene /\ backend' = backend /\ cmd.node \in Node
        /\ children' \in [Node -> Seq(Node)]
    BY <1>1, <1>15 DEF SceneRefused, At, Finish, ctxVars, nodesUnchanged, nodeVars, lifeVars, CommandOK
  <2>2. Refusable(children', cmd.node, P[c])
    BY <1>1, <1>5, <2>1 DEF Shape
  <2>3. /\ Tied' /\ Shape(P[c], c)'
        /\ \A f \in Calls(stack') : f.fn # "visit"
        /\ \A fn, d : Walking(fn, d)' => fn = "detach" /\ d = c
    BY <1>1, <2>1, <2>2, DetachmentStarts
  <2>4. \A d \in Ctx \ {c} : Shape(P[d], d)'
    <3>1. Ctx \ {c} \in SUBSET Ctx
      OBVIOUS
    <3> QED
      BY <1>1, <1>4, <2>1, <2>3, <3>1, OthersStay, ZenonT(60)
  <2>5. Tracked'
    BY <1>1, <1>6, <2>1, <2>3 DEF Tracked
  <2> QED
    BY <1>1, <1>3, <2>3, <2>4, <2>5, AttachmentKept
<1>16. CASE HonorNext
  <2>1. /\ pc = "draw_honor" /\ activity[c] # <<>> /\ activity \in [Ctx -> Seq(Node)]
        /\ scene' = scene /\ backend' = backend
    BY <1>16 DEF HonorNext, At, ctxVars, TypeOK
  <2>2. P[c] = Whole(c)
    BY <1>5, <2>1 DEF Shape
  <2> DEFINE n == Head(activity[c])
  <2>3. /\ n \in Node /\ ctx[n] = c /\ Tail(activity[c]) \in Seq(Node)
        /\ \A i \in DOMAIN Tail(activity[c]) : ctx[Tail(activity[c])[i]] = c
    <3> DEFINE a == activity[c]
    <3>1. a \in Seq(Node) /\ a # <<>> /\ \A i \in DOMAIN a : ctx[a[i]] = c
      BY <1>1, <2>1 DEF Attachment, Tracked
    <3> HIDE DEF a
    <3>2. Len(a) \in Nat \ {0} /\ Head(a) = a[1] /\ Head(a) \in Node
          /\ Tail(a) \in Seq(Node) /\ Len(Tail(a)) = Len(a) - 1
          /\ \A i \in 1 .. Len(a) - 1 : Tail(a)[i] = a[i + 1]
      BY <3>1, EmptySeq, HeadTailProperties
    <3>3. DOMAIN a = 1 .. Len(a) /\ DOMAIN Tail(a) = 1 .. Len(a) - 1
      BY <3>1, <3>2
    <3>4. ctx[Head(a)] = c
      BY <3>1, <3>2, <3>3
    <3>5. \A i \in 1 .. Len(a) - 1 : i + 1 \in 1 .. Len(a)
      BY <3>2
    <3> QED
      BY <3>1, <3>2, <3>3, <3>4, <3>5 DEF a
  <2>4. CASE /\ HonorNode(n)
             /\ activity' = [activity EXCEPT ![c] = Tail(@)]
             /\ UNCHANGED <<pc, cmd>>
    <3>1. stack' = stack /\ \E s \in State : s # Uninitialized /\ state' = [state EXCEPT ![n] = s]
      <4>1. state[n] # Uninitialized /\ state[n] \in State
        BY <1>1, <1>6, <2>3 DEF TypeOK
      <4> QED
        BY <2>4, <4>1 DEF HonorNode, NodePrefetch, NodeRelease, callVars, State, Ready,
           Initialized, Uninitialized
    <3>2. \A m \in Node : state'[m] = Uninitialized <=> ctx'[m] = NoCtx
      BY <1>1, <1>6, <2>3, <3>1 DEF TypeOK
    <3>3. activity'[c] = Tail(activity[c])
      BY <1>1, <2>1, <2>4
    <3>4. Tracked'
      <4>1. Calls(stack') = {} /\ cmd'.ctx = c /\ ctx' = ctx
        BY <1>1, <2>4, <3>1 DEF Calls
      <4>2. \A i \in DOMAIN activity'[cmd'.ctx] : ctx'[activity'[cmd'.ctx][i]] = cmd'.ctx
        BY <2>3, <3>3, <4>1
      <4> QED
        BY <3>2, <4>1, <4>2 DEF Tracked
    <3>5. Tied' /\ \A fn, d : ~Walking(fn, d)'
      BY <1>1, <3>1 DEF Tied, Walking
    <3>6. \A d \in Ctx : Shape(P[d], d)'
      BY <1>1, <1>4, <2>1, <2>2, <2>4, <3>5 DEF Shape, Whole
    <3> QED
      BY <1>1, <1>3, <3>4, <3>5, <3>6, AttachmentKept
  <2>5. CASE HonorFails(n) /\ Finish
    <3>1. stack' = <<>> /\ pc' = "idle" /\ state' = state
      BY <2>5 DEF HonorFails, Finish, Fail, NodePrefetchFails, lifeVars
    <3>2. P[c] = Whole(c)'
      BY <1>1, <2>1, <2>2 DEF Whole
    <3> QED
      BY <1>8, <2>1, <3>1, <3>2
  <2> QED
    BY <1>16, <2>4, <2>5 DEF HonorNext
<1>17. CASE UpdateScene
  <2>1. /\ pc = "draw_honor" /\ pc' = "draw_draw" /\ stack' = <<UpdateCall(scene[c], cmd.t)>>
        /\ state' = state /\ scene' = scene /\ backend' = backend
    BY <1>17 DEF UpdateScene, At, Start, ctxVars, nodesUnchanged, nodeVars, lifeVars
  <2>2. UpdateCall(scene[c], cmd.t) \in Frame /\ UpdateCall(scene[c], cmd.t).fn = "update"
    <3>1. scene[c] \in Node /\ cmd.t \in Time \union {Unset}
      BY <2>1 DEF CommandOK, TypeOK, CmdData
    <3> QED
      BY <3>1 DEF UpdateCall, Call, Frame, Walk
  <2>3. P[c] = Whole(c)'
    BY <1>1, <1>5, <2>1 DEF Shape, Whole
  <2> QED
    BY <1>8, <2>1, <2>2, <2>3
<1>18. CASE DrawScene
  <2>1. /\ pc = "draw_draw" /\ pc' = "idle"
        /\ stack' = <<>> \/ stack' = <<DrawCall(scene[c])>>
        /\ state' = state /\ scene' = scene /\ backend' = backend
    BY <1>1, <1>18 DEF DrawScene, At, Finish, ctxVars, nodesUnchanged, nodeVars, lifeVars
  <2>2. DrawCall(scene[c]) \in Frame /\ DrawCall(scene[c]).fn = "draw"
    <3>1. scene[c] \in Node
      BY <2>1 DEF CommandOK
    <3> QED
      BY <3>1 DEF DrawCall, Call, Frame, Walk
  <2>3. P[c] = Whole(c)'
    BY <1>1, <1>5, <2>1 DEF Shape, Whole
  <2> QED
    BY <1>8, <2>1, <2>2, <2>3
<1>19. CASE FreeContext
  <2>1. /\ pc = "free_stop" /\ pc' = "idle" /\ stack' = <<>> /\ state' = state
        /\ scene' = [scene EXCEPT ![c] = NoNode] /\ backend' = backend \ {c}
    BY <1>1, <1>19 DEF FreeContext, At, Finish, callVars, nodesUnchanged, nodeVars, lifeVars
  <2>2. P[c] = {}
    BY <1>1, <1>5, <2>1 DEF Shape, Whole, Ordered, Control
  <2>3. P[c] = Whole(c)'
    BY <2>1, <2>2 DEF Whole
  <2>4. \A d \in Ctx \ {c} : (d \in backend' <=> d \in backend) /\ scene'[d] = scene[d]
    BY <1>1, <2>1
  <2> QED
    BY <1>8, <2>1, <2>3, <2>4
<1> QED
  BY <1>9, <1>10, <1>11, <1>12, <1>13, <1>14, <1>15, <1>16, <1>17, <1>18, <1>19 DEF Command

(* The steps of a frame.                                                   *)
LEMMA ActivityAttaches ==
  ASSUME Invariant, Ordered, Attachment, ActivityWalk
  PROVE  Attachment'
<1> USE DEF Invariant
<1>1. /\ stack # <<>> /\ stack \in Seq(Frame) /\ Top.fn \in {"visit", "update", "draw"}
      /\ UNCHANGED <<children, ctx, ctx_refcount, state, backend, scene, pc, cmd>>
      /\ status' \in {status, "error"}
  BY DEF ActivityWalk, ActivityStep, VisitSkips, VisitEnter, VisitChild, VisitLeave,
     UpdateSkips, UpdateEnter, UpdateChild, UpdateLeave, UpdateFails, DrawEnter, DrawChild,
     DrawLeave, Entering, Leaving, Running, CallChild, ctxVars, nodeVars, paramVars, lifeVars,
     Return, Fail, Abort, Descend, SkipChildren, TypeOK
<1>2. PICK P \in [Ctx -> SUBSET Paths] : Pathwise(P)
  BY DEF Attachment
<1>3. /\ OneWalk(stack')
      /\ stack' # <<>> => Alike(Head(stack'), Head(stack))
  BY <1>1, WalkGoes, WalkGoesOn DEF Ordered
<1>4. \A fn \in {"attach", "detach"} : \A d : ~Walking(fn, d) /\ ~Walking(fn, d)'
  BY <1>1, <1>3 DEF Walking, Alike, Top
<1>5. ASSUME NEW d \in Ctx
      PROVE  Shape(P[d], d)'
  BY <1>1, <1>2, <1>4 DEF Pathwise, Shape, Whole
<1>6. Tied'
  BY <1>1, <1>3 DEF Tied, Alike, Top
<1>7. /\ Top \in Frame /\ Top \in Calls(stack) /\ Top.node \in Node
      /\ Top.active \in BOOLEAN /\ Top.t \in Time \union {Unset}
  BY <1>1, RunningCall
(* What a visit queues, and where it goes.                                 *)
<1> DEFINE Visited(s) == \A f \in Calls(s) : f.fn = "visit" => cmd.ctx \in Ctx /\ ctx[f.node] = cmd.ctx
<1>8. Visited(stack)
  BY DEF Attachment, Tracked
<1>9. ASSUME Visited(stack'),
             pc = "draw_honor" =>
               \A i \in DOMAIN activity'[cmd.ctx] : ctx[activity'[cmd.ctx][i]] = cmd.ctx
      PROVE  Attachment'
  <2>1. Tracked'
    BY <1>1, <1>9 DEF Attachment, Tracked
  <2> QED
    BY <1>1, <1>2, <1>5, <1>6, <2>1, AttachmentKept DEF Pathwise
<1>10. activity' = activity /\ pc = "draw_honor" =>
          \A i \in DOMAIN activity'[cmd.ctx] : ctx[activity'[cmd.ctx][i]] = cmd.ctx
  BY DEF Attachment, Tracked
<1>11. stack' = Tail(stack) \/ stack' = <<>> \/ stack' = stack => Visited(stack')
  <2>1. stack' = <<>> => Calls(stack') = {}
    BY DEF Calls
  <2> QED
    BY <1>1, <1>8, <2>1, StackTop
<1>12. ASSUME Top.fn # "visit"
       PROVE  Attachment'
  <2>1. activity' = activity
    BY <1>12 DEF ActivityWalk, ActivityStep, VisitSkips, VisitEnter, VisitChild, VisitLeave,
       UpdateSkips, UpdateEnter, UpdateChild, UpdateLeave, UpdateFails, DrawEnter, DrawChild,
       DrawLeave, Entering, Leaving, Running
  <2>2. \A f \in Calls(stack') : f.fn # "visit"
    <3>1. stack' = <<>> => Calls(stack') = {}
      BY DEF Calls
    <3> QED
      BY <1>3, <1>12, <3>1 DEF OneWalk, Alike, Top
  <2> QED
    BY <1>9, <1>10, <2>1, <2>2
<1>13. CASE VisitSkips
  BY <1>9, <1>10, <1>11, <1>13 DEF VisitSkips, Return
<1>14. CASE VisitEnter
  <2> DEFINE f == [Top EXCEPT !.next = 1, !.queue = ToQueue(Top.node, Top.t),
                              !.active = ChildActive(Top.node, @, Top.t)]
  <2>1. stack' = <<f>> \o Tail(stack) /\ activity' = activity /\ Top.fn = "visit"
    BY <1>14 DEF VisitEnter, Entering, Running
  <2>2. ChildActive(Top.node, Top.active, Top.t) \in BOOLEAN /\ ToQueue(Top.node, Top.t) \in BOOLEAN
    BY <1>7 DEF ChildActive, ToQueue, TypeOK
  <2>3. f \in Frame /\ f.node = Top.node
    BY <1>7, <2>2 DEF Frame
  <2> HIDE DEF f
  <2>4. Calls(stack') \subseteq {f} \union Calls(stack)
    BY <1>1, <2>1, <2>3, StackOperations
  <2>5. Visited(stack')
    BY <1>7, <1>8, <2>1, <2>3, <2>4
  <2> QED
    BY <1>9, <1>10, <2>1, <2>5
<1>15. CASE VisitChild
  <2> DEFINE f == [Top EXCEPT !.next = @ + 1]
             e == VisitCall(NextChild, Top.active, Top.t)
  <2>1. stack' = <<e, f>> \o Tail(stack) /\ activity' = activity /\ Top.fn = "visit"
        /\ Top.next \in 1 .. Len(children[Top.node])
    BY <1>15 DEF VisitChild, CallChild, Running
  <2>2. NextChild \in Node
    BY <1>1, <2>1, RunningCall
  <2>3. f \in Frame /\ f.node = Top.node /\ e \in Frame /\ e.node = NextChild
    BY <1>7, <2>2 DEF VisitCall, Call, Frame, Walk
  <2> HIDE DEF f, e
  <2>4. Calls(stack') \subseteq {e, f} \union Calls(stack)
    BY <1>1, <2>1, <2>3, StackOperations
  <2>5. ctx[Top.node] = cmd.ctx /\ cmd.ctx \in Ctx
    BY <1>7, <1>8, <2>1
  <2>6. ctx[NextChild] = ctx[Top.node]
    <3>1. ctx[Top.node] # NoCtx
      BY <2>5, NodeAssumption
    <3> QED
      BY <1>2, <1>7, <2>1, <3>1, ChildrenAreAttached DEF Attachment, NextChild
  <2>7. Visited(stack')
    BY <1>7, <1>8, <2>1, <2>3, <2>4, <2>5, <2>6
  <2> QED
    BY <1>9, <1>10, <2>1, <2>7
<1>16. CASE VisitLeave
  <2> DEFINE n == Top.node
  <2>1. /\ Top.fn = "visit" /\ stack' = Tail(stack) /\ activity \in [Ctx -> Seq(Node)]
        /\ activity' = IF Top.queue THEN [activity EXCEPT ![ctx[n]] = Append(@, n)] ELSE activity
    BY <1>16 DEF VisitLeave, Leaving, Running, Return, TypeOK
  <2>2. ctx[n] = cmd.ctx /\ cmd.ctx \in Ctx
    BY <1>7, <1>8, <2>1
  <2>3. ASSUME pc = "draw_honor", Top.queue
        PROVE  \A i \in DOMAIN activity'[cmd.ctx] : ctx[activity'[cmd.ctx][i]] = cmd.ctx
    <3> DEFINE a == activity[cmd.ctx]
    <3>1. a \in Seq(Node) /\ n \in Node /\ \A i \in DOMAIN a : ctx[a[i]] = cmd.ctx
      BY <1>7, <2>1, <2>2, <2>3 DEF Attachment, Tracked
    <3>2. activity'[cmd.ctx] = Append(a, n)
      BY <2>1, <2>2, <2>3
    <3> HIDE DEF a
    <3>3. /\ Len(a) \in Nat /\ DOMAIN a = 1 .. Len(a) /\ DOMAIN Append(a, n) = 1 .. Len(a) + 1
          /\ \A i \in 1 .. Len(a) : Append(a, n)[i] = a[i]
          /\ Append(a, n)[Len(a) + 1] = n
      BY <3>1, AppendProperties, LenProperties
    <3>4. \A i \in 1 .. Len(a) + 1 : i \in 1 .. Len(a) \/ i = Len(a) + 1
      BY <3>3
    <3> QED
      BY <2>2, <3>1, <3>2, <3>3, <3>4
  <2> QED
    BY <1>9, <1>10, <1>11, <2>1, <2>3
<1> QED
  BY <1>12, <1>13, <1>14, <1>15, <1>16
  DEF ActivityWalk, ActivityStep, UpdateSkips, UpdateEnter, UpdateChild, UpdateLeave, UpdateFails,
      DrawEnter, DrawChild, DrawLeave, Entering, Leaving, Running

(* While the nodes of a context are attached or detached, the others have  *)
(* their whole scene.                                                      *)
LEMMA OthersAreWhole ==
  ASSUME Invariant, Ordered, stack # <<>>, Top.fn \in {"attach", "detach"}, NEW c \in Ctx, Top.owner = c,
         NEW P \in [Ctx -> SUBSET Paths], Pathwise(P)
  PROVE  /\ \A d \in Ctx \ {c} : P[d] = Whole(d)
         /\ \A d \in Ctx \ {c} : \A s \in P[d] : Along(ctx, s) \subseteq {d}
         /\ \/ pc \in {"conf_backend", "scene_unref", "free_unref", "conf_attached", "scene_attached"}
               /\ c = cmd.ctx
            \/ pc = "idle" /\ scene[c] = NoNode /\ Top.fn = "detach"
<1>1. Top \in Calls(stack)
  BY RunningCall DEF Invariant
<1>2. Top.fn = "attach" => c = cmd.ctx
  BY <1>1 DEF Invariant, CallsOK
<1>3. \/ /\ pc \in {"conf_backend", "scene_unref", "free_unref", "conf_attached", "scene_attached"}
         /\ c = cmd.ctx
      \/ pc = "idle" /\ scene[c] = NoNode /\ Top.fn = "detach"
  BY <1>2 DEF Ordered, WalkStands, Stands
<1>4. \A d \in Ctx \ {c} : P[d] = Whole(d)
  BY <1>3 DEF Pathwise, Shape, Walking
<1>5. ASSUME NEW d \in Ctx \ {c}, NEW s \in P[d]
      PROVE  Along(ctx, s) \subseteq {d}
  <2>1. P[d] = PathsFrom(children, scene[d])
    BY <1>4, <1>5 DEF Whole
  <2>2. Sound(ctx, d, PathsFrom(children, scene[d]))
    BY <2>1 DEF Pathwise, Accounted
  <2> QED
    BY <1>5, <2>1, <2>2, OwnedAlong DEF Along
<1> QED
  BY <1>3, <1>4, <1>5

(* A step of an attachment or a detachment.                                *)
LEMMA WalkAttaches ==
  ASSUME Invariant, Ordered, GraphWalk, stack # <<>>, Top.fn \in {"attach", "detach"},
         NEW c \in Ctx, Top.owner = c, NEW P \in [Ctx -> SUBSET Paths], Pathwise(P),
         children' = children, \A n \in Node : state'[n] = Uninitialized <=> ctx'[n] = NoCtx, Tied',
         NEW Q \in [Ctx -> SUBSET Paths], Accounted(ctx', ctx_refcount', Q),
         \A d \in Ctx \ {c} : Q[d] = P[d], Shape(Q[c], c)'
  PROVE  Attachment'
<1>1. /\ OneWalk(stack') /\ UNCHANGED <<backend, scene, pc, cmd>> /\ stack \in Seq(Frame)
      /\ stack' # <<>> => Alike(Head(stack'), Head(stack))
  BY WalkGoes, WalkGoesOn DEF Ordered, Invariant, TypeOK
<1>2. /\ \A d \in Ctx \ {c} : P[d] = Whole(d)
      /\ \/ c = cmd.ctx /\ pc \notin {"draw_honor", "idle"}
         \/ pc = "idle"
  BY OthersAreWhole
<1>3. \A d \in Ctx \ {c} : ~Walking("attach", d)' /\ ~Walking("detach", d)'
  BY <1>1 DEF Walking, Alike, Top
<1>4. \A d \in Ctx \ {c} : Shape(Q[d], d)'
  <2>1. Ctx \ {c} \in SUBSET Ctx /\ \A d \in Ctx \ {c} : Q[d] = Whole(d)
    BY <1>2
  <2>2. (\A d \in Ctx \ {c} : cmd'.ctx # d) \/ pc' = "idle"
    BY <1>1, <1>2
  <2>3. \A d \in Ctx \ {c} : (d \in backend' <=> d \in backend) /\ scene'[d] = scene[d]
    BY <1>1
  <2> QED
    BY <1>3, <2>1, <2>2, <2>3, OthersStay
<1>5. Tracked'
  <2>1. \A f \in Calls(stack') : f.fn # "visit"
    <3>1. stack' = <<>> => Calls(stack') = {}
      BY DEF Calls
    <3> QED
      BY <1>1, <3>1 DEF OneWalk, Alike, Top
  <2> QED
    BY <1>1, <1>2, <2>1 DEF Tracked
<1>6. Pathwise(Q)'
  BY <1>4 DEF Pathwise
<1> QED
  BY <1>5, <1>6 DEF Attachment

(* The point an attachment has reached.                                    *)
LEMMA AttachedSoFar ==
  ASSUME Invariant, Ordered, Attachment, stack # <<>>, Top.fn = "attach", NEW c \in Ctx, Top.owner = c,
         NEW P \in [Ctx -> SUBSET Paths], Pathwise(P)
  PROVE  /\ children \in [Node -> Seq(Node)] /\ stack \in Seq(Frame) /\ Linked(children, stack)
         /\ Bottom(stack).node \in Node /\ Trail(stack) \in PathsFrom(children, Bottom(stack).node)
         /\ Trail(stack) \in Paths
         /\ End(Trail(stack)) = Top.node /\ Len(Trail(stack)) = Len(stack) /\ Top.next \in Nat
         /\ Attaching(children, Bottom(stack).node, Trail(stack), Top.next, P[c])
         /\ Refusable(children, Bottom(stack).node, P[c])
         /\ c = cmd.ctx
         /\ \/ pc = "conf_attached" /\ Bottom(stack).node = scene[c]
            \/ pc = "scene_attached" /\ Bottom(stack).node = cmd.node
<1>1. /\ children \in [Node -> Seq(Node)] /\ stack \in Seq(Frame) /\ Linked(children, stack)
      /\ Top.next \in Nat /\ Top \in Calls(stack)
  BY RunningCall DEF Invariant, TypeOK, Attachment, Tied
<1>2. /\ Bottom(stack).node \in Node /\ Trail(stack) \in PathsFrom(children, Bottom(stack).node)
      /\ End(Trail(stack)) = Top.node /\ Len(Trail(stack)) = Len(stack)
  BY <1>1, FramesTyped, TrailIsPath DEF Top
<1>3. Attaching(children, Bottom(stack).node, Trail(stack), Top.next, P[c])
  BY DEF Pathwise, Shape, Walking
<1>4. Refusable(children, Bottom(stack).node, P[c])
  BY <1>1, <1>2, <1>3, AttachingFails
<1>5. c = cmd.ctx
  BY <1>1 DEF Invariant, CallsOK
<1>6. \/ pc = "conf_attached" /\ Bottom(stack).node = scene[c]
      \/ pc = "scene_attached" /\ Bottom(stack).node = cmd.node
  BY <1>5 DEF Ordered, WalkStands, Stands
<1>7. Trail(stack) \in Paths
  BY <1>2 DEF PathsFrom
<1> QED
  BY <1>1, <1>2, <1>3, <1>4, <1>5, <1>6, <1>7

(* What its next step leaves.                                              *)
LEMMA AttachmentGoesOn ==
  ASSUME NEW c, NEW Q, stack' # <<>>, Head(stack').fn = "attach", Head(stack').owner = c,
         Linked(children', stack'),
         Attaching(children', Bottom(stack').node, Trail(stack'), Head(stack').next, Q)
  PROVE  Tied' /\ Shape(Q, c)'
  BY DEF Tied, Shape, Walking, Top

LEMMA AttachmentReturns ==
  ASSUME NEW c, NEW Q, NEW n, stack' = <<>>, c = cmd'.ctx,
         \/ pc' = "conf_attached" /\ n = scene'[c]
         \/ pc' = "scene_attached" /\ n = cmd'.node,
         Refusable(children', n, Q), status' = "ok" => Q = PathsFrom(children', n)
  PROVE  Tied' /\ Shape(Q, c)'
  BY DEF Tied, Shape, Walking, Top

(* The steps of an attachment.                                             *)
LEMMA AttachAttaches ==
  ASSUME Invariant, Ordered, Attachment, GraphWalk, stack # <<>>, Top.fn = "attach",
         NEW c \in Ctx, Top.owner = c
  PROVE  Attachment'
<1>1. PICK P \in [Ctx -> SUBSET Paths] : Pathwise(P)
  BY DEF Attachment
<1> DEFINE g == children
           r == Bottom(stack).node
           t == Trail(stack)
<1>2. /\ g \in [Node -> Seq(Node)] /\ stack \in Seq(Frame) /\ Linked(g, stack)
      /\ r \in Node /\ t \in PathsFrom(g, r) /\ t \in Paths
      /\ End(t) = Top.node /\ Len(t) = Len(stack) /\ Top.next \in Nat
      /\ Attaching(g, r, t, Top.next, P[c]) /\ Refusable(g, r, P[c])
      /\ c = cmd.ctx
      /\ \/ pc = "conf_attached" /\ r = scene[c]
         \/ pc = "scene_attached" /\ r = cmd.node
  BY <1>1, AttachedSoFar
<1>3. /\ AttachEnter \/ AttachChild \/ AttachSucceeds \/ AttachFails
      /\ UNCHANGED <<children, backend, scene, pc, cmd>>
  BY DEF GraphWalk, GraphStep, AttachEnter, AttachChild, AttachSucceeds, AttachFails,
     DetachSkipsOther, DetachEnter, DetachEnterUninit, DetachChild, DetachLeave,
     UnrefEnter, UnrefChild, UnrefLeave, Entering, Leaving, Running, CallChild,
     nodeVars, paramVars, ctxVars
<1>4. /\ Top = Head(stack) /\ Top \in Frame /\ Top.node \in Node
      /\ Top.next \in 1 .. Len(g[Top.node]) => NextChild \in Node
  BY RunningCall DEF Invariant, Top
<1>5. \A n \in Node : state[n] = Uninitialized <=> ctx[n] = NoCtx
  BY DEF Attachment, Tracked
<1>6. Accounted(ctx, ctx_refcount, P)
  BY <1>1 DEF Pathwise
<1> HIDE DEF g, r, t
(* It fails.                                                               *)
<1>7. ASSUME stack' = <<>>, status' = "error", UNCHANGED <<ctx, ctx_refcount, state>>
      PROVE  Attachment'
  <2>1. Tied' /\ Shape(P[c], c)'
    BY <1>2, <1>3, <1>7, AttachmentReturns DEF g
  <2> QED
    BY <1>1, <1>3, <1>5, <1>6, <1>7, <2>1, WalkAttaches
(* It goes on.                                                             *)
<1>8. ASSUME stack' # <<>>, Head(stack').fn = "attach", Head(stack').owner = c, Linked(g, stack'),
             Bottom(stack').node = r, Attaching(g, r, Trail(stack'), Head(stack').next, P[c]),
             UNCHANGED <<ctx, ctx_refcount, state>>
      PROVE  Attachment'
  <2>1. Tied' /\ Shape(P[c], c)'
    BY <1>3, <1>8, AttachmentGoesOn DEF g
  <2> QED
    BY <1>1, <1>3, <1>5, <1>6, <1>8, <2>1, WalkAttaches
<1>9. CASE AttachEnter
  <2>1. Top.next = 0 /\ UNCHANGED <<ctx, ctx_refcount, state>>
    BY <1>9 DEF AttachEnter, Entering, nodeVars, lifeVars
  <2>2. CASE Fail
    BY <1>7, <2>1, <2>2 DEF Fail
  <2>3. CASE Descend
    <3>1. stack' = <<[Head(stack) EXCEPT !.next = 1]>> \o Tail(stack)
      BY <1>4, <2>3 DEF Descend
    <3>2. /\ stack' # <<>> /\ Linked(g, stack') /\ Trail(stack') = t
          /\ Bottom(stack').node = r /\ Head(stack') = [Head(stack) EXCEPT !.next = 1]
      <4> DEFINE f == [Head(stack) EXCEPT !.next = 1]
      <4>1. f \in Frame /\ f.node = Head(stack).node /\ stack' = <<f>> \o Tail(stack)
        BY <1>4, <3>1 DEF Frame
      <4> HIDE DEF f
      <4>2. /\ stack' # <<>> /\ Linked(g, stack') /\ Trail(stack') = t
            /\ Bottom(stack').node = r /\ Head(stack') = f
        BY <1>2, <4>1, FramesTyped, TrailGoesOn DEF r, t
      <4> QED
        BY <4>2 DEF f
    <3>3. Head(stack').fn = "attach" /\ Head(stack').owner = c /\ Head(stack').next = 1
      BY <1>4, <3>2 DEF Frame
    <3>4. Attaching(g, r, t, 1, P[c])
      BY <1>2, <2>1, AttachingEnters
    <3> QED
      BY <1>8, <2>1, <3>2, <3>3, <3>4
  <2> QED
    BY <1>9, <2>2, <2>3 DEF AttachEnter
<1>10. CASE AttachChild
  <2> DEFINE e == AttachCall(NextChild, Top.owner)
             i == Top.next
  <2>1. /\ i \in 1 .. Len(g[Top.node]) /\ UNCHANGED <<ctx, ctx_refcount, state>>
        /\ stack' = <<e, [Head(stack) EXCEPT !.next = i + 1]>> \o Tail(stack)
    BY <1>4, <1>10 DEF AttachChild, CallChild, nodeVars, lifeVars, g
  <2>2. e \in Frame /\ e.fn = "attach" /\ e.owner = c /\ e.next = 0 /\ e.node = g[Head(stack).node][i]
    BY <1>4, <2>1 DEF AttachCall, Call, Frame, Walk, NextChild, g
  <2> HIDE DEF e, i
  <2>3. /\ stack' # <<>> /\ Linked(g, stack') /\ Trail(stack') = Longer(g, t, i)
        /\ Bottom(stack').node = r /\ Head(stack') = e
    BY <1>2, <1>4, <2>1, <2>2, FramesTyped, TrailGetsLonger DEF r, t
  <2>4. Attaching(g, r, Longer(g, t, i), 0, P[c])
    BY <1>2, <2>1, AttachingCalls DEF i
  <2> QED
    BY <1>8, <2>1, <2>2, <2>3, <2>4
<1>11. CASE AttachFails
  <2>1. /\ state[Top.node] = Uninitialized /\ ctx' = [ctx EXCEPT ![Top.node] = NoCtx]
        /\ UNCHANGED <<ctx_refcount, state>> /\ stack' = <<>> /\ status' = "error"
    BY <1>11 DEF AttachFails, Fail
  <2>2. ctx' = ctx
    BY <1>4, <1>5, <2>1 DEF Invariant, TypeOK
  <2> QED
    BY <1>7, <2>1, <2>2
<1>12. CASE AttachSucceeds
  <2> DEFINE x == Len(g[Top.node]) + 1
  <2>1. /\ Top.next = x /\ ctx' = [ctx EXCEPT ![Top.node] = c] /\ status' = status
        /\ ctx_refcount' = [ctx_refcount EXCEPT ![Top.node] = @ + 1]
        /\ stack' = Tail(stack)
        /\ state' = [state EXCEPT ![Top.node] = IF @ = Uninitialized THEN StateAfterInit(Top.node) ELSE @]
    BY <1>12 DEF AttachSucceeds, Leaving, Return, g
  <2>2. PICK Q : Q = [P EXCEPT ![c] = @ \union {t}]
    OBVIOUS
  <2>3. t \notin P[c]
    BY <1>2, NotPast DEF Attaching
  <2>4. Along(ctx, t) \subseteq {c, NoCtx}
    <3> SUFFICES ASSUME NEW m \in 1 .. Len(t)
                 PROVE  ctx[t[m][1]] \in {c, NoCtx}
      BY DEF Along
    <3> DEFINE f == FrameAt(stack, m)
    <3>1. /\ m \in 1 .. Len(stack) /\ Len(stack) \in Nat \ {0} /\ Head(stack) = FrameAt(stack, Len(stack))
          /\ f \in Frame /\ t[m][1] = f.node
      BY <1>2, FramesTyped, FrameType, TrailIsPath DEF t
    <3>2. f \in Calls(stack)
      <4>1. Len(stack) + 1 - m \in DOMAIN stack
        BY <1>2, <3>1
      <4> QED
        BY <4>1 DEF FrameAt, Calls
    <3>3. f.next > 0
      <4>1. CASE m = Len(stack)
        <5>1. Len(g[Top.node]) \in Nat
          BY <1>2, <1>4, GraphType
        <5> QED
          BY <1>4, <2>1, <3>1, <4>1, <5>1
      <4>2. CASE m # Len(stack)
        <5>1. m \in 1 .. Len(stack) - 1
          BY <3>1, <4>2
        <5>2. f.next - 1 \in 1 .. Len(g[f.node])
          BY <1>2, <5>1 DEF Linked
        <5>3. f.next \in Nat /\ f.node \in Node
          BY <3>1 DEF Frame
        <5>4. Len(g[f.node]) \in Nat
          BY <1>2, <5>3, GraphType
        <5> HIDE DEF f
        <5> QED
          BY <5>2, <5>3, <5>4
      <4> QED
        BY <4>1, <4>2
    <3>4. f.fn = "attach" /\ f.owner = c
      BY <1>4, <3>2 DEF Ordered, OneWalk, Alike
    <3> QED
      BY <3>1, <3>2, <3>3, <3>4 DEF Invariant, CallsOK
  <2>5. \A d \in Ctx \ {c} : \A s \in P[d] : Along(ctx, s) \subseteq {d}
    BY <1>1, OthersAreWhole
  <2>6. /\ ctx \in [Node -> Ctx \union {NoCtx}] /\ ctx_refcount \in [Node -> Int]
        /\ \A n \in Node : ctx[n] = NoCtx => ctx_refcount[n] = 0
    BY DEF Invariant, TypeOK, OwnerCounted
  <2>7. Q \in [Ctx -> SUBSET Paths] /\ Accounted(ctx', ctx_refcount', Q)
    BY <1>2, <1>6, <2>1, <2>2, <2>3, <2>4, <2>5, <2>6, AddPath
  <2>8. Q[c] = P[c] \union {t} /\ \A d \in Ctx \ {c} : Q[d] = P[d]
    BY <2>2
  <2>9. \A n \in Node : state'[n] = Uninitialized <=> ctx'[n] = NoCtx
    <3>1. StateAfterInit(Top.node) # Uninitialized
      BY DEF StateAfterInit, Initialized, Ready, Uninitialized
    <3>2. c # NoCtx
      BY NodeAssumption
    <3> QED
      BY <1>4, <1>5, <2>1, <3>1, <3>2 DEF Invariant, TypeOK
  <2>10. Tied' /\ Shape(Q[c], c)'
    <3>1. CASE Len(stack) = 1
      <4>1. stack' = <<>>
        BY <1>2, <2>1, <3>1
      <4>2. Q[c] = PathsFrom(g, r)
        <5>1. Len(t) = 1 /\ Attaching(g, r, t, Len(g[End(t)]) + 1, P[c])
          BY <1>2, <2>1, <3>1
        <5> QED
          BY <1>2, <2>8, <5>1, AttachingEnds
      <4>3. Refusable(g, r, Q[c])
        BY <4>2, AllIsRefusable
      <4> QED
        BY <1>2, <1>3, <4>1, <4>2, <4>3, AttachmentReturns DEF g
    <3>2. CASE Len(stack) # 1
      <4> DEFINE u == Tail(stack)
                 i == Head(u).next - 1
      <4>1. Len(stack) > 1
        <5>1. Len(stack) \in Nat \ {0}
          BY <1>2, FramesTyped, FrameType
        <5>2. \A k \in Nat \ {0} : k # 1 => k > 1
          OBVIOUS
        <5> QED
          BY <3>2, <5>1, <5>2
      <4>2. /\ u \in Seq(Frame) /\ u # <<>> /\ Linked(g, u) /\ Head(u) \in Frame
            /\ i \in 1 .. Len(g[End(Trail(u))]) /\ i + 1 = Head(u).next
            /\ t = Longer(g, Trail(u), i)
            /\ Bottom(u).node = r
        BY <1>2, <4>1, FramesTyped, TrailReturns DEF t, r
      <4> HIDE DEF u, i
      <4>3. Trail(u) \in PathsFrom(g, r)
        BY <1>2, <4>2, FramesTyped, TrailIsPath
      <4>4. Attaching(g, r, Longer(g, Trail(u), i), Len(g[End(Longer(g, Trail(u), i))]) + 1, P[c])
        BY <1>2, <2>1, <4>2
      <4>5. Attaching(g, r, Trail(u), i + 1, P[c] \union {Longer(g, Trail(u), i)})
        BY <1>2, <4>2, <4>3, <4>4, AttachingReturns
      <4>6. Head(u).fn = "attach" /\ Head(u).owner = c
        <5>1. Head(u) \in Calls(stack)
          BY <1>2, <4>2, StackTop DEF u
        <5> QED
          BY <1>4, <5>1 DEF Ordered, OneWalk, Alike
      <4> QED
        BY <1>3, <2>1, <2>8, <4>2, <4>5, <4>6, AttachmentGoesOn DEF g, u
    <3> QED
      BY <3>1, <3>2
  <2> QED
    BY <1>1, <1>3, <2>7, <2>8, <2>9, <2>10, WalkAttaches
<1> QED
  BY <1>3, <1>9, <1>10, <1>11, <1>12

(* The point a detachment has reached, and what its next step leaves.      *)
LEMMA DetachedSoFar ==
  ASSUME Invariant, Ordered, Attachment, stack # <<>>, Top.fn = "detach", NEW c \in Ctx, Top.owner = c,
         NEW P \in [Ctx -> SUBSET Paths], Pathwise(P)
  PROVE  /\ children \in [Node -> Seq(Node)] /\ stack \in Seq(Frame) /\ Linked(children, stack)
         /\ Bottom(stack).node \in Node /\ Trail(stack) \in PathsFrom(children, Bottom(stack).node)
         /\ Trail(stack) \in Paths
         /\ End(Trail(stack)) = Top.node /\ Len(Trail(stack)) = Len(stack) /\ Top.next \in Nat
         /\ Detaching(children, Bottom(stack).node, Trail(stack), Top.next, P[c])
<1>1. /\ children \in [Node -> Seq(Node)] /\ stack \in Seq(Frame) /\ Linked(children, stack)
      /\ Top.next \in Nat
  BY RunningCall DEF Invariant, TypeOK, Attachment, Tied
<1>2. /\ Bottom(stack).node \in Node /\ Trail(stack) \in PathsFrom(children, Bottom(stack).node)
      /\ End(Trail(stack)) = Top.node /\ Len(Trail(stack)) = Len(stack)
  BY <1>1, FramesTyped, TrailIsPath DEF Top
<1>3. Detaching(children, Bottom(stack).node, Trail(stack), Top.next, P[c])
  BY DEF Pathwise, Shape, Walking
<1>4. Trail(stack) \in Paths
  BY <1>2 DEF PathsFrom
<1> QED
  BY <1>1, <1>2, <1>3, <1>4

LEMMA DetachmentGoesOn ==
  ASSUME NEW c, NEW Q, stack' # <<>>, Head(stack').fn = "detach", Head(stack').owner = c,
         Linked(children', stack'),
         Detaching(children', Bottom(stack').node, Trail(stack'), Head(stack').next, Q)
  PROVE  Tied' /\ Shape(Q, c)'
  BY DEF Tied, Shape, Walking, Top

LEMMA DetachmentReturns ==
  ASSUME NEW c, stack' = <<>>,
         \/ pc' \in {"conf_backend", "scene_unref", "free_unref"} /\ c = cmd'.ctx
         \/ pc' = "idle" /\ scene'[c] = NoNode
  PROVE  Tied' /\ Shape({}, c)'
  BY DEF Tied, Shape, Walking, Whole, Top

(* The steps of a detachment.                                              *)
LEMMA DetachAttaches ==
  ASSUME Invariant, Ordered, Attachment, GraphWalk, stack # <<>>, Top.fn = "detach",
         NEW c \in Ctx, Top.owner = c
  PROVE  Attachment'
<1>1. PICK P \in [Ctx -> SUBSET Paths] : Pathwise(P)
  BY DEF Attachment
<1> DEFINE g == children
           r == Bottom(stack).node
           t == Trail(stack)
           u == Tail(stack)
           i == Head(u).next - 1
<1>2. /\ g \in [Node -> Seq(Node)] /\ stack \in Seq(Frame) /\ Linked(g, stack)
      /\ r \in Node /\ t \in PathsFrom(g, r) /\ t \in Paths
      /\ End(t) = Top.node /\ Len(t) = Len(stack) /\ Top.next \in Nat
      /\ Detaching(g, r, t, Top.next, P[c])
  BY <1>1, DetachedSoFar
<1>3. /\ DetachSkipsOther \/ DetachEnter \/ DetachEnterUninit \/ DetachChild \/ DetachLeave
      /\ UNCHANGED <<children, backend, scene, pc, cmd>>
  BY DEF GraphWalk, GraphStep, AttachEnter, AttachChild, AttachSucceeds, AttachFails,
     DetachSkipsOther, DetachEnter, DetachEnterUninit, DetachChild, DetachLeave,
     UnrefEnter, UnrefChild, UnrefLeave, Entering, Leaving, Running, CallChild,
     nodeVars, paramVars, ctxVars
<1>4. /\ Top = Head(stack) /\ Top \in Frame /\ Top.node \in Node
      /\ Top.next \in 1 .. Len(g[Top.node]) => NextChild \in Node
  BY RunningCall DEF Invariant, Top
<1>5. \A n \in Node : state[n] = Uninitialized <=> ctx[n] = NoCtx
  BY DEF Attachment, Tracked
<1>6. Accounted(ctx, ctx_refcount, P) /\ Sound(ctx, c, P[c]) /\ P[c] \subseteq Paths
  BY <1>1 DEF Pathwise, Accounted
<1>7. \/ pc' \in {"conf_backend", "scene_unref", "free_unref"} /\ c = cmd'.ctx
      \/ pc' = "idle" /\ scene'[c] = NoNode
  BY <1>3 DEF Ordered, WalkStands, Stands
<1> HIDE DEF g, r, t
(* It goes on.                                                             *)
<1>8. ASSUME stack' # <<>>, Head(stack').fn = "detach", Head(stack').owner = c, Linked(g, stack'),
             Bottom(stack').node = r, Detaching(g, r, Trail(stack'), Head(stack').next, P[c]),
             UNCHANGED <<ctx, ctx_refcount, state>>
      PROVE  Attachment'
  <2>1. Tied' /\ Shape(P[c], c)'
    BY <1>3, <1>8, DetachmentGoesOn DEF g
  <2> QED
    BY <1>1, <1>3, <1>5, <1>6, <1>8, <2>1, WalkAttaches
(* It comes to its end.                                                    *)
<1>9. ASSUME stack' = <<>>, P[c] = {}, UNCHANGED <<ctx, ctx_refcount, state>>
      PROVE  Attachment'
  <2>1. Tied' /\ Shape(P[c], c)'
    BY <1>7, <1>9, DetachmentReturns
  <2> QED
    BY <1>1, <1>3, <1>5, <1>6, <1>9, <2>1, WalkAttaches
(* A call returns.                                                         *)
<1>10. Len(stack) \in Nat \ {0} /\ (Len(stack) = 1 => u = <<>>) /\ \A k \in Nat \ {0} : k # 1 => k > 1
  BY <1>2, FramesTyped, FrameType, SMTT(30)
<1>11. ASSUME Len(stack) # 1
       PROVE  /\ u # <<>> /\ Linked(g, u) /\ i \in 1 .. Len(g[End(Trail(u))]) /\ i + 1 = Head(u).next
              /\ t = Longer(g, Trail(u), i) /\ Bottom(u).node = r /\ Trail(u) \in PathsFrom(g, r)
              /\ Head(u).fn = "detach" /\ Head(u).owner = c
  <2>1. Len(stack) > 1
    BY <1>10, <1>11
  <2>2. /\ u \in Seq(Frame) /\ u # <<>> /\ Linked(g, u) /\ Head(u) \in Frame
        /\ i \in 1 .. Len(g[End(Trail(u))]) /\ i + 1 = Head(u).next
        /\ t = Longer(g, Trail(u), i)
        /\ Bottom(u).node = r
    BY <1>2, <2>1, FramesTyped, TrailReturns DEF t, r
  <2> HIDE DEF u
  <2>3. Trail(u) \in PathsFrom(g, r)
    BY <1>2, <2>2, FramesTyped, TrailIsPath
  <2>4. Head(u).fn = "detach" /\ Head(u).owner = c
    <3>1. Head(u) \in Calls(stack)
      BY <1>2, <2>2, StackTop DEF u
    <3> QED
      BY <1>4, <3>1 DEF Ordered, OneWalk, Alike
  <2> QED
    BY <2>2, <2>3, <2>4
<1> HIDE DEF u, i
<1>12. CASE DetachSkipsOther
  <2>1. /\ Top.next = 0 /\ ctx[Top.node] \notin {c, NoCtx} /\ stack' = u
        /\ UNCHANGED <<ctx, ctx_refcount, state>>
    BY <1>4, <1>5, <1>12 DEF DetachSkipsOther, Entering, Return, nodeVars, lifeVars, u
  <2>2. ASSUME NEW s \in P[c]
        PROVE  ~Extends(s, t)
    <3>1. SUFFICES ASSUME Extends(s, t)
                   PROVE  FALSE
      OBVIOUS
    <3>2. Len(t) \in 1 .. Len(t) /\ Len(t) \in 1 .. Len(s) /\ s[Len(t)] = t[Len(t)]
      <4>1. Len(t) \in Nat \ {0} /\ Len(s) \in Nat
        BY <1>2, <1>6, PathsType
      <4> QED
        BY <3>1, <4>1 DEF Extends, Agrees
    <3>3. s[Len(t)][1] = Top.node
      BY <1>2, <3>2 DEF End
    <3> QED
      BY <1>6, <2>1, <3>2, <3>3 DEF Sound
  <2>3. CASE Len(stack) = 1
    <3>1. P[c] = {}
      BY <1>2, <2>1, <2>2, <2>3, DetachingEnds
    <3> QED
      BY <1>9, <1>10, <2>1, <2>3, <3>1
  <2>4. CASE Len(stack) # 1
    <3>1. Detaching(g, r, Trail(u), i + 1, P[c])
      <4>1. Detaching(g, r, Longer(g, Trail(u), i), 0, P[c])
            /\ \A s \in P[c] : ~Extends(s, Longer(g, Trail(u), i))
        BY <1>2, <1>11, <2>1, <2>2, <2>4
      <4> QED
        BY <1>2, <1>11, <2>4, <4>1, DetachingSkips
    <3> QED
      BY <1>8, <1>11, <2>1, <2>4, <3>1
  <2> QED
    BY <2>3, <2>4
<1>13. CASE DetachLeave
  <2>1. /\ Top.next = Len(g[End(t)]) + 1 /\ stack' = u
        /\ UNCHANGED <<ctx, ctx_refcount, state>>
    BY <1>2, <1>13 DEF DetachLeave, Leaving, Return, nodeVars, lifeVars, g, u
  <2>2. CASE Len(stack) = 1
    <3>1. P[c] = {}
      BY <1>2, <2>1, <2>2, DetachingEnds
    <3> QED
      BY <1>9, <1>10, <2>1, <2>2, <3>1
  <2>3. CASE Len(stack) # 1
    <3>1. Detaching(g, r, Trail(u), i + 1, P[c])
      <4>1. Detaching(g, r, Longer(g, Trail(u), i), Len(g[End(Longer(g, Trail(u), i))]) + 1, P[c])
        BY <1>2, <1>11, <2>1, <2>3
      <4> QED
        BY <1>2, <1>11, <2>3, <4>1, DetachingReturns
    <3> QED
      BY <1>8, <1>11, <2>1, <2>3, <3>1
  <2> QED
    BY <2>2, <2>3
<1>14. CASE DetachChild
  <2> DEFINE e == DetachCall(NextChild, Top.owner)
             k == Top.next
  <2>1. /\ k \in 1 .. Len(g[Top.node]) /\ UNCHANGED <<ctx, ctx_refcount, state>>
        /\ stack' = <<e, [Head(stack) EXCEPT !.next = k + 1]>> \o Tail(stack)
    BY <1>4, <1>14 DEF DetachChild, CallChild, nodeVars, lifeVars, g
  <2>2. e \in Frame /\ e.fn = "detach" /\ e.owner = c /\ e.next = 0 /\ e.node = g[Head(stack).node][k]
    BY <1>4, <2>1 DEF DetachCall, Call, Frame, Walk, NextChild, g
  <2> HIDE DEF e, k
  <2>3. /\ stack' # <<>> /\ Linked(g, stack') /\ Trail(stack') = Longer(g, t, k)
        /\ Bottom(stack').node = r /\ Head(stack') = e
    BY <1>2, <1>4, <2>1, <2>2, FramesTyped, TrailGetsLonger, ZenonT(60) DEF r, t
  <2>4. Detaching(g, r, Longer(g, t, k), 0, P[c])
    BY <1>2, <2>1, DetachingCalls DEF k
  <2> QED
    BY <1>8, <2>1, <2>2, <2>3, <2>4
(* A call goes on with the children of its node.                           *)
<1>15. ASSUME Top.next = 0, Descend
       PROVE  /\ stack' # <<>> /\ Linked(g, stack') /\ Trail(stack') = t /\ Bottom(stack').node = r
              /\ Head(stack').fn = "detach" /\ Head(stack').owner = c /\ Head(stack').next = 1
              /\ Detaching(g, r, t, 1, P[c] \ {t})
  <2>1. stack' = <<[Head(stack) EXCEPT !.next = 1]>> \o Tail(stack)
    BY <1>4, <1>15 DEF Descend
  <2>2. /\ stack' # <<>> /\ Linked(g, stack') /\ Trail(stack') = t
        /\ Bottom(stack').node = r /\ Head(stack') = [Head(stack) EXCEPT !.next = 1]
    <3> DEFINE f == [Head(stack) EXCEPT !.next = 1]
    <3>1. f \in Frame /\ f.node = Head(stack).node /\ stack' = <<f>> \o Tail(stack)
      BY <1>4, <2>1 DEF Frame
    <3> HIDE DEF f
    <3>2. /\ stack' # <<>> /\ Linked(g, stack') /\ Trail(stack') = t
          /\ Bottom(stack').node = r /\ Head(stack') = f
      BY <1>2, <3>1, FramesTyped, TrailGoesOn DEF r, t
    <3> QED
      BY <3>2 DEF f
  <2>3. Head(stack').fn = "detach" /\ Head(stack').owner = c /\ Head(stack').next = 1
    BY <1>4, <2>2 DEF Frame
  <2>4. Detaching(g, r, t, 1, P[c] \ {t})
    BY <1>2, <1>15, DetachingEnters
  <2> QED
    BY <2>2, <2>3, <2>4
<1>16. CASE DetachEnterUninit
  <2>1. /\ Top.next = 0 /\ ctx[Top.node] = NoCtx /\ Descend
        /\ UNCHANGED <<ctx, ctx_refcount, state>>
    BY <1>4, <1>5, <1>16 DEF DetachEnterUninit, Entering, nodeVars, lifeVars
  <2>2. P[c] \ {t} = P[c]
    <3>1. t \notin P[c]
      BY <1>2, <1>6, <2>1, NodeAssumption DEF Sound
    <3> QED
      BY <3>1
  <2> QED
    BY <1>8, <1>15, <2>1, <2>2
<1>17. CASE DetachEnter
  <2>1. /\ Top.next = 0 /\ ctx[Top.node] = c /\ c # NoCtx
        /\ ctx_refcount' = [ctx_refcount EXCEPT ![Top.node] = @ - 1]
        /\ ctx' = IF ctx_refcount[Top.node] = 1 THEN [ctx EXCEPT ![Top.node] = NoCtx] ELSE ctx
        /\ state' = IF ctx_refcount[Top.node] = 1 THEN [state EXCEPT ![Top.node] = Uninitialized] ELSE state
    BY <1>17, NodeAssumption DEF DetachEnter, Entering, LastOwner, Uninit
  <2>2. Descend
    <3>1. ctx_refcount[Top.node] \in Int /\ ctx_refcount[Top.node] >= 0 /\ ctx_refcount[Top.node] # 0
      BY <1>4, <2>1 DEF Invariant, TypeOK, OwnerCounted
    <3>2. ctx_refcount[Top.node] >= 1
      BY <3>1
    <3> QED
      BY <1>17, <3>2 DEF DetachEnter
  <2>3. t \in P[c]
    <3>1. \E a \in P[c] : End(a) = End(t)
      BY <1>2, <1>4, <1>6, <2>1, AttachedByPath
    <3>2. IsFiniteSet(P[c]) /\ Detaching(g, r, t, 0, P[c])
      BY <1>2, <1>6, <2>1 DEF Accounted
    <3> QED
      BY <1>2, <3>1, <3>2, DetachingFinds
  <2>4. PICK Q : Q = [P EXCEPT ![c] = @ \ {t}]
    OBVIOUS
  <2>5. Q \in [Ctx -> SUBSET Paths] /\ Accounted(ctx', ctx_refcount', Q)
    <3>1. ctx \in [Node -> Ctx \union {NoCtx}] /\ ctx_refcount \in [Node -> Int]
      BY DEF Invariant, TypeOK
    <3> QED
      BY <1>2, <1>6, <2>1, <2>3, <2>4, <3>1, RemovePath
  <2>6. Q[c] = P[c] \ {t} /\ \A d \in Ctx \ {c} : Q[d] = P[d]
    BY <2>4
  <2>7. \A n \in Node : state'[n] = Uninitialized <=> ctx'[n] = NoCtx
    BY <1>4, <1>5, <2>1 DEF Invariant, TypeOK
  <2>8. Tied' /\ Shape(Q[c], c)'
    <3>1. /\ stack' # <<>> /\ Linked(children', stack') /\ Head(stack').fn = "detach"
          /\ Head(stack').owner = c
          /\ Detaching(children', Bottom(stack').node, Trail(stack'), Head(stack').next, Q[c])
      BY <1>3, <1>15, <2>1, <2>2, <2>6 DEF g
    <3> QED
      BY <3>1, DetachmentGoesOn
  <2> QED
    BY <1>1, <1>3, <2>5, <2>6, <2>7, <2>8, WalkAttaches
<1> QED
  BY <1>3, <1>12, <1>13, <1>14, <1>16, <1>17

(* The steps of a node that is freed.                                      *)
LEMMA UnrefAttaches ==
  ASSUME Invariant, Ordered, Attachment, GraphWalk, stack # <<>>, Top.fn = "unref"
  PROVE  Attachment'
<1> USE DEF Invariant
<1>1. /\ stack \in Seq(Frame) /\ pc \in {"idle", "scene_attach", "free_stop"}
      /\ UNCHANGED <<ctx, ctx_refcount, state, backend, scene, pc, cmd>>
      /\ children \in [Node -> Seq(Node)] /\ scene \in [Ctx -> Node \union {NoNode}]
      /\ children' \in [Node -> Seq(Node)] /\ NoCtx \notin Ctx
  <2>1. UNCHANGED <<ctx, ctx_refcount, state, backend, scene, pc, cmd>>
    BY DEF GraphWalk, GraphStep, AttachEnter, AttachChild, AttachSucceeds, AttachFails,
       DetachSkipsOther, DetachEnter, DetachEnterUninit, DetachChild, DetachLeave,
       UnrefEnter, UnrefChild, UnrefLeave, Entering, Leaving, Running, CallChild,
       nodeVars, lifeVars, ctxVars
  <2>2. Invariant'
    BY GraphWalkPreserves
  <2> QED
    BY <2>1, <2>2, NodeAssumption DEF Ordered, WalkStands, Stands, TypeOK
<1>2. PICK P \in [Ctx -> SUBSET Paths] : Pathwise(P)
  BY DEF Attachment
<1>3. Accounted(ctx, ctx_refcount, P) /\ \A c \in Ctx : Sound(ctx, c, P[c])
  BY <1>2 DEF Pathwise, Accounted
<1>4. \A c \in Ctx : P[c] = Whole(c)
  BY <1>1, <1>2 DEF Pathwise, Shape, Walking
<1>5. OneWalk(stack') /\ (stack' # <<>> => Alike(Head(stack'), Head(stack)))
  BY <1>1, WalkGoes, WalkGoesOn DEF Ordered
<1>6. \A f \in Calls(stack') : f.fn = "unref"
  <2>1. stack' = <<>> => Calls(stack') = {}
    BY DEF Calls
  <2> QED
    BY <1>5, <2>1 DEF OneWalk, Alike, Top
<1>7. Tied' /\ \A fn \in {"attach", "detach"} : \A d : ~Walking(fn, d)'
  BY <1>5 DEF Tied, Walking, Alike, Top
<1>8. Tracked'
  BY <1>1, <1>6 DEF Attachment, Tracked
(* A node that has given up its children has no context.                   *)
<1>9. \/ children' = children
      \/ \E n \in Node : /\ ctx[n] = NoCtx
                         /\ \A m \in Node : m # n => children'[m] = children[m]
  <2>1. \/ children' = children
        \/ UnrefLeave
    BY DEF GraphWalk, GraphStep, AttachEnter, AttachChild, AttachSucceeds, AttachFails,
       DetachSkipsOther, DetachEnter, DetachEnterUninit, DetachChild, DetachLeave,
       UnrefEnter, UnrefChild, Entering, Leaving, Running, CallChild, nodeVars, paramVars
  <2>2. CASE UnrefLeave
    <3>1. /\ Top.node \in Node /\ Top \in Calls(stack) /\ Len(children[Top.node]) \in Nat
          /\ Top.next = Len(children[Top.node]) + 1
          /\ children' = [children EXCEPT ![Top.node] = <<>>]
      BY <2>2, RunningCall DEF UnrefLeave, Leaving
    <3>2. ctx[Top.node] = NoCtx
      BY <3>1 DEF Ordered, FreedAreFree
    <3> QED
      BY <1>1, <3>1, <3>2
  <2> QED
    BY <2>1, <2>2
<1>10. ASSUME NEW c \in Ctx
       PROVE  Shape(P[c], c)'
  <2>1. Whole(c)' = Whole(c)
    <3>1. CASE children' = children \/ ~(c \in backend /\ scene[c] # NoNode)
      BY <1>1, <3>1 DEF Whole
    <3>2. ASSUME c \in backend, scene[c] # NoNode, NEW n \in Node, ctx[n] = NoCtx,
                 \A m \in Node : m # n => children'[m] = children[m]
          PROVE  Whole(c)' = Whole(c)
      <4>1. Sound(ctx, c, PathsFrom(children, scene[c])) /\ scene[c] \in Node /\ c # NoCtx
        BY <1>1, <1>3, <1>4, <3>2 DEF Whole
      <4> DEFINE g == children
                 h == children'
                 x == ctx
      <4>2. /\ g \in [Node -> Seq(Node)] /\ h \in [Node -> Seq(Node)]
            /\ \A m \in Node : m # n => h[m] = g[m]
            /\ Sound(x, c, PathsFrom(g, scene[c])) /\ x[n] = NoCtx
        BY <1>1, <3>2, <4>1
      <4> HIDE DEF g, h, x
      <4>3. PathsFrom(h, scene[c]) = PathsFrom(g, scene[c])
        BY <4>1, <4>2, PathsStay
      <4> QED
        BY <1>1, <3>2, <4>3 DEF Whole, g, h
    <3> QED
      BY <1>9, <3>1, <3>2
  <2> QED
    BY <1>1, <1>4, <1>7, <2>1 DEF Shape
<1> QED
  BY <1>1, <1>3, <1>7, <1>8, <1>10, AttachmentKept

LEMMA AttachmentPreserved ==
  Invariant /\ Ordered /\ Attachment /\ Reattaches /\ [Next]_vars => Attachment'
<1> SUFFICES ASSUME Invariant, Ordered, Attachment, Reattaches, [Next]_vars
             PROVE  Attachment'
  OBVIOUS
<1>1. CASE UNCHANGED vars
  BY <1>1, AttachmentStays DEF vars, nodeVars, paramVars, lifeVars, callVars, ctxVars
<1>2. CASE Client
  BY <1>2, ClientAttaches
<1>3. CASE Command
  <2> DEFINE c == cmd.ctx
  <2>1. pc # "idle"
    BY <1>3 DEF Command, BackendConfigured, BackendFails, SceneReattached, UnrefScene,
       AttachScene, SceneAttached, SceneRefused, HonorNext, UpdateScene, DrawScene, FreeContext, At
  <2>2. c \in Ctx
    BY <2>1 DEF Invariant, CommandOK
  <2> HIDE DEF c
  <2> QED
    BY <1>3, <2>2, CommandAttaches DEF c
<1>4. CASE GraphWalk
  <2>1. stack # <<>> /\ Top.fn \in {"attach", "detach", "unref"}
    BY <1>4 DEF GraphWalk, GraphStep, AttachEnter, AttachChild, AttachSucceeds, AttachFails,
       DetachSkipsOther, DetachEnter, DetachEnterUninit, DetachChild, DetachLeave,
       UnrefEnter, UnrefChild, UnrefLeave, Entering, Leaving, Running
  <2>2. CASE Top.fn \in {"attach", "detach"}
    <3> DEFINE c == Top.owner
    <3>1. c \in Ctx
      BY <2>1, <2>2, RunningCall DEF Invariant, CallsOK
    <3> HIDE DEF c
    <3> QED
      BY <1>4, <2>1, <2>2, <3>1, AttachAttaches, DetachAttaches DEF c
  <2>3. CASE Top.fn = "unref"
    BY <1>4, <2>1, <2>3, UnrefAttaches
  <2> QED
    BY <2>1, <2>2, <2>3
<1>5. CASE ActivityWalk
  BY <1>5, ActivityAttaches
<1> QED
  BY <1>1, <1>2, <1>3, <1>4, <1>5 DEF Next

LEMMA AttachmentInitially == Init => Attachment
<1> SUFFICES ASSUME Init
             PROVE  Attachment
  OBVIOUS
<1> DEFINE P == [c \in Ctx |-> {}]
<1>1. P \in [Ctx -> SUBSET Paths] /\ \A c \in Ctx : P[c] = {}
  OBVIOUS
<1> HIDE DEF P
<1>2. Accounted(ctx, ctx_refcount, P)
  <2>1. \A n : EndingAt({}, n) = {}
    BY DEF EndingAt
  <2> QED
    BY <1>1, <2>1, FS_EmptySet DEF Init, Accounted, Sound
<1>3. \A c \in Ctx : Shape(P[c], c)
  BY <1>1 DEF Init, Shape, Whole, Walking
<1>4. Tied /\ Tracked
  BY DEF Init, Tied, Tracked, Calls
<1> QED
  BY <1>1, <1>2, <1>3, <1>4 DEF Attachment, Pathwise

LEMMA AttachmentHolds == Spec /\ []Reattaches => [](Invariant /\ Ordered /\ Attachment)
  BY InitEstablishes, NextPreserves, OrderedInitially, OrderedPreserved, AttachmentInitially,
     AttachmentPreserved, PTL DEF Spec

(* ChildrenOutliveParents: an initialised node has a context, and all its  *)
(* children initialised in that context, at every step of every walk, on   *)
(* any graph, as long as no scene fails to be attached again by an         *)
(* ngl_configure (nodes.c:350-393, api.c).                                 *)
THEOREM ChildrenStayAttached == Spec /\ []Reattaches => []ChildrenOutliveParents
<1>1. Invariant /\ Attachment => ChildrenOutliveParents
  <2> SUFFICES ASSUME Invariant, Attachment, NEW n \in Node, state[n] # Uninitialized
               PROVE  /\ ctx[n] # NoCtx
                      /\ \A i \in DOMAIN children[n] : ctx[children[n][i]] = ctx[n]
    BY DEF ChildrenOutliveParents
  <2>1. PICK P \in [Ctx -> SUBSET Paths] : Pathwise(P)
    BY DEF Attachment
  <2>2. Tied /\ ctx[n] # NoCtx
    BY DEF Attachment, Tracked
  <2>3. DOMAIN children[n] = 1 .. Len(children[n])
    BY DEF Invariant, TypeOK
  <2> QED
    BY <2>1, <2>2, <2>3, ChildrenAreAttached
<1> QED
  BY <1>1, AttachmentHolds, PTL

(* The steps that change the life of a node.                               *)
LEMMA LifeStep ==
  ASSUME Invariant, Ordered, Attachment, Next
  PROVE  NodeLife!Next \/ UNCHANGED NodeLife!vars
<1> USE DEF Invariant
<1>1. \/ UNCHANGED <<state, ctx>>
      \/ GraphWalk /\ (AttachSucceeds \/ AttachFails \/ DetachEnter)
      \/ HonorNext /\ HonorNode(Head(activity[cmd.ctx]))
  <2>1. CASE Client
    BY <2>1 DEF Client, Create, Configure, SetScene, Draw, Free, NodeUnref, AddChild, Toggle,
       nodesUnchanged, nodeVars, lifeVars
  <2>2. CASE Command
    BY <2>2 DEF Command, BackendConfigured, BackendFails, SceneReattached, UnrefScene, AttachScene,
       SceneAttached, SceneRefused, HonorNext, UpdateScene, DrawScene, FreeContext,
       HonorFails, NodePrefetchFails, nodesUnchanged, nodeVars, lifeVars
  <2>3. CASE GraphWalk
    BY <2>3 DEF GraphWalk, GraphStep, AttachEnter, AttachChild, DetachSkipsOther,
       DetachEnterUninit, DetachChild, DetachLeave, UnrefEnter, UnrefChild, UnrefLeave, CallChild,
       nodeVars, lifeVars
  <2>4. CASE ActivityWalk
    BY <2>4 DEF ActivityWalk, ActivityStep, VisitSkips, VisitEnter, VisitChild, VisitLeave,
       UpdateSkips, UpdateEnter, UpdateChild, UpdateLeave, UpdateFails, DrawEnter, DrawChild,
       DrawLeave, CallChild, nodeVars, lifeVars
  <2> QED
    BY <2>1, <2>2, <2>3, <2>4 DEF Next
<1>2. /\ \A n \in Node : state[n] = Uninitialized <=> ctx[n] = NoCtx
      /\ state \in [Node -> State] /\ ctx \in [Node -> Ctx \union {NoCtx}] /\ NoCtx \notin Ctx
  BY NodeAssumption DEF Attachment, Tracked, TypeOK
<1>3. CASE UNCHANGED <<state, ctx>>
  BY <1>3 DEF NodeLife!vars
<1>4. ASSUME stack # <<>>
      PROVE  Top.node \in Node /\ Top \in Calls(stack) /\ Len(children[Top.node]) \in Nat
  BY <1>4, RunningCall
<1>5. CASE AttachSucceeds
  <2> DEFINE n == Top.node
             c == Top.owner
  <2>1. /\ stack # <<>> /\ Top.fn = "attach" /\ Top.next = Len(children[n]) + 1
        /\ ctx' = [ctx EXCEPT ![n] = c]
        /\ state' = [state EXCEPT ![n] = IF @ = Uninitialized THEN StateAfterInit(n) ELSE @]
    BY <1>5 DEF AttachSucceeds, Leaving, Running
  <2>2. n \in Node /\ ctx[n] \in {NoCtx, c} /\ c \in Ctx
    BY <1>4, <2>1 DEF CallsOK
  <2> HIDE DEF n, c
  <2>3. CASE state[n] = Uninitialized
    <3>1. StateAfterInit(n) \in {"INITIALIZED", "READY"}
      BY DEF StateAfterInit, Initialized, Ready
    <3> QED
      BY <1>2, <2>1, <2>2, <2>3, <3>1 DEF NodeLife!Next, NodeLife!NodeInit, Uninitialized
  <2>4. CASE state[n] # Uninitialized
    BY <1>2, <2>1, <2>2, <2>4 DEF NodeLife!vars
  <2> QED
    BY <2>3, <2>4
<1>6. CASE AttachFails
  BY <1>2, <1>6 DEF AttachFails, NodeLife!vars
<1>7. CASE DetachEnter
  <2>1. /\ stack # <<>> /\ state[Top.node] # Uninitialized
        /\ Uninit(Top.node) \/ UNCHANGED <<state, ctx>>
    BY <1>7 DEF DetachEnter, Entering, Running
  <2>2. CASE Uninit(Top.node)
    BY <1>4, <2>1, <2>2 DEF Uninit, Uninitialized, NodeLife!Next, NodeLife!NodeUninit
  <2> QED
    BY <1>3, <2>1, <2>2
<1>8. CASE HonorNext /\ HonorNode(Head(activity[cmd.ctx]))
  <2> DEFINE n == Head(activity[cmd.ctx])
  <2>1. /\ pc = "draw_honor" /\ cmd.ctx \in Ctx /\ activity[cmd.ctx] # <<>>
        /\ activity[cmd.ctx] \in Seq(Node)
        /\ NodePrefetch(n) \/ NodeRelease(n)
    BY <1>8 DEF HonorNext, HonorNode, At, CommandOK, TypeOK
  <2>2. /\ n = activity[cmd.ctx][1] /\ 1 \in DOMAIN activity[cmd.ctx] /\ n \in Node
    BY <2>1
  <2>3. ctx[n] # NoCtx /\ n \in Node
    BY <1>2, <2>1, <2>2 DEF Attachment, Tracked
  <2> HIDE DEF n
  <2>4. state[n] \in {"INITIALIZED", "READY"}
    BY <1>2, <2>3 DEF State, Uninitialized, Initialized, Ready
  <2>5. CASE NodePrefetch(n)
    <3>1. CASE state[n] = "INITIALIZED"
      BY <2>3, <2>5, <3>1 DEF NodePrefetch, NodeLife!Next, NodeLife!NodePrefetch, Ready
    <3>2. CASE state[n] = "READY"
      BY <1>2, <2>3, <2>5, <3>2 DEF NodePrefetch, NodeLife!vars, Ready
    <3> QED
      BY <2>4, <3>1, <3>2
  <2>6. CASE NodeRelease(n)
    <3>1. CASE state[n] = "READY"
      BY <1>2, <2>3, <2>6, <3>1 DEF NodeRelease, NodeLife!Next, NodeLife!NodeRelease, Ready, Initialized
    <3>2. CASE state[n] = "INITIALIZED"
      BY <1>2, <2>3, <2>6, <3>2 DEF NodeRelease, NodeLife!vars, Ready
    <3> QED
      BY <2>4, <3>1, <3>2
  <2> QED
    BY <2>1, <2>5, <2>6
<1> QED
  BY <1>1, <1>3, <1>5, <1>6, <1>7, <1>8

(* LifecycleIsKept: the contexts drive every node through the life cycle   *)
(* of nodes.h (lines 418-453), on any graph and whatever the scenes share, *)
(* as long as no scene fails to be attached again by an ngl_configure.     *)
THEOREM LifecycleIsKept == Spec /\ []Reattaches => Lifecycle
<1>1. Init => NodeLife!Init
  BY DEF Init, NodeLife!Init, Uninitialized
<1>2. Invariant /\ Ordered /\ Attachment /\ [Next]_vars => [NodeLife!Next]_(NodeLife!vars)
  <2>1. UNCHANGED vars => UNCHANGED NodeLife!vars
    BY DEF vars, nodeVars, lifeVars, NodeLife!vars
  <2> QED
    BY <2>1, LifeStep
<1> QED
  BY <1>1, <1>2, AttachmentHolds, PTL DEF Spec, Lifecycle, NodeLife!Spec

(* PathsAreCounted: between two commands a node is in a context exactly    *)
(* when the scene of the context leads to it, and its ctx_refcount is the  *)
(* number of ways it does: node_set_ctx runs once for each, and a node     *)
(* shared by several branches is uninitialised with the last of them.      *)
CountedByPath ==
  Idle => \A n \in Node : \A c \in Ctx :
    /\ ctx[n] = c <=> EndingAt(Whole(c), n) # {}
    /\ ctx[n] = c => ctx_refcount[n] = Cardinality(EndingAt(Whole(c), n))

THEOREM PathsAreCounted == Spec /\ []Reattaches => []CountedByPath
<1>1. Invariant /\ Ordered /\ Attachment => CountedByPath
  <2> SUFFICES ASSUME Invariant, Ordered, Attachment, Idle, NEW n \in Node, NEW c \in Ctx
               PROVE  /\ ctx[n] = c <=> EndingAt(Whole(c), n) # {}
                      /\ ctx[n] = c => ctx_refcount[n] = Cardinality(EndingAt(Whole(c), n))
    BY DEF CountedByPath
  <2>1. PICK P \in [Ctx -> SUBSET Paths] : Pathwise(P)
    BY DEF Attachment
  <2>2. P[c] = Whole(c) /\ Accounted(ctx, ctx_refcount, P) /\ c # NoCtx
    BY <2>1, NodeAssumption DEF Pathwise, Shape, Walking, Idle
  <2>3. ctx[n] = c => EndingAt(P[c], n) # {}
    BY <2>2, AttachedByPath DEF EndingAt
  <2>4. EndingAt(P[c], n) # {} => ctx[n] = c
    BY <2>2 DEF EndingAt, Accounted, Sound
  <2>5. ctx[n] = c => ctx_refcount[n] = Cardinality(EndingAt(P[c], n))
    BY <2>2 DEF Accounted
  <2> QED
    BY <2>2, <2>3, <2>4, <2>5
<1> QED
  BY <1>1, AttachmentHolds, PTL

(* A client that configures each context once: nothing fails to be         *)
(* attached again, and the three results hold of every behaviour.          *)
THEOREM ConfiguredOnceIsEnough ==
  ASSUME ~MayReconfigure
  PROVE  Spec => []ChildrenOutliveParents /\ Lifecycle /\ []CountedByPath
<1>1. Ordered => Reattaches
  BY DEF Ordered, ConfiguredOnce, Reattaches, At
<1>2. Spec => []Reattaches
  BY <1>1, OrderedHolds, PTL
<1> QED
  BY <1>2, ChildrenStayAttached, LifecycleIsKept, PathsAreCounted, PTL

(***************************************************************************)
(* The descendants of a node are the ends of the paths from it             *)
(***************************************************************************)
Below(g, S) == S \union UNION {{g[p][i] : i \in DOMAIN g[p]} : p \in S}

IsDescent(w, g, n) ==
  /\ w \in [0 .. Cardinality(Node) -> SUBSET Node]
  /\ w[0] = {n}
  /\ \A k \in 0 .. Cardinality(Node) - 1 : w[k + 1] = Below(g, w[k])

LEMMA DescentExists ==
  ASSUME IsFiniteSet(Node), children \in [Node -> Seq(Node)], NEW n \in Node
  PROVE  \E w : IsDescent(w, children, n) /\ Descendants(n) = w[Cardinality(Node)]
<1> DEFINE N == Cardinality(Node)
           V == SUBSET Node
           next == [k \in (0 .. N) \ {0} |-> k - 1]
           step == [p \in ((0 .. N) \ {0}) \X V |-> Below(children, p[2])]
           rank == [k \in 0 .. N |-> k]
<1>1. N \in Nat /\ 0 \in 0 .. N
  BY FS_CardinalityType
<1>2. \A S \in V : Below(children, S) \in V
  BY DEF Below
<1> HIDE DEF N
<1>3. /\ {n} \in V /\ next \in [(0 .. N) \ {0} -> 0 .. N] /\ step \in [((0 .. N) \ {0}) \X V -> V]
      /\ rank \in [0 .. N -> Nat] /\ \A k \in (0 .. N) \ {0} : rank[next[k]] < rank[k]
      /\ \A k \in 0 .. N : rank[k] <= N
  <2>1. \A p \in ((0 .. N) \ {0}) \X V : Below(children, p[2]) \in V
    BY <1>2
  <2>2. step \in [((0 .. N) \ {0}) \X V -> V]
    BY <2>1
  <2> QED
    BY <1>1, <2>2
<1> HIDE DEF V
<1>4. PICK f \in [0 .. N -> V] : IsWalk(f, 0 .. N, 0, {n}, next, step)
  <2> HIDE DEF next, step, rank
  <2> QED
    BY <1>1, <1>3, WalkExists
<1>5. f = [k \in 0 .. N |-> IF k = 0 THEN {n} ELSE Below(children, f[k - 1])]
  <2>1. f = [k \in 0 .. N |-> IF k = 0 THEN {n} ELSE step[<<k, f[next[k]]>>]]
    BY <1>4 DEF IsWalk
  <2>2. ASSUME NEW k \in 0 .. N, k # 0
        PROVE  step[<<k, f[next[k]]>>] = Below(children, f[k - 1])
    <3>1. next[k] = k - 1 /\ k - 1 \in 0 .. N
      BY <1>1, <2>2
    <3>2. f[k - 1] \in V
      BY <1>4, <3>1
    <3> QED
      BY <2>2, <3>1, <3>2
  <2> QED
    BY <2>1, <2>2
<1> DEFINE w == CHOOSE v : v = [k \in 0 .. N |-> IF k = 0 THEN {n}
                  ELSE v[k - 1] \union UNION {{children[p][i] : i \in DOMAIN children[p]} : p \in v[k - 1]}]
<1>6. Descendants(n) = w[N]
  BY DEF Descendants, N
<1>7. w = [k \in 0 .. N |-> IF k = 0 THEN {n} ELSE Below(children, w[k - 1])]
  <2>1. \E v : v = [k \in 0 .. N |-> IF k = 0 THEN {n}
                  ELSE v[k - 1] \union UNION {{children[p][i] : i \in DOMAIN children[p]} : p \in v[k - 1]}]
    BY <1>5, Zenon DEF Below
  <2>2. w = [k \in 0 .. N |-> IF k = 0 THEN {n}
                  ELSE w[k - 1] \union UNION {{children[p][i] : i \in DOMAIN children[p]} : p \in w[k - 1]}]
    BY <2>1, Zenon
  <2> HIDE DEF w
  <2> QED
    BY <2>2, Zenon DEF Below
<1> HIDE DEF w
<1>8. \A k \in 0 .. N - 1 : k + 1 \in 0 .. N /\ k + 1 # 0 /\ k + 1 - 1 = k /\ k \in 0 .. N
  BY <1>1
<1>9. w[0] = {n} /\ \A k \in 0 .. N - 1 : w[k + 1] = Below(children, w[k])
  <2>1. \A k \in 0 .. N : w[k] = IF k = 0 THEN {n} ELSE Below(children, w[k - 1])
    BY <1>7
  <2>2. w[0] = {n}
    BY <1>1, <2>1
  <2>3. ASSUME NEW k \in 0 .. N - 1
        PROVE  w[k + 1] = Below(children, w[k])
    BY <1>8, <2>1
  <2> QED
    BY <2>2, <2>3
<1>10. \A k \in 0 .. N : w[k] \in V
  <2> DEFINE G == {k \in 0 .. N : w[k] \in V}
  <2>1. 0 \in G /\ \A k \in 0 .. N - 1 : k \in G => k + 1 \in G
    BY <1>1, <1>2, <1>3, <1>8, <1>9
  <2>2. \A k \in 0 .. N : k \in G
    <3> HIDE DEF G
    <3> QED
      BY <1>1, <2>1, CountingUp
  <2> QED
    BY <2>2
<1>11. w \in [0 .. N -> V]
  <2>1. DOMAIN w = 0 .. N /\ w = [k \in 0 .. N |-> w[k]]
    BY <1>7
  <2> QED
    BY <1>10, <2>1
<1> QED
  BY <1>6, <1>9, <1>11 DEF IsDescent, N, V

(* As there are no more steps than nodes the last one adds nothing.        *)
LEMMA DescentCloses ==
  ASSUME IsFiniteSet(Node), NEW g \in [Node -> Seq(Node)], NEW n \in Node, NEW w, IsDescent(w, g, n)
  PROVE  n \in w[Cardinality(Node)] /\ Below(g, w[Cardinality(Node)]) = w[Cardinality(Node)]
<1> DEFINE N == Cardinality(Node)
           G == {k \in 0 .. N : n \in w[k] /\ (Below(g, w[k]) = w[k] \/ Cardinality(w[k]) >= k + 1)}
<1>1. N \in Nat
  BY FS_CardinalityType
<1>2. /\ w \in [0 .. N -> SUBSET Node] /\ w[0] = {n}
      /\ \A k \in 0 .. N - 1 : w[k + 1] = Below(g, w[k])
  BY DEF IsDescent
<1>3. \A k \in 0 .. N : IsFiniteSet(w[k]) /\ Cardinality(w[k]) \in Nat /\ Cardinality(w[k]) <= N
  <2>1. \A k \in 0 .. N : w[k] \subseteq Node
    BY <1>2
  <2> QED
    BY <2>1, FS_Subset, FS_CardinalityType
<1> HIDE DEF N
<1>4. 0 \in G
  <2>1. Cardinality(w[0]) = 1 /\ n \in w[0]
    BY <1>2, FS_Singleton
  <2>2. 0 \in 0 .. N /\ Cardinality(w[0]) >= 0 + 1
    BY <1>1, <2>1
  <2> QED
    BY <2>1, <2>2
<1>5. ASSUME NEW k \in 0 .. N - 1, k \in G
      PROVE  k + 1 \in G
  <2>1. /\ k \in 0 .. N /\ k + 1 \in 0 .. N /\ w[k + 1] = Below(g, w[k])
        /\ w[k] \subseteq w[k + 1] /\ n \in w[k]
    BY <1>1, <1>2, <1>5 DEF Below
  <2>2. CASE w[k + 1] = w[k]
    BY <2>1, <2>2
  <2>3. CASE w[k + 1] # w[k]
    <3>1. Cardinality(w[k]) < Cardinality(w[k + 1])
      BY <1>3, <2>1, <2>3, FS_Subset, SMTT(30)
    <3>2. Cardinality(w[k]) >= k + 1
      BY <1>5, <2>1, <2>3
    <3>3. Cardinality(w[k + 1]) >= k + 1 + 1
      BY <1>1, <1>3, <2>1, <3>1, <3>2
    <3> QED
      BY <2>1, <3>3
  <2> QED
    BY <2>2, <2>3
<1>6. \A k \in 0 .. N : k \in G
  <2> HIDE DEF G
  <2> QED
    BY <1>1, <1>4, <1>5, CountingUp
<1>7. N \in 0 .. N /\ N \in G
  BY <1>1, <1>6
<1> QED
  BY <1>1, <1>3, <1>7 DEF N

LEMMA DescendantsFound ==
  ASSUME IsFiniteSet(Node), children \in [Node -> Seq(Node)], NEW n \in Node
  PROVE  Descendants(n) = {End(s) : s \in PathsFrom(children, n)}
<1> DEFINE N == Cardinality(Node)
           g == children
           E == {End(s) : s \in PathsFrom(g, n)}
<1>1. PICK w : IsDescent(w, g, n) /\ Descendants(n) = w[N]
  BY DescentExists
<1>2. N \in Nat /\ g \in [Node -> Seq(Node)]
  BY FS_CardinalityType
<1> HIDE DEF g
<1>3. n \in w[N] /\ Below(g, w[N]) = w[N]
  BY <1>1, <1>2, DescentCloses
<1>4. /\ w \in [0 .. N -> SUBSET Node] /\ w[0] = {n}
      /\ \A k \in 0 .. N - 1 : w[k + 1] = Below(g, w[k])
  BY <1>1 DEF IsDescent
<1> HIDE DEF N
<1>5. ASSUME NEW s \in PathsFrom(g, n)
      PROVE  End(s) \in w[N]
  <2>1. /\ s \in Paths /\ s[1] = <<n, 0>> /\ Valid(g, s) /\ Len(s) \in Nat \ {0}
        /\ \A m \in 1 .. Len(s) : s[m][1] \in Node
    BY PathsType DEF PathsFrom
  <2> DEFINE l == Len(s) - 1
             G == {m \in 0 .. l : s[m + 1][1] \in w[N]}
  <2>2. l \in Nat /\ 0 \in G
    BY <1>3, <2>1
  <2>3. ASSUME NEW m \in 0 .. l - 1, m \in G
        PROVE  m + 1 \in G
    <3> DEFINE j == m + 1
    <3>1. j \in 1 .. Len(s) - 1 /\ j \in 1 .. Len(s) /\ m + 1 \in 0 .. l
      BY <2>1, <2>3
    <3>2. s[j][1] \in w[N] /\ s[j][1] \in Node
      BY <2>1, <2>3, <3>1
    <3> HIDE DEF j
    <3>3. s[j + 1][2] \in 1 .. Len(g[s[j][1]]) /\ s[j + 1][1] = g[s[j][1]][s[j + 1][2]]
      BY <2>1, <3>1 DEF Valid
    <3>4. s[j + 1][1] \in Below(g, w[N])
      <4>1. s[j + 1][2] \in DOMAIN g[s[j][1]]
        BY <1>2, <3>2, <3>3
      <4>2. \A q \in w[N] : \A i \in DOMAIN g[q] : g[q][i] \in Below(g, w[N])
        BY DEF Below
      <4> QED
        BY <3>2, <3>3, <4>1, <4>2
    <3> QED
      BY <1>3, <3>1, <3>4 DEF j
  <2>4. \A m \in 0 .. l : m \in G
    <3> HIDE DEF G, l
    <3> QED
      BY <2>2, <2>3, CountingUp
  <2>5. l \in 0 .. l /\ l + 1 = Len(s)
    BY <2>1
  <2>6. s[l + 1][1] \in w[N]
    BY <2>4, <2>5
  <2> QED
    BY <2>5, <2>6 DEF End
<1>6. w[N] \subseteq E
  <2> DEFINE G == {k \in 0 .. N : w[k] \subseteq E}
  <2>1. n \in E
    <3> DEFINE s == <<<<n, 0>>>>
    <3>1. <<n, 0>> \in Node \X Nat
      OBVIOUS
    <3>2. s \in Seq(Node \X Nat) /\ Len(s) = 1 /\ s[1] = <<n, 0>> /\ s # <<>>
      BY <3>1
    <3> HIDE DEF s
    <3>3. Valid(g, s) /\ End(s) = n
      BY <3>2 DEF Valid, End
    <3>4. s \in PathsFrom(g, n)
      BY <3>2, <3>3 DEF PathsFrom, Paths
    <3> QED
      BY <3>3, <3>4
  <2>2. ASSUME NEW k \in 0 .. N - 1, k \in G
        PROVE  k + 1 \in G
    <3>1. /\ k \in 0 .. N /\ k + 1 \in 0 .. N /\ w[k + 1] = Below(g, w[k])
          /\ w[k] \subseteq Node
      BY <1>2, <1>4, <2>2
    <3>2. ASSUME NEW p \in w[k], NEW i \in DOMAIN g[p]
          PROVE  g[p][i] \in E
      <4>1. PICK s \in PathsFrom(g, n) : End(s) = p
        BY <2>2, <3>2
      <4>2. p \in Node /\ i \in 1 .. Len(g[End(s)])
        BY <1>2, <3>1, <3>2, <4>1
      <4>3. Longer(g, s, i) \in PathsFrom(g, n) /\ End(Longer(g, s, i)) = g[End(s)][i]
        BY <1>2, <4>2, LongerPath
      <4> QED
        BY <4>1, <4>3
    <3>3. Below(g, w[k]) \subseteq E
      BY <2>2, <3>2 DEF Below
    <3> QED
      BY <3>1, <3>3
  <2>3. 0 \in G
    BY <1>2, <1>4, <2>1
  <2>4. \A k \in 0 .. N : k \in G
    <3> HIDE DEF G
    <3> QED
      BY <1>2, <2>2, <2>3, CountingUp
  <2>5. N \in 0 .. N
    BY <1>2
  <2> QED
    BY <2>4, <2>5
<1> QED
  BY <1>1, <1>5, <1>6 DEF g

(***************************************************************************)
(* The number of paths to a node                                           *)
(***************************************************************************)
CountsOf(R) == MapThenSumSet(LAMBDA e : ctx_refcount[e[1]], R)

LEMMA CountsAreSummed ==
  ASSUME NEW R, IsFiniteSet(R), NEW f \in [R -> Int], \A e \in R : f[e] = ctx_refcount[e[1]]
  PROVE  \E it : IsSum(it, f, R) /\ CountsOf(R) = it[R]
<1>1. PICK i : IsSum(i, f, R)
  BY SumExists
<1> DEFINE it == CHOOSE it : it = [s \in SUBSET R |-> IF s = {} THEN 0 ELSE
                   LET x == CHOOSE x \in s : TRUE IN ctx_refcount[x[1]] + it[s \ {x}]]
<1>2. \A s \in SUBSET R : s # {} => f[CHOOSE x \in s : TRUE] = ctx_refcount[(CHOOSE x \in s : TRUE)[1]]
  OBVIOUS
<1>3. i = [s \in SUBSET R |-> IF s = {} THEN 0 ELSE
                   LET x == CHOOSE x \in s : TRUE IN ctx_refcount[x[1]] + i[s \ {x}]]
  BY <1>1, <1>2 DEF IsSum
<1>4. it = [s \in SUBSET R |-> IF s = {} THEN 0 ELSE
                   LET x == CHOOSE x \in s : TRUE IN ctx_refcount[x[1]] + it[s \ {x}]]
  <2>1. \E v : v = [s \in SUBSET R |-> IF s = {} THEN 0 ELSE
                   LET x == CHOOSE x \in s : TRUE IN ctx_refcount[x[1]] + v[s \ {x}]]
    BY <1>3, Zenon
  <2> QED
    BY <2>1, Zenon
<1>5. CountsOf(R) = it[R]
  BY DEF CountsOf, MapThenSumSet, MapThenFoldSet
<1> HIDE DEF it
<1>6. IsSum(it, f, R)
  BY <1>2, <1>4 DEF IsSum
<1> QED
  BY <1>5, <1>6

LEMMA ReferenceIsChild ==
  ASSUME NEW g \in [Node -> Seq(Node)], NEW n, NEW e
  PROVE  e \in References(g, n) <=>
           \E p \in Node : \E i \in 1 .. Len(g[p]) : e = <<p, i>> /\ g[p][i] = n
<1>1. \A p \in Node : DOMAIN g[p] = 1 .. Len(g[p])
  OBVIOUS
<1> QED
  BY <1>1 DEF References

(* The paths to a node go through the nodes that refer to it.              *)
Through(W, e, n) == {Append(s, <<n, e[2]>>) : s \in EndingAt(W, e[1])}

LEMMA SizeOfThrough ==
  ASSUME NEW W \in SUBSET Paths, IsFiniteSet(W), NEW n \in Node, NEW p \in Node, NEW i \in Nat
  PROVE  /\ IsFiniteSet(Through(W, <<p, i>>, n))
         /\ Cardinality(Through(W, <<p, i>>, n)) = Cardinality(EndingAt(W, p))
<1> DEFINE S == EndingAt(W, p)
           x == <<n, i>>
           f == [s \in S |-> Append(s, x)]
<1>1. IsFiniteSet(S) /\ S \subseteq Paths
  BY FS_Subset DEF EndingAt
<1>2. x \in Node \X Nat
  OBVIOUS
<1>3. Through(W, <<p, i>>, n) = {f[s] : s \in S}
  BY DEF Through
<1> HIDE DEF S, x
<1>4. ASSUME NEW s \in S, NEW t \in S, f[s] = f[t]
      PROVE  s = t
  <2>1. Append(s, x) = Append(t, x) /\ s \in Seq(Node \X Nat) /\ t \in Seq(Node \X Nat)
    BY <1>1, <1>4, PathsType
  <2> QED
    BY <1>2, <2>1, AppendInjective
<1> HIDE DEF f
<1> QED
  BY <1>1, <1>3, <1>4, ImageSize DEF S

LEMMA ThroughAreDisjoint ==
  ASSUME NEW W \in SUBSET Paths, NEW n \in Node, NEW p \in Node, NEW i \in Nat, NEW q \in Node, NEW j \in Nat,
         <<p, i>> # <<q, j>>
  PROVE  Through(W, <<p, i>>, n) \intersect Through(W, <<q, j>>, n) = {}
<1> SUFFICES ASSUME NEW s \in EndingAt(W, p), NEW t \in EndingAt(W, q),
                    Append(s, <<n, i>>) = Append(t, <<n, j>>)
             PROVE  FALSE
  BY DEF Through
<1>1. s \in Seq(Node \X Nat) /\ t \in Seq(Node \X Nat) /\ End(s) = p /\ End(t) = q
  BY PathsType DEF EndingAt
<1> DEFINE x == <<n, i>>
           y == <<n, j>>
<1>2. x \in Node \X Nat /\ y \in Node \X Nat /\ (x = y => i = j)
  OBVIOUS
<1>3. Append(s, x) = Append(t, y)
  OBVIOUS
<1> HIDE DEF x, y
<1>4. s = t /\ x = y
  BY <1>1, <1>2, <1>3, AppendInjective
<1> QED
  BY <1>1, <1>2, <1>4

LEMMA PathsByParent ==
  ASSUME NEW g \in [Node -> Seq(Node)], NEW r \in Node, NEW n \in Node
  PROVE  LET W == PathsFrom(g, r)
             U == UNION {Through(W, e, n) : e \in References(g, n)}
             root == <<<<r, 0>>>>
         IN  /\ EndingAt(W, n) = IF r = n THEN {root} \union U ELSE U
             /\ root \notin U
<1> DEFINE W == PathsFrom(g, r)
           U == UNION {Through(W, e, n) : e \in References(g, n)}
           root == <<<<r, 0>>>>
<1>1. /\ root \in W /\ End(root) = r /\ Len(root) = 1
      /\ \A s \in W : s[1] = root[1]
      /\ root \in Paths
  <2>1. <<r, 0>> \in Node \X Nat
    OBVIOUS
  <2>2. root \in Seq(Node \X Nat) /\ Len(root) = 1 /\ root[1] = <<r, 0>> /\ root # <<>>
    BY <2>1
  <2> HIDE DEF root
  <2>3. Valid(g, root) /\ End(root) = r
    BY <2>2 DEF Valid, End
  <2> QED
    BY <2>2, <2>3 DEF PathsFrom, Paths
<1> HIDE DEF root
<1>2. ASSUME NEW s \in U
      PROVE  s \in EndingAt(W, n) /\ Len(s) # 1
  <2>1. PICK e \in References(g, n) : s \in Through(W, e, n)
    OBVIOUS
  <2>2. PICK p \in Node : \E i \in 1 .. Len(g[p]) : e = <<p, i>> /\ g[p][i] = n
    BY ReferenceIsChild
  <2>3. PICK i \in 1 .. Len(g[p]) : e = <<p, i>> /\ g[p][i] = n
    BY <2>2
  <2>4. PICK t \in EndingAt(W, p) : s = Append(t, <<n, i>>)
    BY <2>1, <2>3 DEF Through
  <2>5. t \in W /\ End(t) = p /\ t \in Paths /\ Len(t) \in Nat \ {0}
    BY <2>4, PathsType DEF EndingAt, PathsFrom
  <2>6. s = Longer(g, t, i)
    BY <2>3, <2>4, <2>5 DEF Longer
  <2>7. s \in W /\ Len(s) = Len(t) + 1 /\ End(s) = n
    <3>1. i \in 1 .. Len(g[End(t)]) /\ t \in PathsFrom(g, r)
      BY <2>3, <2>5
    <3> HIDE DEF W
    <3>2. /\ Longer(g, t, i) \in PathsFrom(g, r) /\ Len(Longer(g, t, i)) = Len(t) + 1
          /\ Longer(g, t, i)[Len(t) + 1][1] = g[End(t)][i]
      BY <3>1, LongerPath
    <3> QED
      BY <2>3, <2>5, <2>6, <3>2 DEF End, W
  <2> QED
    BY <2>5, <2>7 DEF EndingAt
<1>3. ASSUME NEW s \in EndingAt(W, n), s # root
      PROVE  s \in U
  <2>1. /\ s \in W /\ s \in Paths /\ End(s) = n /\ Valid(g, s) /\ Len(s) \in Nat \ {0}
        /\ s \in Seq(Node \X Nat) /\ \A m \in 1 .. Len(s) : s[m] \in Node \X Nat
    BY PathsType DEF EndingAt, PathsFrom
  <2>2. Len(s) # 1
    <3>1. Len(s) = 1 => Agrees(s, root, 1)
      BY <1>1, <2>1 DEF Agrees
    <3> QED
      BY <1>1, <1>3, <2>1, <3>1, SamePath
  <2> DEFINE j == Len(s) - 1
             t == Upto(s, j)
             p == s[j][1]
             i == s[j + 1][2]
  <2>3. j \in 1 .. Len(s) /\ j + 1 = Len(s) /\ j \in 1 .. Len(s) - 1 /\ Len(s) \in 1 .. Len(s)
    <3>1. \A k \in Nat \ {0} : k # 1 =>
             k - 1 \in 1 .. k /\ k - 1 + 1 = k /\ k - 1 \in 1 .. k - 1 /\ k \in 1 .. k
      OBVIOUS
    <3> QED
      BY <2>1, <2>2, <3>1
  <2>4. /\ t \in Paths /\ Len(t) = j /\ (\A m \in 1 .. j : t[m] = s[m])
        /\ End(t) = p /\ t[1] = s[1]
    BY <2>1, <2>3, PrefixIsPath
  <2>5. t \in W
    <3> HIDE DEF t
    <3>1. Valid(g, t)
      <4>0. \A k \in Nat : \A m \in 1 .. k - 1 : m \in 1 .. k /\ m + 1 \in 1 .. k
        OBVIOUS
      <4>1. \A m \in 1 .. j - 1 : m \in 1 .. j /\ m + 1 \in 1 .. j /\ m \in 1 .. Len(s) - 1
        <5>1. j \in Nat
          BY <2>1, <2>3
        <5> QED
          BY <4>0, <5>1
      <4> HIDE DEF j
      <4> QED
        BY <2>1, <2>4, <4>1 DEF Valid
    <3> QED
      BY <2>1, <2>4, <3>1 DEF PathsFrom
  <2>6. p \in Node /\ i \in 1 .. Len(g[p]) /\ g[p][i] = n
    BY <2>1, <2>3 DEF Valid, End
  <2>7. <<p, i>> \in References(g, n)
    BY <2>6, ReferenceIsChild
  <2>8. s = Append(t, <<n, i>>)
    <3>1. s[Len(s)] = <<n, i>>
      BY <2>1, <2>3 DEF End
    <3> DEFINE x == <<n, i>>
    <3>2. x \in Node \X Nat /\ t \in Seq(Node \X Nat)
      BY <2>1, <2>3, <2>4, <3>1, PathsType
    <3> HIDE DEF x, t, i
    <3>3. Append(t, x) \in Seq(Node \X Nat) /\ Len(Append(t, x)) = Len(s)
          /\ Append(t, x)[Len(s)] = x /\ \A m \in 1 .. j : Append(t, x)[m] = t[m]
      <4>1. Append(t, x) \in Seq(Node \X Nat) /\ Len(Append(t, x)) = Len(t) + 1
            /\ Append(t, x)[Len(t) + 1] = x /\ \A m \in 1 .. Len(t) : Append(t, x)[m] = t[m]
        BY <3>2, AppendProperties
      <4> HIDE DEF j
      <4> QED
        BY <2>3, <2>4, <4>1 DEF t
    <3>4. \A m \in 1 .. Len(s) : m = Len(s) \/ m \in 1 .. j
      <4>1. \A k \in Nat \ {0} : \A m \in 1 .. k : m = k \/ m \in 1 .. k - 1
        OBVIOUS
      <4> QED
        BY <2>1, <4>1
    <3>5. \A m \in 1 .. Len(s) : s[m] = Append(t, x)[m]
      BY <2>4, <3>1, <3>3, <3>4 DEF x
    <3>6. s = Append(t, x)
      BY <2>1, <3>3, <3>5, SeqEqual
    <3> QED
      BY <3>6 DEF x
  <2>9. s \in Through(W, <<p, i>>, n)
    BY <2>4, <2>5, <2>8 DEF Through, EndingAt
  <2> QED
    BY <2>7, <2>9
<1>4. r = n => root \in EndingAt(W, n)
  BY <1>1 DEF EndingAt
<1>5. r # n => root \notin EndingAt(W, n)
  BY <1>1 DEF EndingAt
<1>6. root \notin U
  <2>1. \A s \in U : Len(s) # 1
    BY <1>2
  <2> HIDE DEF U
  <2> QED
    BY <1>1, <2>1
<1>7. EndingAt(W, n) = IF r = n THEN {root} \union U ELSE U
  BY <1>2, <1>3, <1>4, <1>5
<1> QED
  BY <1>6, <1>7 DEF root

(* Between two commands every context has attached its whole scene.        *)
LEMMA WholeWhenIdle ==
  ASSUME Invariant, Ordered, Attachment, Idle
  PROVE  \E P \in [Ctx -> SUBSET Paths] : /\ Pathwise(P) /\ Accounted(ctx, ctx_refcount, P)
                                         /\ \A c \in Ctx : P[c] = Whole(c)
<1>1. PICK P \in [Ctx -> SUBSET Paths] : Pathwise(P)
  BY DEF Attachment
<1>2. \A c \in Ctx : c # NoCtx
  BY NodeAssumption
<1>3. cmd.ctx = NoCtx
  BY DEF Ordered, Control, Idle, NoCmd
<1>4. \A c \in Ctx : P[c] = Whole(c)
  BY <1>1, <1>2, <1>3 DEF Pathwise, Shape, Walking, Idle
<1> QED
  BY <1>1, <1>4 DEF Pathwise

(* A scene with a backend is attached, root first.                         *)
LEMMA SceneIsOwned ==
  ASSUME Invariant, NEW P \in [Ctx -> SUBSET Paths], Accounted(ctx, ctx_refcount, P),
         NEW c \in backend, P[c] = Whole(c), NEW n \in Node, scene[c] = n
  PROVE  ctx[n] = c
<1>1. c \in Ctx /\ n # NoNode
  BY NodeAssumption DEF Invariant, TypeOK
<1>2. Sound(ctx, c, PathsFrom(children, n))
  BY <1>1 DEF Accounted, Whole
<1> QED
  BY <1>2, RootIsOwned

LEMMA AttachedWhenIdle ==
  ASSUME Invariant, Ordered, Attachment
  PROVE  SceneIsAttached
<1> SUFFICES ASSUME Idle, NEW c \in Ctx
             PROVE  {n \in Node : ctx[n] = c} = Attached(c)
  BY DEF SceneIsAttached
<1>1. PICK P \in [Ctx -> SUBSET Paths] : /\ Pathwise(P) /\ Accounted(ctx, ctx_refcount, P)
                                        /\ \A d \in Ctx : P[d] = Whole(d)
  BY WholeWhenIdle
<1>2. c # NoCtx /\ NoNode \notin Node /\ children \in [Node -> Seq(Node)]
      /\ scene \in [Ctx -> Node \union {NoNode}]
  BY NodeAssumption DEF Invariant, TypeOK
<1>3. P[c] \in SUBSET Paths /\ P[c] = Whole(c)
  BY <1>1
<1>4. {n \in Node : ctx[n] = c} = {End(s) : s \in Whole(c)}
  <2>1. ASSUME NEW n \in Node, ctx[n] = c
        PROVE  n \in {End(s) : s \in Whole(c)}
    <3>1. \E s \in P[c] : End(s) = n
      BY <1>1, <1>2, <2>1, AttachedByPath
    <3> QED
      BY <1>3, <3>1
  <2>2. ASSUME NEW s \in Whole(c)
        PROVE  End(s) \in Node /\ ctx[End(s)] = c
    <3>1. s \in P[c] /\ s \in Paths
      BY <1>3, <2>2
    <3>2. End(s) \in Node
      BY <3>1, PathsType
    <3> QED
      BY <1>1, <3>1, <3>2 DEF Accounted, Sound
  <2> QED
    BY <2>1, <2>2
<1>5. CASE scene[c] = NoNode \/ c \notin backend
  BY <1>4, <1>5 DEF Attached, Whole
<1>6. CASE ~(scene[c] = NoNode \/ c \notin backend)
  <2>1. scene[c] \in Node /\ Whole(c) = PathsFrom(children, scene[c]) /\ Attached(c) = Descendants(scene[c])
    BY <1>2, <1>6 DEF Attached, Whole
  <2>2. IsFiniteSet(Node)
    BY ContextAssumption
  <2>3. Descendants(scene[c]) = {End(s) : s \in PathsFrom(children, scene[c])}
    BY <1>2, <2>1, <2>2, DescendantsFound
  <2> QED
    BY <1>4, <2>1, <2>3
<1> QED
  BY <1>5, <1>6

LEMMA CountedWhenIdle ==
  ASSUME Invariant, Ordered, Attachment
  PROVE  CountIsPaths
<1> SUFFICES ASSUME Idle, NEW n \in Node
             PROVE  ctx_refcount[n] = Cardinality({c \in backend : scene[c] = n})
                                      + CountsOf(References(children, n))
  BY DEF CountIsPaths, CountsOf
<1>1. PICK P \in [Ctx -> SUBSET Paths] : /\ Pathwise(P) /\ Accounted(ctx, ctx_refcount, P)
                                        /\ \A d \in Ctx : P[d] = Whole(d)
  BY WholeWhenIdle
<1>2. /\ NoCtx \notin Ctx /\ NoNode \notin Node /\ children \in [Node -> Seq(Node)]
      /\ scene \in [Ctx -> Node \union {NoNode}] /\ backend \subseteq Ctx
      /\ ctx \in [Node -> Ctx \union {NoCtx}] /\ ctx_refcount \in [Node -> Int]
  BY NodeAssumption DEF Invariant, TypeOK
<1> DEFINE g == children
           R == References(g, n)
           f == [e \in R |-> ctx_refcount[e[1]]]
           S == {c \in backend : scene[c] = n}
<1>3. \A e \in R : \E p \in Node : \E i \in 1 .. Len(g[p]) : e = <<p, i>> /\ g[p][i] = n
  <2>1. g \in [Node -> Seq(Node)]
    BY <1>2
  <2> HIDE DEF g
  <2> QED
    BY <2>1, ReferenceIsChild
<1>4. IsFiniteSet(R)
  BY <1>2, ReferencesAreFinite
<1>5. f \in [R -> Int] /\ \A e \in R : f[e] = ctx_refcount[e[1]]
  BY <1>2, <1>3
<1>6. \A c \in S : ctx[n] = c
  BY <1>1, <1>2, SceneIsOwned
(* A node that refers to n is in the context of n, or in none.             *)
<1>7. ASSUME NEW p \in Node, NEW i \in 1 .. Len(g[p]), g[p][i] = n, ctx[p] # NoCtx
      PROVE  ctx[n] = ctx[p]
  BY <1>1, <1>7, ChildrenAreAttached DEF Attachment
<1>8. \A p \in Node : ctx[p] = NoCtx <=> ctx_refcount[p] = 0
  BY DEF Invariant, OwnerCounted
<1> HIDE DEF f
<1>9. PICK it : IsSum(it, f, R) /\ CountsOf(R) = it[R]
  BY <1>4, <1>5, CountsAreSummed
<1>10. CASE ctx[n] = NoCtx
  <2>1. ctx_refcount[n] = 0 /\ S = {}
    BY <1>2, <1>6, <1>8, <1>10
  <2>2. \A e \in R : f[e] = 0
    <3> SUFFICES ASSUME NEW e \in R
                 PROVE  f[e] = 0
      OBVIOUS
    <3>1. PICK p \in Node : \E i \in 1 .. Len(g[p]) : e = <<p, i>> /\ g[p][i] = n
      BY <1>3
    <3>2. ctx[p] = NoCtx
      BY <1>7, <1>10, <3>1
    <3> QED
      BY <1>5, <1>8, <3>1, <3>2
  <2> HIDE DEF R, S
  <2>3. it[R] = 0
    BY <1>4, <1>5, <1>9, <2>2, SumOfZeros
  <2> QED
    BY <1>9, <2>1, <2>3, FS_EmptySet DEF R, S
<1>11. CASE ctx[n] # NoCtx
  <2>1. PICK c \in Ctx : c = ctx[n]
    BY <1>2, <1>11
  <2> DEFINE W == P[c]
             r == scene[c]
             F == [e \in R |-> Through(W, e, n)]
             U == UNION {Through(W, e, n) : e \in R}
             root == <<<<r, 0>>>>
  <2>2. W # {} /\ W = Whole(c) /\ W \in SUBSET Paths /\ IsFiniteSet(W) /\ Sound(ctx, c, W)
    <3>1. \E s \in P[ctx[n]] : End(s) = n
      BY <1>1, <1>11, AttachedByPath
    <3> QED
      BY <1>1, <2>1, <3>1 DEF Accounted
  <2>3. c \in backend /\ r \in Node /\ W = PathsFrom(g, r)
    BY <1>2, <2>2 DEF Whole
  <2>4. /\ EndingAt(W, n) = IF r = n THEN {root} \union U ELSE U
        /\ root \notin U
    <3>1. g \in [Node -> Seq(Node)] /\ W = PathsFrom(g, r) /\ r \in Node
      BY <1>2, <2>3
    <3> HIDE DEF g, r, W
    <3>2. LET V == PathsFrom(g, r)
              T == UNION {Through(V, e, n) : e \in References(g, n)}
          IN  /\ EndingAt(V, n) = IF r = n THEN {root} \union T ELSE T
              /\ root \notin T
      BY <3>1, PathsByParent
    <3> QED
      BY <3>1, <3>2
  <2>5. \A p \in Node : ctx[p] = c => ctx_refcount[p] = Cardinality(EndingAt(W, p))
    BY <1>1, <1>2 DEF Accounted
  <2>6. ASSUME NEW e \in R
        PROVE  IsFiniteSet(F[e]) /\ f[e] = Cardinality(F[e])
    <3>1. PICK p \in Node : \E i \in 1 .. Len(g[p]) : e = <<p, i>> /\ g[p][i] = n
      BY <1>3
    <3>2. PICK i \in 1 .. Len(g[p]) : e = <<p, i>> /\ g[p][i] = n
      BY <3>1
    <3>3. i \in Nat /\ F[e] = Through(W, <<p, i>>, n)
      BY <3>2
    <3> HIDE DEF W, F
    <3>4. IsFiniteSet(F[e]) /\ Cardinality(F[e]) = Cardinality(EndingAt(W, p))
      BY <2>2, <3>3, SizeOfThrough
    <3>5. CASE ctx[p] = NoCtx
      <4>1. f[e] = 0
        BY <1>5, <1>8, <3>2, <3>5
      <4>2. EndingAt(W, p) = {}
        BY <1>2, <2>2, <3>5 DEF EndingAt, Sound
      <4> QED
        BY <3>4, <4>1, <4>2, FS_EmptySet
    <3>6. CASE ctx[p] # NoCtx
      BY <1>5, <1>7, <2>1, <2>5, <3>2, <3>4, <3>6
    <3> QED
      BY <3>5, <3>6
  <2>7. ASSUME NEW d \in R, NEW e \in R, d # e
        PROVE  F[d] \intersect F[e] = {}
    <3>1. PICK p \in Node : \E i \in 1 .. Len(g[p]) : d = <<p, i>> /\ g[p][i] = n
      BY <1>3
    <3>2. PICK i \in 1 .. Len(g[p]) : d = <<p, i>>
      BY <3>1
    <3>3. PICK q \in Node : \E j \in 1 .. Len(g[q]) : e = <<q, j>> /\ g[q][j] = n
      BY <1>3
    <3>4. PICK j \in 1 .. Len(g[q]) : e = <<q, j>>
      BY <3>3
    <3>5. i \in Nat /\ j \in Nat /\ F[d] = Through(W, <<p, i>>, n) /\ F[e] = Through(W, <<q, j>>, n)
          /\ <<p, i>> # <<q, j>>
      BY <2>7, <3>2, <3>4
    <3> HIDE DEF W, F
    <3> QED
      BY <2>2, <3>5, ThroughAreDisjoint
  <2>8. U = UNION {F[e] : e \in R}
    OBVIOUS
  <2> HIDE DEF W, F, U, R, r, root, S
  <2>9. IsFiniteSet(U) /\ it[R] = Cardinality(U) /\ Cardinality(U) \in Int
    <3>1. \A e \in R : IsFiniteSet(F[e]) /\ f[e] = Cardinality(F[e])
      BY <2>6
    <3>2. \A d, e \in R : d # e => F[d] \intersect F[e] = {}
      BY <2>7
    <3>3. HaveSizes(F, f, R)
      BY <3>1, <3>2 DEF HaveSizes
    <3>4. U = AllOf(F, R)
      BY <2>8 DEF AllOf
    <3>5. IsFiniteSet(U) /\ it[R] = Cardinality(U)
      BY <1>4, <1>5, <1>9, <3>3, <3>4, SumOfSizes
    <3> QED
      BY <3>5, FS_CardinalityType
  <2>10. ctx_refcount[n] = Cardinality(EndingAt(W, n))
    BY <2>1, <2>5
  <2>11. CASE r = n
    <3>1. S = {c}
      BY <1>6, <2>1, <2>3, <2>11 DEF S, r
    <3>2. Cardinality(S) = 1
      BY <3>1, FS_Singleton
    <3>3. Cardinality(U \union {root}) = Cardinality(U) + 1
      BY <2>4, <2>9, FS_AddElement
    <3>4. {root} \union U = U \union {root}
      OBVIOUS
    <3>5. ctx_refcount[n] = Cardinality(U) + 1
      BY <2>4, <2>10, <2>11, <3>3, <3>4
    <3>6. ctx_refcount[n] = Cardinality(S) + CountsOf(R)
      BY <1>9, <2>9, <3>2, <3>5
    <3> QED
      BY <3>6 DEF R, S
  <2>12. CASE r # n
    <3>1. S = {}
      BY <1>6, <2>1, <2>12 DEF S, r
    <3>2. Cardinality(S) = 0
      BY <3>1, FS_EmptySet
    <3> QED
      BY <1>9, <2>4, <2>9, <2>10, <2>12, <3>2 DEF R, S
  <2> QED
    BY <2>11, <2>12
<1> QED
  BY <1>10, <1>11

(***************************************************************************)
(* References: who holds the nodes                                         *)
(*                                                                         *)
(* The references on a node are the client's, those of the parameters that *)
(* name it, those of the contexts that show it, and the one a release has  *)
(* taken over and not dropped yet.  A node that is being freed holds its   *)
(* children until the walk that frees it has come to them.                 *)
(***************************************************************************)
Freeing(f) == f.fn = "unref" /\ f.next > 0
HeldBy(s, e) == \E f \in Calls(s) : Freeing(f) /\ f.node = e[1] /\ f.next <= e[2]

KeptBy(g, r, s, n) == {e \in References(g, n) : r[e[1]] > 0 \/ HeldBy(s, e)}
Kept(n) == KeptBy(children, refcount, stack, n)
Uses(n) == {c \in Ctx : scene[c] = n}
Own(n)  == IF n \in held THEN 1 ELSE 0
Dropping(s, n) == IF s # <<>> /\ Head(s).fn = "unref" /\ Head(s).next = 0 /\ Head(s).node = n THEN 1 ELSE 0

Balanced ==
  \A n \in Node : refcount[n] = Own(n) + Cardinality(Kept(n)) + Cardinality(Uses(n)) + Dropping(stack, n)

(* Only the running call has not looked at its node yet, and no node is    *)
(* freed twice.                                                            *)
Waiting(s) == \A j \in 1 .. Len(s) - 1 : FrameAt(s, j).fn = "unref" => FrameAt(s, j).next > 0
FreedOnce(s) ==
  \A j, k \in 1 .. Len(s) :
    j < k /\ Freeing(FrameAt(s, j)) /\ Freeing(FrameAt(s, k)) => FrameAt(s, j).node # FrameAt(s, k).node

(* The walks run on live nodes, but for those they free.                   *)
Walked ==
  \A f \in Calls(stack) : /\ f.fn # "unref" => Live(f.node)
                          /\ Freeing(f) => refcount[f.node] = 0

(* The client holds the scene it asks for, until the context does.         *)
NewScene == pc \in {"scene_unref", "scene_attach", "scene_attached"} => cmd.node \in held \union {NoNode}

(* Only the assertion of ngli_node_update can fail.                        *)
Halted == aborted => stack # <<>> /\ Top.fn = "update"

Balance == Balanced /\ Waiting(stack) /\ FreedOnce(stack) /\ Walked /\ NewScene /\ Halted

LEMMA CallsAreFrames ==
  ASSUME NEW s \in Seq(Frame)
  PROVE  Calls(s) = {FrameAt(s, j) : j \in 1 .. Len(s)}
<1>1. Len(s) \in Nat /\ DOMAIN s = 1 .. Len(s)
  OBVIOUS
<1>2. \A k \in Nat : \A j \in 1 .. k : k + 1 - j \in 1 .. k /\ k + 1 - (k + 1 - j) = j
  OBVIOUS
<1>3. \A j \in 1 .. Len(s) : Len(s) + 1 - j \in 1 .. Len(s) /\ Len(s) + 1 - (Len(s) + 1 - j) = j
  BY <1>1, <1>2
<1> QED
  BY <1>1, <1>3 DEF Calls, FrameAt

(* The calls below the running one, and those of the next stack.           *)
LEMMA CallsBelow ==
  ASSUME NEW s \in Seq(Frame), s # <<>>
  PROVE  /\ Calls(s) = {Head(s)} \union Calls(Tail(s))
         /\ Calls(Tail(s)) = {FrameAt(s, j) : j \in 1 .. Len(s) - 1}
<1>1. Len(s) \in Nat \ {0} /\ Head(s) = FrameAt(s, Len(s))
  BY FramesTyped, FrameType
<1>2. \A k \in Nat \ {0} : 1 .. k = {k} \union (1 .. k - 1) /\ (k # 1 => k > 1)
  OBVIOUS
<1>3. 1 .. Len(s) = {Len(s)} \union (1 .. Len(s) - 1) /\ (Len(s) # 1 => Len(s) > 1)
  BY <1>1, <1>2
<1> DEFINE R == {FrameAt(s, j) : j \in 1 .. Len(s) - 1}
<1>4. Calls(Tail(s)) = R
  <2>1. CASE Len(s) = 1
    <3>1. Tail(s) \in Seq(Frame) /\ Len(Tail(s)) = 0
      BY <2>1, HeadTailProperties
    <3>2. Calls(Tail(s)) = {FrameAt(Tail(s), j) : j \in 1 .. 0}
      BY <3>1, CallsAreFrames
    <3>3. 1 .. 0 = {}
      OBVIOUS
    <3> QED
      BY <2>1, <3>2, <3>3
  <2>2. CASE Len(s) # 1
    <3>1. Len(s) > 1
      BY <1>3, <2>2
    <3>2. /\ Tail(s) \in Seq(Frame) /\ Len(Tail(s)) = Len(s) - 1
          /\ \A j \in 1 .. Len(s) - 1 : FrameAt(Tail(s), j) = FrameAt(s, j)
      BY <3>1, FramesOfTail
    <3> QED
      BY <3>2, CallsAreFrames, ZenonT(60)
  <2> QED
    BY <2>1, <2>2
<1>5. Calls(s) = {Head(s)} \union R
  BY <1>1, <1>3, CallsAreFrames
<1> QED
  BY <1>4, <1>5

LEMMA CallsOfStack ==
  ASSUME NEW s \in Seq(Frame), s # <<>>, NEW f \in Frame
  PROVE  /\ Calls(<<f>> \o Tail(s)) = {f} \union Calls(Tail(s))
         /\ \A e \in Frame : Calls(<<e, f>> \o Tail(s)) = {e, f} \union Calls(Tail(s))
<1>1. Len(s) \in Nat \ {0}
  BY FramesTyped, FrameType
<1>2. \A k \in Nat \ {0} : 1 .. k = {k} \union (1 .. k - 1) /\ 1 .. k + 1 = {k + 1, k} \union (1 .. k - 1)
  OBVIOUS
<1>3. /\ 1 .. Len(s) = {Len(s)} \union (1 .. Len(s) - 1)
      /\ 1 .. Len(s) + 1 = {Len(s) + 1, Len(s)} \union (1 .. Len(s) - 1)
  BY <1>1, <1>2
<1> DEFINE R == {FrameAt(s, j) : j \in 1 .. Len(s) - 1}
<1>4. Calls(Tail(s)) = R
  BY CallsBelow
<1>6. Calls(<<f>> \o Tail(s)) = {f} \union R
  <2> DEFINE u == <<f>> \o Tail(s)
  <2>1. /\ u \in Seq(Frame) /\ Len(u) = Len(s) /\ FrameAt(u, Len(s)) = f
        /\ \A j \in 1 .. Len(s) - 1 : FrameAt(u, j) = FrameAt(s, j)
    BY FramesOfPush
  <2> HIDE DEF u
  <2>2. Calls(u) = {FrameAt(u, j) : j \in {Len(s)} \union (1 .. Len(s) - 1)}
    BY <1>3, <2>1, CallsAreFrames
  <2> QED
    BY <2>1, <2>2 DEF u
<1>7. ASSUME NEW e \in Frame
      PROVE  Calls(<<e, f>> \o Tail(s)) = {e, f} \union R
  <2> DEFINE u == <<e, f>> \o Tail(s)
  <2>1. /\ u \in Seq(Frame) /\ Len(u) = Len(s) + 1 /\ FrameAt(u, Len(s) + 1) = e /\ FrameAt(u, Len(s)) = f
        /\ \A j \in 1 .. Len(s) - 1 : FrameAt(u, j) = FrameAt(s, j)
    <3>1. /\ <<e, f>> \o Tail(s) \in Seq(Frame) /\ Len(<<e, f>> \o Tail(s)) = Len(s) + 1
          /\ FrameAt(<<e, f>> \o Tail(s), Len(s) + 1) = e
          /\ FrameAt(<<e, f>> \o Tail(s), Len(s)) = f
          /\ \A j \in 1 .. Len(s) - 1 : FrameAt(<<e, f>> \o Tail(s), j) = FrameAt(s, j)
      BY FramesOfPush, ZenonT(60)
    <3> QED
      BY <3>1
  <2> HIDE DEF u
  <2>2. Calls(u) = {FrameAt(u, j) : j \in {Len(s) + 1, Len(s)} \union (1 .. Len(s) - 1)}
    BY <1>3, <2>1, CallsAreFrames
  <2> QED
    BY <2>1, <2>2 DEF u
<1> QED
  BY <1>4, <1>6, <1>7

LEMMA FreedApart ==
  ASSUME NEW s \in Seq(Frame), s # <<>>, FreedOnce(s), Freeing(Head(s)),
         NEW g \in Calls(Tail(s)), Freeing(g)
  PROVE  g.node # Head(s).node
<1>1. Len(s) \in Nat \ {0} /\ Head(s) = FrameAt(s, Len(s)) /\ Head(s) \in Frame
  BY FramesTyped, FrameType
<1>2. PICK j \in 1 .. Len(s) - 1 : g = FrameAt(s, j)
  BY CallsBelow
<1>3. j \in 1 .. Len(s) /\ Len(s) \in 1 .. Len(s) /\ j < Len(s)
  BY <1>1
<1> QED
  BY <1>1, <1>2, <1>3 DEF FreedOnce

LEMMA StackStaysApart ==
  ASSUME NEW s \in Seq(Frame), s # <<>>, FreedOnce(s), Waiting(s)
  PROVE  /\ FreedOnce(Tail(s)) /\ Waiting(Tail(s))
         /\ \A f \in Frame : (\A g \in Calls(Tail(s)) : Freeing(g) => g.node # f.node) =>
              /\ FreedOnce(<<f>> \o Tail(s)) /\ Waiting(<<f>> \o Tail(s))
              /\ \A e \in Frame : e.next = 0 /\ f.next > 0 =>
                   FreedOnce(<<e, f>> \o Tail(s)) /\ Waiting(<<e, f>> \o Tail(s))
<1>1. Len(s) \in Nat \ {0}
  BY FramesTyped, FrameType
<1> DEFINE k == Len(s)
<1>2. \A j \in 1 .. k - 1 : j \in 1 .. k
  BY <1>1
<1>3. FreedOnce(Tail(s)) /\ Waiting(Tail(s))
  <2>1. CASE k = 1
    <3>1. Len(Tail(s)) = 0
      BY <2>1, HeadTailProperties
    <3>2. 1 .. 0 = {} /\ 1 .. 0 - 1 = {}
      OBVIOUS
    <3> QED
      BY <3>1, <3>2 DEF FreedOnce, Waiting
  <2>2. CASE k # 1
    <3>1. k > 1
      BY <1>1, <2>2
    <3>2. Len(Tail(s)) = k - 1 /\ \A j \in 1 .. k - 1 : FrameAt(Tail(s), j) = FrameAt(s, j)
      BY <3>1, FramesOfTail
    <3>3. \A j \in 1 .. k - 1 - 1 : j \in 1 .. k - 1
      BY <1>1
    <3> QED
      BY <1>2, <3>2, <3>3 DEF FreedOnce, Waiting
  <2> QED
    BY <2>1, <2>2
<1>4. ASSUME NEW f \in Frame, \A g \in Calls(Tail(s)) : Freeing(g) => g.node # f.node
      PROVE  FreedOnce(<<f>> \o Tail(s)) /\ Waiting(<<f>> \o Tail(s))
  <2> DEFINE u == <<f>> \o Tail(s)
  <2>1. /\ u \in Seq(Frame) /\ Len(u) = k /\ FrameAt(u, k) = f
        /\ \A j \in 1 .. k - 1 : FrameAt(u, j) = FrameAt(s, j)
    BY <1>4, FramesOfPush
  <2>2. \A j \in 1 .. k - 1 : Freeing(FrameAt(s, j)) => FrameAt(s, j).node # f.node
    BY <1>4, CallsBelow
  <2> HIDE DEF u
  <2>3. Waiting(u)
    BY <2>1 DEF Waiting
  <2>4. FreedOnce(u)
    <3> SUFFICES ASSUME NEW i \in 1 .. k, NEW j \in 1 .. k, i < j,
                        Freeing(FrameAt(u, i)), Freeing(FrameAt(u, j))
                 PROVE  FrameAt(u, i).node # FrameAt(u, j).node
      BY <2>1 DEF FreedOnce
    <3>1. i \in 1 .. k - 1 /\ (j = k \/ j \in 1 .. k - 1)
      BY <1>1
    <3> QED
      BY <1>2, <2>1, <2>2, <3>1 DEF FreedOnce
  <2> QED
    BY <2>3, <2>4 DEF u
<1>5. ASSUME NEW f \in Frame, \A g \in Calls(Tail(s)) : Freeing(g) => g.node # f.node,
             NEW e \in Frame, e.next = 0, f.next > 0
      PROVE  FreedOnce(<<e, f>> \o Tail(s)) /\ Waiting(<<e, f>> \o Tail(s))
  <2> DEFINE u == <<e, f>> \o Tail(s)
  <2>1. /\ u \in Seq(Frame) /\ Len(u) = k + 1 /\ FrameAt(u, k) = f /\ FrameAt(u, k + 1) = e
        /\ \A j \in 1 .. k - 1 : FrameAt(u, j) = FrameAt(s, j)
    <3>1. /\ <<e, f>> \o Tail(s) \in Seq(Frame) /\ Len(<<e, f>> \o Tail(s)) = Len(s) + 1
          /\ FrameAt(<<e, f>> \o Tail(s), Len(s) + 1) = e
          /\ FrameAt(<<e, f>> \o Tail(s), Len(s)) = f
          /\ \A j \in 1 .. Len(s) - 1 : FrameAt(<<e, f>> \o Tail(s), j) = FrameAt(s, j)
      BY FramesOfPush, ZenonT(60)
    <3> QED
      BY <3>1
  <2>2. \A j \in 1 .. k - 1 : Freeing(FrameAt(s, j)) => FrameAt(s, j).node # f.node
    BY <1>5, CallsBelow
  <2>3. k + 1 - 1 = k /\ \A j \in 1 .. k : j = k \/ j \in 1 .. k - 1
    BY <1>1
  <2> HIDE DEF u
  <2>4. Waiting(u)
    <3>1. ASSUME NEW j \in 1 .. k, FrameAt(u, j).fn = "unref"
          PROVE  FrameAt(u, j).next > 0
      <4>1. CASE j = k
        BY <1>5, <2>1, <4>1
      <4>2. CASE j \in 1 .. k - 1
        BY <2>1, <3>1, <4>2 DEF Waiting
      <4> QED
        BY <2>3, <4>1, <4>2
    <3>2. Len(u) - 1 = k
      <4>1. k \in Nat /\ Len(u) = k + 1
        BY <1>1, <2>1
      <4> HIDE DEF k
      <4> QED
        BY <4>1
    <3> QED
      BY <3>1, <3>2 DEF Waiting
  <2>5. ~Freeing(e)
    BY <1>5 DEF Freeing
  <2>6. FreedOnce(u)
    <3> SUFFICES ASSUME NEW i \in 1 .. k + 1, NEW j \in 1 .. k + 1, i < j,
                        Freeing(FrameAt(u, i)), Freeing(FrameAt(u, j))
                 PROVE  FrameAt(u, i).node # FrameAt(u, j).node
      BY <2>1 DEF FreedOnce
    <3>1. j # k + 1
      BY <2>1, <2>5
    <3>2. i \in 1 .. k - 1 /\ (j = k \/ j \in 1 .. k - 1)
      BY <1>1, <3>1
    <3> QED
      BY <1>2, <2>1, <2>2, <3>2 DEF FreedOnce
  <2> QED
    BY <2>4, <2>6 DEF u
<1> QED
  BY <1>3, <1>4, <1>5

(* The counts are natural numbers, and what holds a node keeps it alive.   *)
LEMMA SizesOfHolders ==
  ASSUME TypeOK, NEW n \in Node
  PROVE  /\ IsFiniteSet(Kept(n)) /\ Cardinality(Kept(n)) \in Nat
         /\ IsFiniteSet(Uses(n)) /\ Cardinality(Uses(n)) \in Nat
         /\ Own(n) \in {0, 1} /\ \A s : Dropping(s, n) \in {0, 1}
<1>1. IsFiniteSet(References(children, n))
  BY ReferencesAreFinite DEF TypeOK
<1>2. IsFiniteSet(Kept(n))
  BY <1>1, FS_Subset DEF Kept, KeptBy
<1>3. IsFiniteSet(Uses(n))
  BY ContextAssumption, FS_Subset DEF Uses
<1> QED
  BY <1>2, <1>3, FS_CardinalityType DEF Own, Dropping

LEMMA HoldersKeepAlive ==
  ASSUME TypeOK, Balanced, NEW n \in Node
  PROVE  /\ refcount[n] \in Nat
         /\ n \in held => Live(n)
         /\ Kept(n) # {} => Live(n)
         /\ Uses(n) # {} => Live(n)
         /\ Dropping(stack, n) = 1 => Live(n)
<1> DEFINE k == Cardinality(Kept(n))
           u == Cardinality(Uses(n))
           o == Own(n)
           d == Dropping(stack, n)
<1>1. k \in Nat /\ u \in Nat /\ o \in {0, 1} /\ d \in {0, 1} /\ IsFiniteSet(Kept(n)) /\ IsFiniteSet(Uses(n))
  BY SizesOfHolders
<1>2. (k = 0 => Kept(n) = {}) /\ (u = 0 => Uses(n) = {})
  BY <1>1, FS_EmptySet
<1>3. n \in held => o = 1
  BY DEF Own
<1>4. refcount[n] = o + k + u + d
  BY DEF Balanced
<1> HIDE DEF k, u, o, d
<1>5. d = Dropping(stack, n)
  BY DEF d
<1> QED
  BY <1>1, <1>2, <1>3, <1>4, <1>5 DEF Live

(* The children of a live node are live.                                   *)
LEMMA ChildrenAreLive ==
  ASSUME TypeOK, Balanced, NEW p \in Node, Live(p), NEW i \in 1 .. Len(children[p])
  PROVE  children[p][i] \in Node /\ Live(children[p][i])
<1>1. children[p][i] \in Node /\ children \in [Node -> Seq(Node)]
  BY DEF TypeOK
<1> DEFINE n == children[p][i]
           e == <<p, i>>
<1>2. e \in References(children, n) /\ e[1] = p
  BY <1>1 DEF References
<1>3. Kept(n) # {}
  BY <1>2 DEF Kept, KeptBy, Live
<1> HIDE DEF n
<1> QED
  BY <1>1, <1>3, HoldersKeepAlive DEF n

LEMMA SceneIsLive ==
  ASSUME TypeOK, Balanced, NEW c \in Ctx, scene[c] # NoNode
  PROVE  scene[c] \in Node /\ Live(scene[c])
<1>1. scene[c] \in Node /\ c \in Uses(scene[c])
  BY DEF TypeOK, Uses
<1> QED
  BY <1>1, HoldersKeepAlive

(* Steps that free nothing.                                                *)
Quiet(s) == \A f \in Calls(s) : f.fn # "unref"

LEMMA NothingHeld ==
  ASSUME NEW s \in Seq(Frame), Quiet(s)
  PROVE  /\ \A e : ~HeldBy(s, e)
         /\ \A n : Dropping(s, n) = 0
         /\ FreedOnce(s) /\ Waiting(s)
<1>1. \A f \in Calls(s) : f.fn # "unref" /\ ~Freeing(f)
  BY DEF Quiet, Freeing
<1>2. s # <<>> => Head(s) \in Calls(s)
  BY StackTop
<1>3. \A j \in 1 .. Len(s) : FrameAt(s, j) \in Calls(s)
  BY CallsAreFrames
<1>4. \A j \in 1 .. Len(s) - 1 : j \in 1 .. Len(s)
  <2>1. \A k \in Nat : \A j \in 1 .. k - 1 : j \in 1 .. k
    OBVIOUS
  <2> QED
    BY <2>1
<1> QED
  BY <1>1, <1>2, <1>3, <1>4 DEF HeldBy, Dropping, FreedOnce, Waiting

LEMMA BalanceStays ==
  ASSUME Balanced, UNCHANGED <<children, refcount, held, scene>>,
         \A e : HeldBy(stack', e) <=> HeldBy(stack, e),
         \A n \in Node : Dropping(stack', n) = Dropping(stack, n)
  PROVE  Balanced'
<1>1. \A n \in Node : Kept(n)' = Kept(n)
  BY DEF Kept, KeptBy
<1>2. \A n \in Node : Uses(n)' = Uses(n) /\ Own(n)' = Own(n)
  BY DEF Uses, Own
<1> SUFFICES ASSUME NEW n \in Node
             PROVE  refcount'[n] = Own(n)' + Cardinality(Kept(n)')
                                 + Cardinality(Uses(n)') + Dropping(stack', n)
  BY DEF Balanced
<1> QED
  BY <1>1, <1>2 DEF Balanced

LEMMA QuietStep ==
  ASSUME TypeOK, TypeOK', Balance, Quiet(stack), Quiet(stack'),
         UNCHANGED <<children, refcount, held, scene>>,
         \A f \in Calls(stack') : Live(f.node), NewScene', Halted'
  PROVE  Balance'
<1>1. stack \in Seq(Frame) /\ stack' \in Seq(Frame)
  BY DEF TypeOK
<1>2. \A e : ~HeldBy(stack, e) /\ ~HeldBy(stack', e)
  BY <1>1, NothingHeld
<1>3. \A n : Dropping(stack, n) = 0 /\ Dropping(stack', n) = 0
  BY <1>1, NothingHeld
<1>4. FreedOnce(stack') /\ Waiting(stack')
  BY <1>1, NothingHeld
<1>5. Balanced'
  BY <1>2, <1>3, BalanceStays DEF Balance
<1>6. Walked'
  BY DEF Walked, Quiet, Freeing, Live
<1> QED
  BY <1>4, <1>5, <1>6 DEF Balance

(* A release starts: of the client's reference, or of a context's.         *)
LEMMA UnrefStarts ==
  ASSUME TypeOK, TypeOK', Balance, stack = <<>>, NEW n \in Node, stack' = <<UnrefCall(n)>>,
         UNCHANGED <<children, refcount>>,
         \/ n \in held /\ held' = held \ {n} /\ scene' = scene
         \/ \E c \in Ctx : held' = held /\ scene[c] = n /\ scene' = [scene EXCEPT ![c] = NoNode],
         NewScene', aborted' = FALSE
  PROVE  Balance'
<1> DEFINE call == UnrefCall(n)
<1>1. /\ call.fn = "unref" /\ call.next = 0 /\ call.node = n /\ call \in Frame
      /\ Calls(stack') = {call} /\ Calls(stack) = {} /\ Head(stack') = call /\ stack' # <<>>
      /\ Len(stack') = 1 /\ stack' \in Seq(Frame)
  <2>1. call.fn = "unref" /\ call.next = 0 /\ call.node = n /\ call \in Frame
    BY DEF UnrefCall, Call, Frame, Walk
  <2> HIDE DEF call
  <2>2. stack' = <<call>>
    BY DEF call
  <2> QED
    BY <2>1, <2>2 DEF Calls
<1> HIDE DEF call
<1>2. \A e : ~HeldBy(stack, e) /\ ~HeldBy(stack', e)
  BY <1>1 DEF HeldBy, Freeing
<1>3. \A m \in Node : Kept(m)' = Kept(m)
  BY <1>2 DEF Kept, KeptBy
<1>4. \A m \in Node : Dropping(stack, m) = 0 /\ Dropping(stack', m) = IF m = n THEN 1 ELSE 0
  BY <1>1 DEF Dropping
<1>5. \A m \in Node :
        Own(m)' + Cardinality(Uses(m)') = Own(m) + Cardinality(Uses(m)) - (IF m = n THEN 1 ELSE 0)
  <2> SUFFICES ASSUME NEW m \in Node
               PROVE  Own(m)' + Cardinality(Uses(m)') = Own(m) + Cardinality(Uses(m)) - (IF m = n THEN 1 ELSE 0)
    OBVIOUS
  <2>1. Cardinality(Uses(m)) \in Nat /\ IsFiniteSet(Uses(m)) /\ Own(m) \in {0, 1}
    BY SizesOfHolders
  <2>2. CASE n \in held /\ held' = held \ {n} /\ scene' = scene
    <3>1. Uses(m)' = Uses(m)
      BY <2>2 DEF Uses
    <3>2. Own(m)' = Own(m) - IF m = n THEN 1 ELSE 0
      BY <2>2 DEF Own
    <3> QED
      BY <2>1, <3>1, <3>2
  <2>3. ASSUME NEW c \in Ctx, held' = held, scene[c] = n, scene' = [scene EXCEPT ![c] = NoNode]
        PROVE  Own(m)' + Cardinality(Uses(m)') = Own(m) + Cardinality(Uses(m)) - (IF m = n THEN 1 ELSE 0)
    <3>1. Own(m)' = Own(m)
      BY <2>3 DEF Own
    <3>2. CASE m = n
      <4>1. c \in Uses(m) /\ Uses(m)' = Uses(m) \ {c}
        BY <2>3, <3>2, NodeAssumption DEF Uses, TypeOK
      <4>2. Cardinality(Uses(m) \ {c}) = Cardinality(Uses(m)) - 1
        BY <2>1, <4>1, FS_RemoveElement
      <4> QED
        BY <2>1, <3>1, <3>2, <4>1, <4>2
    <3>3. CASE m # n
      <4>1. Uses(m)' = Uses(m)
        BY <2>3, <3>3, NodeAssumption DEF Uses, TypeOK
      <4> QED
        BY <2>1, <3>1, <3>3, <4>1
    <3> QED
      BY <3>2, <3>3
  <2> QED
    BY <2>2, <2>3
<1>6. Balanced'
  <2> SUFFICES ASSUME NEW m \in Node
               PROVE  refcount'[m] = Own(m)' + Cardinality(Kept(m)')
                                   + Cardinality(Uses(m)') + Dropping(stack', m)
    BY DEF Balanced
  <2>1. refcount'[m] = Own(m) + Cardinality(Kept(m)) + Cardinality(Uses(m)) + Dropping(stack, m)
    BY DEF Balance, Balanced
  <2>2. Cardinality(Kept(m)) \in Nat /\ Cardinality(Uses(m)) \in Nat /\ Own(m) \in Nat
    BY SizesOfHolders
  <2>3. Cardinality(Uses(m)') \in Nat /\ Own(m)' \in Nat
    <3>1. IsFiniteSet(Uses(m)')
      BY ContextAssumption, FS_Subset DEF Uses
    <3> QED
      BY <3>1, FS_CardinalityType DEF Own
  <2> DEFINE x == Own(m)'
             y == Cardinality(Uses(m)')
             z == Cardinality(Kept(m))
             o == Own(m)
             u == Cardinality(Uses(m))
  <2>4. x + y = o + u - (IF m = n THEN 1 ELSE 0) /\ Cardinality(Kept(m)') = z
    BY <1>3, <1>5
  <2> HIDE DEF x, y, z, o, u
  <2>5. refcount'[m] = x + z + y + Dropping(stack', m)
    BY <1>4, <2>1, <2>2, <2>3, <2>4, SMTT(30) DEF x, y, z, o, u
  <2> QED
    BY <2>4, <2>5 DEF x, y
<1>7. FreedOnce(stack') /\ Waiting(stack')
  <2>1. \A i, j \in 1 .. 1 : ~(i < j)
    OBVIOUS
  <2>2. 1 .. 1 - 1 = {}
    OBVIOUS
  <2> QED
    BY <1>1, <2>1, <2>2 DEF FreedOnce, Waiting
<1>8. Walked' /\ Halted'
  BY <1>1 DEF Walked, Halted, Freeing
<1> QED
  BY <1>6, <1>7, <1>8 DEF Balance

(* A context takes a reference on its new scene.                           *)
LEMMA SceneIsTaken ==
  ASSUME Invariant, TypeOK', Balance, Ordered, SceneAttached
  PROVE  Balance'
<1> USE DEF Invariant
<1>1. PICK n \in Node : n = cmd.node
  BY DEF SceneAttached, At, CommandOK
<1>2. PICK c \in Ctx : c = cmd.ctx
  BY DEF SceneAttached, At, CommandOK
<1>3. /\ stack = <<>> /\ stack' = <<>> /\ ~aborted /\ aborted' = aborted
      /\ pc = "scene_attached" /\ pc' = "idle"
      /\ refcount' = [refcount EXCEPT ![n] = @ + 1] /\ scene' = [scene EXCEPT ![c] = n]
      /\ UNCHANGED <<children, held>>
  BY <1>1, <1>2 DEF SceneAttached, At, Finish, paramVars, callVars
<1>4. /\ scene[c] = NoNode /\ n # NoNode /\ scene \in [Ctx -> Node \union {NoNode}]
      /\ refcount \in [Node -> Int]
  BY <1>1, <1>2, <1>3, NodeAssumption DEF Ordered, Control, TypeOK
<1>5. Live(n) /\ refcount[n] \in Nat
  <2>1. n \in held
    BY <1>1, <1>3, <1>4 DEF Balance, NewScene
  <2> QED
    BY <2>1, HoldersKeepAlive DEF Balance
<1>6. \A m \in Node : Kept(m)' = Kept(m)
  <2>1. \A p \in Node : refcount'[p] > 0 <=> refcount[p] > 0
    BY <1>3, <1>4, <1>5 DEF Live
  <2>2. \A m \in Node : \A e \in References(children, m) : e[1] \in Node
    BY DEF References
  <2> QED
    BY <1>3, <2>1, <2>2 DEF Kept, KeptBy
<1>7. \A m \in Node : Own(m)' = Own(m) /\ Dropping(stack', m) = Dropping(stack, m)
  BY <1>3 DEF Own
<1>8. Uses(n)' = Uses(n) \union {c} /\ c \notin Uses(n) /\ \A m \in Node : m # n => Uses(m)' = Uses(m)
  <2>1. \A d \in Ctx : scene'[d] = IF d = c THEN n ELSE scene[d]
    BY <1>3, <1>4
  <2>2. c \notin Uses(n)
    BY <1>4 DEF Uses
  <2>3. \A m \in Node : m # n => Uses(m)' = Uses(m)
    BY <1>4, <2>1, NodeAssumption DEF Uses
  <2>4. Uses(n)' = Uses(n) \union {c}
    BY <2>1 DEF Uses
  <2> QED
    BY <2>2, <2>3, <2>4
<1>9. Balanced'
  <2> SUFFICES ASSUME NEW m \in Node
               PROVE  refcount'[m] = Own(m)' + Cardinality(Kept(m)')
                                   + Cardinality(Uses(m)') + Dropping(stack', m)
    BY DEF Balanced
  <2>1. refcount[m] = Own(m) + Cardinality(Kept(m)) + Cardinality(Uses(m)) + Dropping(stack, m)
    BY DEF Balance, Balanced
  <2>2. /\ Cardinality(Kept(m)) \in Nat /\ IsFiniteSet(Uses(m)) /\ Cardinality(Uses(m)) \in Nat
        /\ Own(m) \in Nat /\ Dropping(stack, m) \in Nat
    BY SizesOfHolders
  <2>3. CASE m = n
    <3>1. Cardinality(Uses(n) \union {c}) = Cardinality(Uses(n)) + 1
      BY <1>8, <2>2, <2>3, FS_AddElement
    <3>2. refcount'[n] = refcount[n] + 1
      BY <1>3, <1>4
    <3> DEFINE o == Own(n)
               k == Cardinality(Kept(n))
               u == Cardinality(Uses(n))
               d == Dropping(stack, n)
    <3>3. o \in Nat /\ k \in Nat /\ u \in Nat /\ d \in Nat /\ refcount'[n] = o + k + u + d + 1
      BY <2>1, <2>2, <2>3, <3>2
    <3>4. Own(n)' = o /\ Cardinality(Kept(n)') = k /\ Cardinality(Uses(n)') = u + 1 /\ Dropping(stack', n) = d
      BY <1>6, <1>7, <1>8, <3>1
    <3> HIDE DEF o, k, u, d
    <3> QED
      BY <2>3, <3>3, <3>4
  <2>4. CASE m # n
    BY <1>3, <1>4, <1>6, <1>7, <1>8, <2>1, <2>4
  <2> QED
    BY <2>3, <2>4
<1>10. FreedOnce(stack') /\ Waiting(stack') /\ Walked' /\ NewScene' /\ Halted'
  <2>1. Calls(stack') = {}
    BY <1>3 DEF Calls
  <2> QED
    BY <1>3, <2>1 DEF Balance, FreedOnce, Waiting, Walked, NewScene, Halted
<1> QED
  BY <1>9, <1>10 DEF Balance

(* A parameter takes a reference on the child it is given.                 *)
LEMMA ChildIsTaken ==
  ASSUME Invariant, TypeOK', Balance, NEW p \in Node, NEW n \in Node, AddChild(p, n)
  PROVE  Balance'
<1> USE DEF Invariant
<1> DEFINE l == Len(children[p]) + 1
           x == <<p, l>>
<1>1. /\ stack = <<>> /\ stack' = <<>> /\ ~aborted /\ aborted' = aborted /\ pc = "idle" /\ pc' = "idle"
      /\ refcount' = [refcount EXCEPT ![n] = @ + 1]
      /\ children' = [children EXCEPT ![p] = Append(@, n)]
      /\ UNCHANGED <<scene, held>> /\ p \in held /\ n \in held
  BY DEF AddChild, Idle, callVars, ctxVars
<1>2. /\ refcount \in [Node -> Int] /\ children \in [Node -> Seq(Node)] /\ children' \in [Node -> Seq(Node)]
      /\ l \in Nat /\ children[p] \in Seq(Node)
  BY DEF TypeOK
<1>3. Live(n) /\ Live(p) /\ refcount[n] \in Nat
  BY <1>1, HoldersKeepAlive DEF Balance
<1>4. \A m \in Node : References(children', m) = References(children, m) \union (IF m = n THEN {x} ELSE {})
  <2>1. /\ \A q \in Node : q # p => children'[q] = children[q]
        /\ children'[p] = Append(children[p], n)
    BY <1>1, <1>2
  <2>2. /\ DOMAIN children'[p] = (DOMAIN children[p]) \union {l}
        /\ children'[p][l] = n /\ \A i \in DOMAIN children[p] : children'[p][i] = children[p][i]
        /\ l \notin DOMAIN children[p]
    <3>1. \A q \in Seq(Node) : /\ DOMAIN Append(q, n) = (DOMAIN q) \union {Len(q) + 1}
                               /\ Append(q, n)[Len(q) + 1] = n
                               /\ \A i \in DOMAIN q : Append(q, n)[i] = q[i]
                               /\ Len(q) + 1 \notin DOMAIN q
      <4> SUFFICES ASSUME NEW q \in Seq(Node)
                   PROVE  /\ DOMAIN Append(q, n) = (DOMAIN q) \union {Len(q) + 1}
                          /\ Append(q, n)[Len(q) + 1] = n
                          /\ \A i \in DOMAIN q : Append(q, n)[i] = q[i]
                          /\ Len(q) + 1 \notin DOMAIN q
        OBVIOUS
      <4>1. /\ Append(q, n) \in Seq(Node) /\ Len(Append(q, n)) = Len(q) + 1
            /\ Append(q, n)[Len(q) + 1] = n
            /\ \A i \in 1 .. Len(q) : Append(q, n)[i] = q[i]
        BY AppendProperties
      <4>2. DOMAIN q = 1 .. Len(q) /\ DOMAIN Append(q, n) = 1 .. Len(q) + 1 /\ Len(q) \in Nat
        BY <4>1
      <4>3. \A k \in Nat : 1 .. k + 1 = (1 .. k) \union {k + 1} /\ k + 1 \notin 1 .. k
        OBVIOUS
      <4> QED
        BY <4>1, <4>2, <4>3
    <3> QED
      BY <1>2, <2>1, <3>1
  <2> HIDE DEF l
  <2> SUFFICES ASSUME NEW m \in Node
               PROVE  References(children', m) = References(children, m) \union (IF m = n THEN {x} ELSE {})
    OBVIOUS
  <2> DEFINE R(g, q) == {<<q, i>> : i \in {j \in DOMAIN g[q] : g[q][j] = m}}
  <2>3. \A q \in Node : R(children', q) = R(children, q) \union (IF q = p /\ m = n THEN {x} ELSE {})
    <3>1. \A q \in Node : q # p => R(children', q) = R(children, q)
      BY <2>1
    <3>2. R(children', p) = R(children, p) \union (IF m = n THEN {x} ELSE {})
      BY <2>2
    <3> HIDE DEF R
    <3> QED
      BY <3>1, <3>2
  <2>4. \A g : References(g, m) = UNION {R(g, q) : q \in Node}
    BY DEF References
  <2> HIDE DEF R, x
  <2> QED
    BY <2>3, <2>4
<1>5. x \notin References(children, n)
  <2>1. l \notin DOMAIN children[p]
    BY <1>2
  <2> QED
    BY <2>1 DEF References
<1>6. \A m \in Node : Kept(m)' = Kept(m) \union (IF m = n THEN {x} ELSE {})
  <2>1. \A q \in Node : refcount'[q] > 0 <=> refcount[q] > 0
    BY <1>1, <1>2, <1>3 DEF Live
  <2>2. \A m \in Node : \A e \in References(children, m) : e[1] \in Node
    BY DEF References
  <2>3. x[1] = p
    OBVIOUS
  <2> HIDE DEF x
  <2> SUFFICES ASSUME NEW m \in Node
               PROVE  Kept(m)' = Kept(m) \union (IF m = n THEN {x} ELSE {})
    OBVIOUS
  <2>4. Kept(m)' = {e \in References(children', m) : refcount'[e[1]] > 0 \/ HeldBy(stack, e)}
    BY <1>1 DEF Kept, KeptBy
  <2>5. Kept(m) = {e \in References(children, m) : refcount[e[1]] > 0 \/ HeldBy(stack, e)}
    BY DEF Kept, KeptBy
  <2> QED
    BY <1>3, <1>4, <2>1, <2>2, <2>3, <2>4, <2>5 DEF Live
<1>7. \A m \in Node : Own(m)' = Own(m) /\ Dropping(stack', m) = Dropping(stack, m) /\ Uses(m)' = Uses(m)
  BY <1>1 DEF Own, Uses
<1> HIDE DEF x, l
<1>9. Balanced'
  <2> SUFFICES ASSUME NEW m \in Node
               PROVE  refcount'[m] = Own(m)' + Cardinality(Kept(m)')
                                   + Cardinality(Uses(m)') + Dropping(stack', m)
    BY DEF Balanced
  <2>1. refcount[m] = Own(m) + Cardinality(Kept(m)) + Cardinality(Uses(m)) + Dropping(stack, m)
    BY DEF Balance, Balanced
  <2>2. /\ Cardinality(Kept(m)) \in Nat /\ IsFiniteSet(Kept(m)) /\ Cardinality(Uses(m)) \in Nat
        /\ Own(m) \in Nat /\ Dropping(stack, m) \in Nat
    BY SizesOfHolders
  <2>3. CASE m = n
    <3>0. x \notin Kept(n)
      BY <1>5 DEF Kept, KeptBy
    <3>1. Cardinality(Kept(n) \union {x}) = Cardinality(Kept(n)) + 1
      BY <2>2, <2>3, <3>0, FS_AddElement
    <3>2. refcount'[n] = refcount[n] + 1
      BY <1>1, <1>2
    <3> DEFINE o == Own(n)
               k == Cardinality(Kept(n))
               u == Cardinality(Uses(n))
               d == Dropping(stack, n)
    <3>3. o \in Nat /\ k \in Nat /\ u \in Nat /\ d \in Nat /\ refcount'[n] = o + k + u + d + 1
      BY <2>1, <2>2, <2>3, <3>2
    <3>4. Own(n)' = o /\ Cardinality(Kept(n)') = k + 1 /\ Cardinality(Uses(n)') = u /\ Dropping(stack', n) = d
      BY <1>6, <1>7, <3>1
    <3> HIDE DEF o, k, u, d
    <3> QED
      BY <2>3, <3>3, <3>4
  <2>4. CASE m # n
    <3>1. Kept(m)' = Kept(m)
      BY <1>6, <2>4
    <3> QED
      BY <1>1, <1>2, <1>7, <2>1, <2>4, <3>1
  <2> QED
    BY <2>3, <2>4
<1>10. FreedOnce(stack') /\ Waiting(stack') /\ Walked' /\ NewScene' /\ Halted'
  <2>1. Calls(stack') = {}
    BY <1>1 DEF Calls
  <2> QED
    BY <1>1, <2>1 DEF Balance, FreedOnce, Waiting, Walked, NewScene, Halted
<1> QED
  BY <1>9, <1>10 DEF Balance

(* A command that frees nothing starts a walk, or ends.                    *)
LEMMA QuietStart ==
  ASSUME TypeOK, TypeOK', Balance, stack = <<>>, UNCHANGED <<children, refcount, held, scene>>,
         stack' = <<>> \/ \E call \in Frame : call.fn # "unref" /\ Live(call.node) /\ stack' = <<call>>,
         NewScene', aborted' = FALSE
  PROVE  Balance'
<1>1. Calls(stack) = {} /\ Quiet(stack)
  BY DEF Calls, Quiet
<1>2. Quiet(stack') /\ \A f \in Calls(stack') : Live(f.node)
  BY DEF Calls, Quiet
<1>3. Halted'
  BY DEF Halted
<1> QED
  BY <1>1, <1>2, <1>3, QuietStep

LEMMA ClientBalances ==
  ASSUME Invariant, Invariant', Balance, Ordered, Client
  PROVE  Balance'
<1> USE DEF Invariant
<1>1. /\ stack = <<>> /\ pc = "idle" /\ ~aborted /\ aborted' = aborted /\ Balanced
      /\ aborted \in BOOLEAN
  <2>1. Idle /\ aborted' = aborted
    BY DEF Client, Create, Configure, SetScene, Draw, Free, NodeUnref, AddChild, Toggle, Idle,
       Begin, callVars
  <2> QED
    BY <2>1 DEF Idle, Balance, TypeOK
<1>2. ASSUME NEW c \in Ctx, Create(c)
      PROVE  Balance'
  BY <1>1, <1>2, QuietStart DEF Create, nodeVars, paramVars, callVars, NewScene
<1>3. ASSUME NEW n \in Node, Toggle(n)
      PROVE  Balance'
  BY <1>1, <1>3, QuietStart DEF Toggle, callVars, ctxVars, NewScene
<1>4. ASSUME NEW p \in Node, NEW n \in Node, AddChild(p, n)
      PROVE  Balance'
  BY <1>4, ChildIsTaken
<1>5. ASSUME NEW n \in Node, NodeUnref(n)
      PROVE  Balance'
  <2>1. /\ stack' = <<UnrefCall(n)>> /\ n \in held /\ held' = held \ {n} /\ scene' = scene
        /\ UNCHANGED <<children, refcount>> /\ pc' = "idle"
    BY <1>5 DEF NodeUnref, Start, ctxVars, nodeVars, paramVars
  <2>2. NewScene'
    BY <2>1 DEF NewScene
  <2> QED
    BY <1>1, <2>1, <2>2, UnrefStarts
<1>6. ASSUME NEW c \in Ctx, Configure(c) \/ Free(c) \/ \E n \in Node \union {NoNode} : SetScene(c, n)
      PROVE  Balance'
  <2>1. UNCHANGED <<children, refcount, held, scene>>
    BY <1>6 DEF Configure, Free, SetScene, nodesUnchanged, nodeVars, paramVars, ctxVars
  <2>2. NewScene'
    BY <1>6, <2>1 DEF NewScene, Configure, Free, SetScene, Start, Begin, Cmd
  <2>3. \/ stack' = <<>>
        \/ scene[c] # NoNode /\ stack' = <<DetachCall(scene[c], c)>>
    BY <1>1, <1>6 DEF Configure, Free, SetScene, Start
  <2>4. ASSUME scene[c] # NoNode
        PROVE  /\ DetachCall(scene[c], c) \in Frame /\ DetachCall(scene[c], c).fn # "unref"
               /\ Live(DetachCall(scene[c], c).node)
    <3>1. scene[c] \in Node /\ Live(scene[c])
      BY <1>1, <2>4, SceneIsLive
    <3> QED
      BY <3>1 DEF DetachCall, Call, Frame, Walk
  <2> QED
    BY <1>1, <2>1, <2>2, <2>3, <2>4, QuietStart
<1>7. ASSUME NEW c \in Ctx, NEW t \in Time, NEW op \in {"draw", "prepare_draw"}, Draw(op, c, t)
      PROVE  Balance'
  <2>1. UNCHANGED <<children, refcount, held, scene>> /\ NewScene'
    BY <1>7 DEF Draw, nodesUnchanged, nodeVars, paramVars, ctxVars, NewScene, Start
  <2> DEFINE call == VisitCall(scene[c], TRUE, t)
  <2>2. scene[c] \in Node /\ Live(scene[c]) /\ stack' = <<call>>
    BY <1>1, <1>7, SceneIsLive DEF Draw, Start
  <2>3. call \in Frame /\ call.fn # "unref" /\ Live(call.node)
    BY <2>2 DEF VisitCall, Call, Frame, Walk
  <2> HIDE DEF call
  <2> QED
    BY <1>1, <2>1, <2>2, <2>3, QuietStart
<1> QED
  BY <1>2, <1>3, <1>4, <1>5, <1>6, <1>7 DEF Client

(* ngl_freep finds the scene of the context given back.                    *)
FreesNoScene == At("free_stop") => scene[cmd.ctx] = NoNode

LEMMA CommandBalances ==
  ASSUME Invariant, Invariant', Balance, Ordered, FreesNoScene, Command
  PROVE  Balance'
<1> USE DEF Invariant
<1>1. PICK c \in Ctx : c = cmd.ctx
  BY DEF Command, BackendConfigured, BackendFails, SceneReattached, UnrefScene, AttachScene,
     SceneAttached, SceneRefused, HonorNext, UpdateScene, DrawScene, FreeContext, At, CommandOK
<1>2. stack = <<>> /\ ~aborted /\ aborted' = FALSE /\ Balanced
  BY DEF Command, BackendConfigured, BackendFails, SceneReattached, UnrefScene, AttachScene,
     SceneAttached, SceneRefused, HonorNext, UpdateScene, DrawScene, FreeContext, At,
     HonorNode, HonorFails, Fail, callVars, Balance, TypeOK
<1>3. CASE SceneAttached
  BY <1>3, SceneIsTaken
<1>4. CASE UnrefScene \/ (SceneReattached /\ Failed)
  <2>1. scene[c] \in Node /\ NoNode \notin Node
    BY <1>1, <1>4, NodeAssumption DEF UnrefScene, SceneReattached, At, CommandOK
  <2>2. PICK n \in Node : n = scene[c]
    BY <2>1
  <2>3. /\ stack' = <<UnrefCall(n)>> /\ held' = held /\ scene' = [scene EXCEPT ![c] = NoNode]
        /\ UNCHANGED <<children, refcount>>
    BY <1>1, <1>4, <2>2 DEF UnrefScene, SceneReattached, Start, nodesUnchanged, nodeVars, paramVars
  <2>4. NewScene'
    BY <1>4, <2>3 DEF NewScene, UnrefScene, SceneReattached, Start, Finish, Balance
  <2> QED
    BY <1>2, <2>2, <2>3, <2>4, UnrefStarts
<1>5. CASE \/ BackendConfigured \/ BackendFails \/ (SceneReattached /\ ~Failed) \/ AttachScene
           \/ SceneRefused \/ HonorNext \/ UpdateScene \/ DrawScene \/ FreeContext
  <2>1. UNCHANGED <<children, refcount, held, scene>>
    <3>1. CASE FreeContext
      <4>1. scene[c] = NoNode /\ scene' = [scene EXCEPT ![c] = NoNode]
        BY <1>1, <1>2, <3>1 DEF FreesNoScene, FreeContext
      <4>2. scene' = scene
        BY <4>1 DEF TypeOK
      <4> QED
        BY <3>1, <4>2 DEF FreeContext, nodesUnchanged, nodeVars, paramVars
    <3>2. CASE ~FreeContext
      BY <1>5, <3>2 DEF BackendConfigured, BackendFails, SceneReattached, AttachScene, SceneRefused,
         HonorNext, UpdateScene, DrawScene, HonorNode, HonorFails, nodesUnchanged, nodeVars, paramVars, ctxVars
    <3> QED
      BY <3>1, <3>2
  <2>2. NewScene'
    <3>1. pc' \in {"scene_unref", "scene_attach", "scene_attached"} =>
            /\ pc = "scene_attach" /\ cmd' = cmd
      BY <1>2, <1>5 DEF BackendConfigured, BackendFails, SceneReattached, AttachScene, SceneRefused,
         HonorNext, UpdateScene, DrawScene, FreeContext, Start, Finish, At
    <3> QED
      BY <2>1, <3>1 DEF NewScene, Balance
  <2>3. \/ stack' = <<>>
        \/ scene[c] # NoNode /\ stack' = <<AttachCall(scene[c], c)>>
        \/ cmd.node # NoNode /\ pc \in {"scene_attach", "scene_attached"}
           /\ (stack' = <<AttachCall(cmd.node, c)>> \/ stack' = <<DetachCall(cmd.node, c)>>)
        \/ scene[c] # NoNode /\ (stack' = <<UpdateCall(scene[c], cmd.t)>> \/ stack' = <<DrawCall(scene[c])>>)
    <3>1. pc \in {"draw_honor", "draw_draw"} => scene[c] # NoNode
      BY <1>1, NodeAssumption DEF CommandOK
    <3>2. pc = "scene_attached" => cmd.node # NoNode
      BY NodeAssumption DEF CommandOK
    <3>3. CASE BackendConfigured
      BY <1>1, <1>2, <3>3 DEF BackendConfigured, Start
    <3>4. CASE BackendFails \/ (SceneReattached /\ ~Failed) \/ HonorNext \/ FreeContext
      BY <1>2, <3>4 DEF BackendFails, SceneReattached, HonorNext, HonorNode, HonorFails, Fail, FreeContext,
         callVars
    <3>5. CASE AttachScene
      BY <1>1, <1>2, <3>5 DEF AttachScene, Start, At
    <3>6. CASE SceneRefused
      BY <1>1, <3>2, <3>6 DEF SceneRefused, At
    <3>7. CASE UpdateScene \/ DrawScene
      BY <1>1, <1>2, <3>1, <3>7 DEF UpdateScene, DrawScene, Start, At
    <3> QED
      BY <1>5, <3>3, <3>4, <3>5, <3>6, <3>7
  <2>4. scene[c] # NoNode => scene[c] \in Node /\ Live(scene[c])
    BY <1>2, SceneIsLive
  <2>5. cmd.node # NoNode /\ pc \in {"scene_attach", "scene_attached"} => cmd.node \in Node /\ Live(cmd.node)
    <3>1. cmd.node \in held /\ held \subseteq Node => cmd.node \in Node /\ Live(cmd.node)
      BY <1>2, HoldersKeepAlive
    <3> QED
      BY <3>1 DEF Balance, NewScene, TypeOK
  <2>6. cmd.t \in Time \union {Unset}
    BY DEF TypeOK, CmdData
  <2>7. ASSUME NEW n \in Node, NEW t \in Time \union {Unset}
        PROVE  /\ AttachCall(n, c) \in Frame /\ AttachCall(n, c).fn # "unref" /\ AttachCall(n, c).node = n
               /\ DetachCall(n, c) \in Frame /\ DetachCall(n, c).fn # "unref" /\ DetachCall(n, c).node = n
               /\ UpdateCall(n, t) \in Frame /\ UpdateCall(n, t).fn # "unref" /\ UpdateCall(n, t).node = n
               /\ DrawCall(n) \in Frame /\ DrawCall(n).fn # "unref" /\ DrawCall(n).node = n
    BY DEF AttachCall, DetachCall, UpdateCall, DrawCall, Call, Frame, Walk
  <2>8. stack' = <<>> \/ \E call \in Frame : call.fn # "unref" /\ Live(call.node) /\ stack' = <<call>>
    <3>1. CASE stack' = <<>>
      BY <3>1
    <3>2. CASE scene[c] # NoNode /\ stack' = <<AttachCall(scene[c], c)>>
      BY <2>4, <2>6, <2>7, <3>2
    <3>3. CASE cmd.node # NoNode /\ pc \in {"scene_attach", "scene_attached"}
               /\ (stack' = <<AttachCall(cmd.node, c)>> \/ stack' = <<DetachCall(cmd.node, c)>>)
      BY <2>5, <2>6, <2>7, <3>3
    <3>4. CASE /\ scene[c] # NoNode
               /\ stack' = <<UpdateCall(scene[c], cmd.t)>> \/ stack' = <<DrawCall(scene[c])>>
      BY <2>4, <2>6, <2>7, <3>4
    <3> QED
      BY <2>3, <3>1, <3>2, <3>3, <3>4
  <2> QED
    BY <1>2, <2>1, <2>2, <2>8, QuietStart
<1> QED
  BY <1>3, <1>4, <1>5 DEF Command

(* Whatever a walk calls is a child of the node it stands at.              *)
LEMMA ChildIsCalled ==
  ASSUME TypeOK, GraphWalk \/ ActivityWalk, NEW f \in Calls(stack')
  PROVE  \/ \E g \in Calls(stack) : f.node = g.node
         \/ \E i \in 1 .. Len(children[Top.node]) : f.node = children[Top.node][i]
<1>1. stack # <<>> /\ stack \in Seq(Frame)
  BY WalkGoes DEF TypeOK
<1>2. /\ Top \in Frame /\ Top \in Calls(stack) /\ Len(children[Top.node]) + 1 \in Nat /\ Top.next + 1 \in Nat
      /\ Top.node \in Node /\ Top = Head(stack)
      /\ Top.next \in 1 .. Len(children[Top.node]) => NextChild \in Node
      /\ Top.active \in BOOLEAN /\ Top.t \in Time \union {Unset} /\ Top.owner \in Ctx \union {NoCtx}
  BY <1>1, RunningCall DEF Top
<1>3. Calls(Tail(stack)) \subseteq Calls(stack)
  BY <1>1, CallsBelow
<1>4. ASSUME NEW g \in Frame, g.node = Top.node, stack' = <<g>> \o Tail(stack)
      PROVE  \E h \in Calls(stack) : f.node = h.node
  <2>1. f = g \/ f \in Calls(Tail(stack))
    BY <1>1, <1>4, CallsOfStack
  <2> QED
    BY <1>2, <1>3, <1>4, <2>1
<1>5. ASSUME Return \/ Fail \/ Abort \/ Descend \/ SkipChildren
      PROVE  \E h \in Calls(stack) : f.node = h.node
  <2>1. CASE Return \/ Fail \/ Abort
    <3>1. CASE stack' = <<>>
      BY <3>1 DEF Calls
    <3> QED
      BY <1>3, <2>1, <3>1 DEF Return, Fail, Abort
  <2>2. ASSUME NEW k \in Nat, stack' = <<[Top EXCEPT !.next = k]>> \o Tail(stack)
        PROVE  \E h \in Calls(stack) : f.node = h.node
    <3> DEFINE g == [Top EXCEPT !.next = k]
    <3>1. g \in Frame /\ g.node = Top.node
      BY <1>2 DEF Frame
    <3>2. stack' = <<g>> \o Tail(stack)
      BY <2>2
    <3> HIDE DEF g
    <3> QED
      BY <1>4, <3>1, <3>2
  <2>3. CASE Descend \/ SkipChildren
    BY <1>2, <2>2, <2>3 DEF Descend, SkipChildren
  <2> QED
    BY <1>5, <2>1, <2>3
<1>6. ASSUME NEW call \in Frame, call.node = NextChild, CallChild(call)
      PROVE  \/ \E g \in Calls(stack) : f.node = g.node
             \/ \E i \in 1 .. Len(children[Top.node]) : f.node = children[Top.node][i]
  <2> DEFINE g == [Top EXCEPT !.next = @ + 1]
  <2>1. g \in Frame /\ g.node = Top.node
    BY <1>2 DEF Frame
  <2>2. stack' = <<call, g>> \o Tail(stack) /\ Top.next \in 1 .. Len(children[Top.node])
    BY <1>6 DEF CallChild
  <2> HIDE DEF g
  <2>3. f = call \/ f = g \/ f \in Calls(Tail(stack))
    <3>1. Calls(<<call, g>> \o Tail(stack)) = {call, g} \union Calls(Tail(stack))
      BY <1>1, <2>1, CallsOfStack
    <3> QED
      BY <2>2, <3>1
  <2> QED
    BY <1>2, <1>3, <1>6, <2>1, <2>2, <2>3 DEF NextChild
<1>7. CASE \/ AttachEnter \/ AttachSucceeds \/ AttachFails \/ DetachSkipsOther \/ DetachEnter
           \/ DetachEnterUninit \/ DetachLeave \/ UnrefEnter \/ UnrefLeave
           \/ VisitSkips \/ VisitLeave \/ UpdateSkips \/ UpdateEnter \/ UpdateLeave \/ UpdateFails
           \/ DrawEnter \/ DrawLeave
  BY <1>5, <1>7 DEF AttachEnter, AttachSucceeds, AttachFails, DetachSkipsOther, DetachEnter,
     DetachEnterUninit, DetachLeave, UnrefEnter, UnrefLeave, VisitSkips, VisitLeave, UpdateSkips,
     UpdateEnter, UpdateLeave, UpdateFails, DrawEnter, DrawLeave
<1>8. CASE AttachChild \/ DetachChild \/ UnrefChild \/ VisitChild \/ UpdateChild \/ DrawChild
  <2>1. Top.next \in 1 .. Len(children[Top.node])
    BY <1>8 DEF AttachChild, DetachChild, UnrefChild, VisitChild, UpdateChild, DrawChild, CallChild
  <2>2. \A t \in Time \union {Unset} :
          /\ AttachCall(NextChild, Top.owner) \in Frame /\ AttachCall(NextChild, Top.owner).node = NextChild
          /\ DetachCall(NextChild, Top.owner) \in Frame /\ DetachCall(NextChild, Top.owner).node = NextChild
          /\ UnrefCall(NextChild) \in Frame /\ UnrefCall(NextChild).node = NextChild
          /\ VisitCall(NextChild, Top.active, Top.t) \in Frame
          /\ VisitCall(NextChild, Top.active, Top.t).node = NextChild
          /\ UpdateCall(NextChild, t) \in Frame /\ UpdateCall(NextChild, t).node = NextChild
          /\ DrawCall(NextChild) \in Frame /\ DrawCall(NextChild).node = NextChild
    BY <1>2, <2>1 DEF AttachCall, DetachCall, UnrefCall, VisitCall, UpdateCall, DrawCall, Call, Frame, Walk
  <2>3. ChildTime(Top.node, Top.t) \in Time \union {Unset}
    BY <1>2, ChildTimeType
  <2>4. \E call \in Frame : call.node = NextChild /\ CallChild(call)
    BY <1>8, <2>2, <2>3 DEF AttachChild, DetachChild, UnrefChild, VisitChild, UpdateChild, DrawChild
  <2> QED
    BY <1>6, <2>4
<1>9. CASE VisitEnter
  <2> DEFINE g == [Top EXCEPT !.next = 1, !.queue = ToQueue(Top.node, Top.t),
                              !.active = ChildActive(Top.node, @, Top.t)]
  <2>1. ChildActive(Top.node, Top.active, Top.t) \in BOOLEAN /\ ToQueue(Top.node, Top.t) \in BOOLEAN
    BY <1>2 DEF ChildActive, ToQueue, TypeOK
  <2>2. g \in Frame /\ g.node = Top.node
    BY <1>2, <2>1 DEF Frame
  <2>3. stack' = <<g>> \o Tail(stack)
    BY <1>9 DEF VisitEnter
  <2> HIDE DEF g
  <2> QED
    BY <1>4, <2>2, <2>3
<1> QED
  BY <1>7, <1>8, <1>9 DEF GraphWalk, GraphStep, ActivityWalk, ActivityStep

(* The walks that free nothing.                                            *)
LEMMA QuietWalks ==
  ASSUME Invariant, Invariant', Balance, Ordered, GraphWalk \/ ActivityWalk, Top.fn # "unref"
  PROVE  Balance'
<1> USE DEF Invariant
<1>1. /\ stack # <<>> /\ stack \in Seq(Frame) /\ Goes(stack, stack') /\ Balanced /\ Top = Head(stack)
      /\ UNCHANGED <<scene, held, pc, cmd>>
  BY WalkGoes DEF TypeOK, Balance, Top
<1>2. UNCHANGED <<children, refcount>>
  BY DEF GraphWalk, GraphStep, AttachEnter, AttachChild, AttachSucceeds, AttachFails,
     DetachSkipsOther, DetachEnter, DetachEnterUninit, DetachChild, DetachLeave,
     UnrefEnter, UnrefChild, UnrefLeave, Entering, Leaving, Running, ActivityWalk, ActivityStep,
     VisitSkips, VisitEnter, VisitChild, VisitLeave, UpdateSkips, UpdateEnter, UpdateChild,
     UpdateLeave, UpdateFails, DrawEnter, DrawChild, DrawLeave, CallChild, nodeVars, paramVars
<1>3. Quiet(stack) /\ Quiet(stack')
  <2>1. stack' # <<>> => Alike(Head(stack'), Top)
    BY <1>1, WalkGoesOn DEF Ordered
  <2>2. OneWalk(stack) /\ OneWalk(stack')
    BY <1>1, WalkGoesOn DEF Ordered
  <2>3. stack' = <<>> => Calls(stack') = {}
    BY DEF Calls
  <2> QED
    BY <1>1, <2>1, <2>2, <2>3 DEF OneWalk, Alike, Quiet
<1>4. \A f \in Calls(stack) : f.node \in Node /\ Live(f.node)
  <2>1. \A f \in Calls(stack) : f \in Frame
    BY <1>1 DEF Calls
  <2> QED
    BY <1>3, <2>1 DEF Balance, Walked, Quiet, Frame
<1>5. Top \in Calls(stack)
  BY <1>1, StackTop
<1>6. \A i \in 1 .. Len(children[Top.node]) : Live(children[Top.node][i])
  BY <1>1, <1>4, <1>5, ChildrenAreLive
<1>7. \A f \in Calls(stack') : Live(f.node)
  BY <1>4, <1>6, ChildIsCalled
<1>8. NewScene'
  BY <1>1 DEF NewScene, Balance
<1>9. Halted'
  <2>1. CASE UpdateSkips \/ UpdateEnter
    <3>1. aborted' => stack' = stack /\ Top.fn = "update"
      BY <2>1 DEF UpdateSkips, UpdateEnter, Entering, Running, Abort, Return, Descend, SkipChildren
    <3> QED
      BY <1>1, <3>1 DEF Halted, Top
  <2>2. CASE DetachEnter
    <3>1. ctx_refcount[Top.node] >= 1
      <4>1. Top.node \in Node /\ ctx[Top.node] = Top.owner /\ Top.owner \in Ctx
        BY <1>1, <1>4, <1>5, <2>2 DEF DetachEnter, Entering, Running, CallsOK
      <4>2. ctx_refcount[Top.node] # 0 /\ ctx_refcount[Top.node] >= 0 /\ ctx_refcount[Top.node] \in Int
        BY <4>1, NodeAssumption DEF OwnerCounted, TypeOK
      <4> DEFINE k == ctx_refcount[Top.node]
      <4>3. k \in Int /\ k # 0 /\ k >= 0
        BY <4>2
      <4> HIDE DEF k
      <4>4. k >= 1
        BY <4>3
      <4> QED
        BY <4>4 DEF k
    <3>2. ~aborted'
      BY <2>2, <3>1 DEF DetachEnter, Entering, Running, Descend
    <3> QED
      BY <3>2 DEF Halted
  <2>3. CASE ~(UpdateSkips \/ UpdateEnter \/ DetachEnter)
    <3>1. ~aborted'
      BY <2>3 DEF GraphWalk, GraphStep, AttachEnter, AttachChild, AttachSucceeds, AttachFails,
         DetachSkipsOther, DetachEnterUninit, DetachChild, DetachLeave,
         UnrefEnter, UnrefChild, UnrefLeave, Entering, Leaving, Running, ActivityWalk, ActivityStep,
         VisitSkips, VisitEnter, VisitChild, VisitLeave, UpdateChild,
         UpdateLeave, UpdateFails, DrawEnter, DrawChild, DrawLeave, CallChild,
         Return, Fail, Descend, SkipChildren
    <3> QED
      BY <3>1 DEF Halted
  <2> QED
    BY <2>1, <2>2, <2>3
<1> QED
  BY <1>2, <1>1, <1>3, <1>7, <1>8, <1>9, QuietStep

(* The nodes on a path from a scene are live.                              *)
LEMMA PathIsLive ==
  ASSUME TypeOK, Balanced, NEW c \in Ctx, scene[c] # NoNode, NEW s \in PathsFrom(children, scene[c])
  PROVE  \A m \in 1 .. Len(s) : s[m][1] \in Node /\ Live(s[m][1])
<1>1. /\ s \in Paths /\ s[1] = <<scene[c], 0>> /\ Valid(children, s) /\ Len(s) \in Nat \ {0}
      /\ \A m \in 1 .. Len(s) : s[m][1] \in Node
  BY PathsType DEF PathsFrom
<1> DEFINE G == {k \in Nat : k < Len(s) => Live(s[k + 1][1])}
           N == Len(s) - 1
<1>2. N \in Nat /\ N + 1 = Len(s) /\ 1 \in 1 .. Len(s)
  BY <1>1
<1>3. 0 \in G
  <2>1. s[0 + 1][1] = scene[c]
    BY <1>1
  <2> QED
    BY <2>1, SceneIsLive
<1>4. \A k \in 0 .. N - 1 : k \in G => k + 1 \in G
  <2> SUFFICES ASSUME NEW k \in 0 .. N - 1, k \in G, k + 1 < Len(s)
               PROVE  Live(s[k + 1 + 1][1])
    <3>1. \A k \in 0 .. N - 1 : k + 1 \in Nat
      BY <1>2
    <3> QED
      BY <3>1
  <2>1. k + 1 \in 1 .. Len(s) - 1 /\ k + 1 \in 1 .. Len(s) /\ k < Len(s)
    BY <1>1, <1>2
  <2>2. Live(s[k + 1][1]) /\ s[k + 1][1] \in Node
    BY <1>1, <2>1
  <2>3. PICK i \in 1 .. Len(children[s[k + 1][1]]) : s[k + 1 + 1][1] = children[s[k + 1][1]][i]
    BY <1>1, <2>1 DEF Valid
  <2> QED
    BY <2>2, <2>3, ChildrenAreLive
<1> HIDE DEF G, N
<1>5. \A k \in 0 .. N : k \in G
  BY <1>2, <1>3, <1>4, CountingUp
<1> SUFFICES ASSUME NEW m \in 1 .. Len(s)
             PROVE  Live(s[m][1])
  BY <1>1
<1>6. m - 1 \in 0 .. N /\ m - 1 < Len(s) /\ m - 1 + 1 = m
  BY <1>1, <1>2
<1> QED
  BY <1>5, <1>6 DEF G

(* A node that nothing but its release holds has no context: the scene of  *)
(* its context would lead to it.                                           *)
LEMMA UnheldIsDetached ==
  ASSUME Invariant, Ordered, Attachment, Balanced, stack # <<>>, Top.fn = "unref",
         NEW n \in Node, Kept(n) = {}, Uses(n) = {}
  PROVE  ctx[n] = NoCtx
<1> USE DEF Invariant
<1> SUFFICES ASSUME ctx[n] # NoCtx
             PROVE  FALSE
  OBVIOUS
<1>1. PICK P \in [Ctx -> SUBSET Paths] : Pathwise(P)
  BY DEF Attachment
<1>2. PICK c \in Ctx : c = ctx[n]
  BY DEF TypeOK
<1>3. P[c] = Whole(c)
  <2>1. pc \in {"idle", "scene_attach", "free_stop"}
    BY DEF Ordered, WalkStands, Stands
  <2> QED
    BY <1>1, <2>1 DEF Pathwise, Shape, Walking
<1>4. PICK s \in P[c] : End(s) = n
  BY <1>1, <1>2, AttachedByPath DEF Pathwise
<1>5. scene[c] # NoNode /\ s \in PathsFrom(children, scene[c])
  BY <1>3, <1>4 DEF Whole
<1>6. /\ s[1] = <<scene[c], 0>> /\ Valid(children, s) /\ Len(s) \in Nat \ {0} /\ s[Len(s)][1] = n
      /\ children \in [Node -> Seq(Node)]
  BY <1>4, <1>5, PathsType DEF PathsFrom, End, TypeOK
<1>7. CASE Len(s) = 1
  <2>1. scene[c] = n
    BY <1>6, <1>7
  <2> QED
    BY <2>1 DEF Uses
<1>8. CASE Len(s) # 1
  <2> DEFINE j == Len(s) - 1
             p == s[j][1]
             i == s[j + 1][2]
  <2>1. j \in 1 .. Len(s) - 1 /\ j \in 1 .. Len(s) /\ j + 1 = Len(s)
    <3>1. \A k \in Nat \ {0} : k # 1 => k - 1 \in 1 .. k - 1 /\ k - 1 \in 1 .. k /\ k - 1 + 1 = k
      OBVIOUS
    <3> QED
      BY <1>6, <1>8, <3>1
  <2>2. p \in Node /\ Live(p)
    BY <1>5, <2>1, PathIsLive
  <2>3. i \in 1 .. Len(children[p]) /\ children[p][i] = n
    BY <1>6, <2>1 DEF Valid
  <2> HIDE DEF p, i, j
  <2>4. <<p, i>> \in References(children, n)
    BY <1>6, <2>2, <2>3, ReferenceIsChild
  <2> DEFINE e == <<p, i>>
  <2>5. e[1] = p /\ e \in References(children, n)
    BY <2>4
  <2> HIDE DEF e
  <2> QED
    BY <2>2, <2>5 DEF Kept, KeptBy, Live
<1> QED
  BY <1>7, <1>8

(* A release drops a reference, and begins to free the node with the last. *)
LEMMA EnterBalances ==
  ASSUME Invariant, Ordered, Attachment, Balance, UnrefEnter, UNCHANGED <<scene, held, pc, cmd>>
  PROVE  Balance'
<1> USE DEF Invariant
<1>1. /\ stack # <<>> /\ stack \in Seq(Frame) /\ Top = Head(stack) /\ Top \in Frame /\ Top \in Calls(stack)
      /\ Top.fn = "unref" /\ Top.next = 0 /\ Top.node \in Node /\ ~aborted
  BY RunningCall DEF UnrefEnter, Entering, Running, TypeOK, Top
<1>2. PICK n \in Node : n = Top.node
  BY <1>1
<1>3. /\ refcount' = [refcount EXCEPT ![n] = @ - 1] /\ UNCHANGED <<children, scene, held, pc, cmd>>
      /\ refcount \in [Node -> Int]
  BY <1>2 DEF UnrefEnter, TypeOK, paramVars
<1>4. Dropping(stack, n) = 1 /\ \A m \in Node : m # n => Dropping(stack, m) = 0
  BY <1>1, <1>2 DEF Dropping
<1>5. /\ refcount[n] = Own(n) + Cardinality(Kept(n)) + Cardinality(Uses(n)) + 1
      /\ Live(n) /\ refcount[n] \in Nat
  BY <1>4, HoldersKeepAlive DEF Balance, Balanced
<1>6. /\ Own(n) \in Nat /\ Cardinality(Kept(n)) \in Nat /\ Cardinality(Uses(n)) \in Nat
      /\ IsFiniteSet(Kept(n)) /\ IsFiniteSet(Uses(n))
  BY SizesOfHolders
<1>7. \A g \in Calls(Tail(stack)) : g \in Calls(stack) /\ g.fn = "unref" /\ g.next > 0 /\ Freeing(g)
                                    /\ refcount[g.node] = 0 /\ g.node # n
  <2> SUFFICES ASSUME NEW g \in Calls(Tail(stack))
               PROVE  g \in Calls(stack) /\ g.fn = "unref" /\ g.next > 0 /\ Freeing(g)
                      /\ refcount[g.node] = 0 /\ g.node # n
    OBVIOUS
  <2>1. g \in Calls(stack)
    BY <1>1, CallsBelow
  <2>2. PICK j \in 1 .. Len(stack) - 1 : g = FrameAt(stack, j)
    BY <1>1, CallsBelow
  <2>3. g.fn = "unref"
    BY <1>1, <2>1 DEF Ordered, OneWalk, Alike
  <2>4. g.next > 0
    BY <2>2, <2>3 DEF Balance, Waiting
  <2>5. Freeing(g) /\ refcount[g.node] = 0
    BY <2>1, <2>3, <2>4 DEF Freeing, Balance, Walked
  <2> QED
    BY <1>5, <2>1, <2>3, <2>4, <2>5 DEF Live
<1>8. ~Freeing(Top)
  BY <1>1 DEF Freeing
<1>9. Calls(stack) = {Top} \union Calls(Tail(stack)) /\ Tail(stack) \in Seq(Frame)
  BY <1>1, CallsBelow, StackTop
<1>10. NewScene'
  BY <1>3 DEF Balance, NewScene
(* It is enough that the same references are kept, and nothing is dropped. *)
<1>11. ASSUME \A m \in Node : Kept(m)' = Kept(m), \A m \in Node : Dropping(stack', m) = 0
       PROVE  Balanced'
  <2> SUFFICES ASSUME NEW m \in Node
               PROVE  refcount'[m] = Own(m)' + Cardinality(Kept(m)')
                                   + Cardinality(Uses(m)') + Dropping(stack', m)
    BY DEF Balanced
  <2>1. Own(m)' = Own(m) /\ Uses(m)' = Uses(m)
    BY <1>3 DEF Own, Uses
  <2>2. refcount[m] = Own(m) + Cardinality(Kept(m)) + Cardinality(Uses(m)) + Dropping(stack, m)
    BY DEF Balance, Balanced
  <2>3. Own(m) \in Nat /\ Cardinality(Kept(m)) \in Nat /\ Cardinality(Uses(m)) \in Nat
    BY SizesOfHolders
  <2>4. CASE m = n
    <3> DEFINE o == Own(n)
               k == Cardinality(Kept(n))
               u == Cardinality(Uses(n))
    <3>1. o \in Nat /\ k \in Nat /\ u \in Nat /\ refcount'[n] = o + k + u + 1 - 1
      BY <1>3, <1>5, <2>3, <2>4
    <3>2. Own(n)' = o /\ Cardinality(Kept(n)') = k /\ Cardinality(Uses(n)') = u /\ Dropping(stack', n) = 0
      BY <1>11, <2>1, <2>4
    <3> HIDE DEF o, k, u
    <3> QED
      BY <2>4, <3>1, <3>2
  <2>5. CASE m # n
    BY <1>3, <1>4, <1>11, <2>1, <2>2, <2>5
  <2> QED
    BY <2>4, <2>5
<1>12. CASE refcount[n] # 1
  <2>1. stack' = Tail(stack) /\ aborted' = aborted
    BY <1>2, <1>12 DEF UnrefEnter, Return
  <2>2. \A p \in Node : refcount'[p] > 0 <=> refcount[p] > 0
    <3>1. refcount[n] > 1
      BY <1>5, <1>12 DEF Live
    <3> QED
      BY <1>3, <1>5, <3>1
  <2>3. \A e : HeldBy(stack', e) <=> HeldBy(stack, e)
    BY <1>8, <1>9, <2>1 DEF HeldBy
  <2>4. \A m \in Node : Kept(m)' = Kept(m)
    <3>1. \A m \in Node : \A e \in References(children, m) : e[1] \in Node
      BY DEF References
    <3> QED
      BY <1>3, <2>2, <2>3, <3>1 DEF Kept, KeptBy
  <2>5. \A m \in Node : Dropping(stack', m) = 0
    <3>1. Tail(stack) # <<>> => Head(Tail(stack)) \in Calls(Tail(stack))
      BY <1>9, StackTop
    <3> QED
      BY <1>7, <2>1, <3>1 DEF Dropping
  <2>6. Balanced'
    BY <1>11, <2>4, <2>5
  <2>7. FreedOnce(stack') /\ Waiting(stack')
    BY <1>1, <2>1, StackStaysApart DEF Balance
  <2>8. Walked'
    <3>1. \A g \in Calls(Tail(stack)) : refcount'[g.node] = refcount[g.node]
      <4>1. \A g \in Calls(Tail(stack)) : g \in Frame
        BY <1>9 DEF Calls
      <4> QED
        BY <1>3, <1>7, <4>1 DEF Frame
    <3> QED
      BY <1>7, <2>1, <3>1 DEF Walked
  <2>9. Halted'
    BY <1>1, <2>1 DEF Halted
  <2> QED
    BY <1>10, <2>6, <2>7, <2>8, <2>9 DEF Balance
<1>13. CASE refcount[n] = 1
  <2>1. Kept(n) = {} /\ Uses(n) = {}
    <3> DEFINE o == Own(n)
               k == Cardinality(Kept(n))
               u == Cardinality(Uses(n))
    <3>1. o \in Nat /\ k \in Nat /\ u \in Nat /\ o + k + u + 1 = 1
      BY <1>5, <1>6, <1>13
    <3>2. k = 0 /\ u = 0
      <4> HIDE DEF o, k, u
      <4> QED
        BY <3>1
    <3> QED
      BY <1>6, <3>2, FS_EmptySet
  <2>2. ctx[n] = NoCtx
    BY <1>1, <2>1, UnheldIsDetached DEF Balance
  <2> DEFINE f == [Top EXCEPT !.next = 1]
  <2>3. f \in Frame /\ f.fn = "unref" /\ f.next = 1 /\ f.node = n /\ Freeing(f)
    BY <1>1, <1>2 DEF Frame, Freeing
  <2>4. stack' = <<f>> \o Tail(stack) /\ aborted' = aborted
    BY <1>2, <1>13, <2>2 DEF UnrefEnter, Descend
  <2> HIDE DEF f
  <2>5. Calls(stack') = {f} \union Calls(Tail(stack))
    BY <1>1, <2>3, <2>4, CallsOfStack
  <2>6. \A m \in Node : Kept(m)' = Kept(m)
    <3> SUFFICES ASSUME NEW m \in Node
                 PROVE  Kept(m)' = Kept(m)
      OBVIOUS
    <3>1. ASSUME NEW e \in References(children, m)
          PROVE  (refcount'[e[1]] > 0 \/ HeldBy(stack', e)) <=> (refcount[e[1]] > 0 \/ HeldBy(stack, e))
      <4>1. e[1] \in Node /\ e[2] \in Nat \ {0}
        <5>1. children \in [Node -> Seq(Node)]
          BY DEF TypeOK
        <5>2. PICK p \in Node : \E i \in 1 .. Len(children[p]) : e = <<p, i>> /\ children[p][i] = m
          BY <5>1, ReferenceIsChild
        <5> QED
          BY <5>2
      <4>2. HeldBy(stack', e) <=> (e[1] = n \/ HeldBy(stack, e))
        BY <1>8, <1>9, <2>3, <2>5, <4>1 DEF HeldBy
      <4>3. CASE e[1] = n
        BY <1>13, <4>2, <4>3
      <4>4. CASE e[1] # n
        BY <1>3, <4>1, <4>2, <4>4
      <4> QED
        BY <4>3, <4>4
    <3>2. Kept(m)' = {e \in References(children, m) : refcount'[e[1]] > 0 \/ HeldBy(stack', e)}
      BY <1>3 DEF Kept, KeptBy
    <3>3. Kept(m) = {e \in References(children, m) : refcount[e[1]] > 0 \/ HeldBy(stack, e)}
      BY DEF Kept, KeptBy
    <3> QED
      BY <3>1, <3>2, <3>3
  <2>7. \A m \in Node : Dropping(stack', m) = 0
    <3>1. Head(stack') = f
      BY <2>4
    <3> QED
      BY <2>3, <3>1 DEF Dropping
  <2>8. Balanced'
    BY <1>11, <2>6, <2>7
  <2>9. FreedOnce(stack') /\ Waiting(stack')
    BY <1>1, <1>7, <2>3, <2>4, StackStaysApart DEF Balance
  <2>10. Walked'
    <3>1. \A g \in Calls(Tail(stack)) : refcount'[g.node] = refcount[g.node]
      <4>1. \A g \in Calls(Tail(stack)) : g \in Frame
        BY <1>9 DEF Calls
      <4> QED
        BY <1>3, <1>7, <4>1 DEF Frame
    <3>2. refcount'[n] = 0
      BY <1>3, <1>13
    <3> QED
      BY <1>7, <2>3, <2>5, <3>1, <3>2 DEF Walked
  <2>11. Halted'
    BY <1>1, <2>4 DEF Halted
  <2> QED
    BY <1>10, <2>8, <2>9, <2>10, <2>11 DEF Balance
<1> QED
  BY <1>12, <1>13

(* The calls below a release that frees its node are releases that free    *)
(* others.                                                                 *)
LEMMA ReleasesBelow ==
  ASSUME TypeOK, Ordered, Balance, stack # <<>>, Top.fn = "unref"
  PROVE  \A g \in Calls(Tail(stack)) :
           /\ g \in Frame /\ g \in Calls(stack) /\ Freeing(g) /\ g.next > 0 /\ refcount[g.node] = 0
           /\ Freeing(Top) => g.node # Top.node
<1>1. stack \in Seq(Frame) /\ Top = Head(stack) /\ Top \in Calls(stack) /\ Tail(stack) \in Seq(Frame)
  BY StackTop DEF TypeOK, Top
<1> SUFFICES ASSUME NEW g \in Calls(Tail(stack))
             PROVE  /\ g \in Frame /\ g \in Calls(stack) /\ Freeing(g) /\ g.next > 0 /\ refcount[g.node] = 0
                    /\ Freeing(Top) => g.node # Top.node
  OBVIOUS
<1>2. g \in Calls(stack) /\ g \in Frame
  BY <1>1, CallsBelow DEF Calls
<1>3. PICK j \in 1 .. Len(stack) - 1 : g = FrameAt(stack, j)
  BY <1>1, CallsBelow
<1>4. g.fn = "unref"
  BY <1>1, <1>2 DEF Ordered, OneWalk, Alike
<1>5. g.next > 0
  BY <1>3, <1>4 DEF Balance, Waiting
<1>6. Freeing(g) /\ refcount[g.node] = 0
  BY <1>2, <1>4, <1>5 DEF Freeing, Balance, Walked
<1> QED
  BY <1>1, <1>2, <1>5, <1>6, FreedApart DEF Balance

LEMMA HolderOf ==
  ASSUME TypeOK, NEW n, NEW e \in References(children, n)
  PROVE  \E p \in Node : \E i \in 1 .. Len(children[p]) : e = <<p, i>> /\ children[p][i] = n
<1>1. children \in [Node -> Seq(Node)]
  BY DEF TypeOK
<1> QED
  BY <1>1, ReferenceIsChild

(* A freed node lets go of its next child, whose release starts.           *)
LEMMA ChildBalances ==
  ASSUME Invariant, Ordered, Balance, UnrefChild, UNCHANGED <<scene, held, pc, cmd>>
  PROVE  Balance'
<1> USE DEF Invariant
<1>0. children \in [Node -> Seq(Node)]
  BY DEF TypeOK
<1>1. /\ stack # <<>> /\ stack \in Seq(Frame) /\ Top = Head(stack) /\ Top \in Frame /\ Top \in Calls(stack)
      /\ Top.fn = "unref" /\ Top.node \in Node /\ ~aborted /\ Top.next \in 1 .. Len(children[Top.node])
      /\ children \in [Node -> Seq(Node)]
  BY RunningCall DEF UnrefChild, CallChild, Running, TypeOK, Top
<1>2. PICK p \in Node, i \in Nat : p = Top.node /\ i = Top.next /\ i \in 1 .. Len(children[p])
  BY <1>1
<1>3. PICK n \in Node : n = children[p][i]
  BY <1>1, <1>2
<1>4. i \in Nat /\ i > 0 /\ Freeing(Top) /\ refcount[p] = 0
  BY <1>1, <1>2 DEF Freeing, Balance, Walked
<1> DEFINE e == UnrefCall(n)
           f == [Top EXCEPT !.next = @ + 1]
           x == <<p, i>>
<1>5. e \in Frame /\ e.fn = "unref" /\ e.next = 0 /\ e.node = n /\ ~Freeing(e)
  BY DEF UnrefCall, Call, Frame, Walk, Freeing
<1>6. f \in Frame /\ f.fn = "unref" /\ f.next = i + 1 /\ f.next > 0 /\ f.node = p /\ Freeing(f)
  <2>0. Top \in Frame /\ Top.next + 1 \in Nat
    BY <1>1, <1>2
  <2>1. f \in Frame /\ f.fn = Top.fn /\ f.next = Top.next + 1 /\ f.node = Top.node
    BY <2>0 DEF Frame
  <2> HIDE DEF f
  <2> QED
    BY <1>1, <1>2, <1>4, <2>1 DEF Freeing
<1>7. x[1] = p /\ x[2] = i
  OBVIOUS
<1>8. stack' = <<e, f>> \o Tail(stack) /\ UNCHANGED <<children, refcount, scene, held, aborted>>
  BY <1>2, <1>3 DEF UnrefChild, CallChild, NextChild, nodeVars, paramVars
<1>9. x \in References(children, n)
  BY <1>1, <1>2, <1>3, ReferenceIsChild
<1> HIDE DEF e, f, x
<1>10. /\ Calls(stack) = {Top} \union Calls(Tail(stack))
       /\ Calls(stack') = {e, f} \union Calls(Tail(stack))
  <2>1. Calls(<<e, f>> \o Tail(stack)) = {e, f} \union Calls(Tail(stack))
    BY <1>1, <1>5, <1>6, CallsOfStack
  <2> QED
    BY <1>1, <1>8, <2>1, CallsBelow
<1>11. \A g \in Calls(Tail(stack)) : Freeing(g) /\ g.next > 0 /\ refcount[g.node] = 0 /\ g.node # p
  BY <1>1, <1>2, <1>4, ReleasesBelow
<1>12. ASSUME NEW m \in Node, NEW y \in References(children, m)
       PROVE  /\ y[1] \in Node /\ y[2] \in Nat
              /\ HeldBy(stack, y) <=> HeldBy(stack', y) \/ y = x
              /\ y = x => ~HeldBy(stack', y) /\ refcount[y[1]] = 0 /\ m = n
  <2>1. PICK q \in Node : \E j \in 1 .. Len(children[q]) : y = <<q, j>> /\ children[q][j] = m
    BY <1>12, HolderOf
  <2>2. PICK j \in 1 .. Len(children[q]) : y = <<q, j>> /\ children[q][j] = m
    BY <2>1
  <2>3. y[1] = q /\ y[2] = j /\ j \in Nat
    BY <1>1, <2>2
  <2>4. HeldBy(stack, y) <=> (q = p /\ i <= j) \/ HeldBy(Tail(stack), y)
    BY <1>2, <1>4, <1>10, <2>3 DEF HeldBy
  <2>5. HeldBy(stack', y) <=> (q = p /\ i + 1 <= j) \/ HeldBy(Tail(stack), y)
    BY <1>5, <1>6, <1>10, <2>3 DEF HeldBy
  <2>6. q = p => ~HeldBy(Tail(stack), y)
    BY <1>11, <2>3 DEF HeldBy
  <2>7. y = x <=> q = p /\ j = i
    BY <2>2 DEF x
  <2> QED
    BY <1>3, <1>4, <2>2, <2>3, <2>4, <2>5, <2>6, <2>7
<1>13. \A m \in Node : Kept(m)' = IF m = n THEN Kept(m) \ {x} ELSE Kept(m)
  <2> SUFFICES ASSUME NEW m \in Node
               PROVE  Kept(m)' = IF m = n THEN Kept(m) \ {x} ELSE Kept(m)
    OBVIOUS
  <2>1. Kept(m)' = {y \in References(children, m) : refcount[y[1]] > 0 \/ HeldBy(stack', y)}
    BY <1>8 DEF Kept, KeptBy
  <2>2. Kept(m) = {y \in References(children, m) : refcount[y[1]] > 0 \/ HeldBy(stack, y)}
    BY DEF Kept, KeptBy
  <2>3. \A y \in References(children, m) :
           (refcount[y[1]] > 0 \/ HeldBy(stack', y)) <=>
             ((refcount[y[1]] > 0 \/ HeldBy(stack, y)) /\ ~(y = x /\ m = n))
    BY <1>12
  <2> QED
    BY <2>1, <2>2, <2>3
<1>14. x \in Kept(n)
  BY <1>9, <1>12 DEF Kept, KeptBy
<1>15. \A m \in Node : Dropping(stack, m) = 0 /\ Dropping(stack', m) = IF m = n THEN 1 ELSE 0
  <2>1. Head(stack') = e /\ stack' # <<>>
    <3>1. stack' \in Seq(Frame) /\ Head(stack') = e
      BY <1>1, <1>5, <1>6, <1>8, StackOperations, HeadTailProperties, ConcatProperties, <1>1
    <3> QED
      BY <1>10, <3>1 DEF Calls
  <2> QED
    BY <1>1, <1>4, <1>2, <1>5, <2>1 DEF Dropping
<1>16. Balanced'
  <2> SUFFICES ASSUME NEW m \in Node
               PROVE  refcount'[m] = Own(m)' + Cardinality(Kept(m)')
                                   + Cardinality(Uses(m)') + Dropping(stack', m)
    BY DEF Balanced
  <2>1. Own(m)' = Own(m) /\ Uses(m)' = Uses(m) /\ refcount'[m] = refcount[m]
    BY <1>8 DEF Own, Uses
  <2>2. refcount[m] = Own(m) + Cardinality(Kept(m)) + Cardinality(Uses(m)) + Dropping(stack, m)
    BY DEF Balance, Balanced
  <2>3. Own(m) \in Nat /\ Cardinality(Kept(m)) \in Nat /\ Cardinality(Uses(m)) \in Nat /\ IsFiniteSet(Kept(m))
    BY SizesOfHolders
  <2>4. Cardinality(Kept(m)') = IF m = n THEN Cardinality(Kept(m)) - 1 ELSE Cardinality(Kept(m))
    BY <1>13, <1>14, <2>3, FS_RemoveElement
  <2> DEFINE o == Own(m)
             k == Cardinality(Kept(m))
             u == Cardinality(Uses(m))
  <2>5. o \in Nat /\ k \in Nat /\ u \in Nat /\ refcount'[m] = o + k + u
    BY <1>15, <2>1, <2>2, <2>3
  <2>6. /\ Own(m)' = o /\ Cardinality(Uses(m)') = u
        /\ Cardinality(Kept(m)') + Dropping(stack', m) = k
    BY <1>15, <2>1, <2>3, <2>4
  <2>7. Cardinality(Kept(m)') \in Int /\ Dropping(stack', m) \in {0, 1}
    BY <1>15, <2>3, <2>4
  <2> DEFINE l == Cardinality(Kept(m)')
             d == Dropping(stack', m)
  <2>8. l + d = k /\ l \in Int /\ d \in Int
    BY <2>6, <2>7
  <2> HIDE DEF o, k, u, l, d
  <2>9. o + k + u = o + l + u + d
    BY <2>5, <2>8
  <2> QED
    BY <2>5, <2>6, <2>9 DEF l, d
<1>17. FreedOnce(stack') /\ Waiting(stack')
  <2>1. \A g \in Calls(Tail(stack)) : Freeing(g) => g.node # f.node
    BY <1>6, <1>11
  <2>2. FreedOnce(<<e, f>> \o Tail(stack)) /\ Waiting(<<e, f>> \o Tail(stack))
    BY <1>1, <1>5, <1>6, <2>1, StackStaysApart DEF Balance
  <2> QED
    BY <1>8, <2>2
<1>18. Walked'
  <2>1. \A g \in Calls(stack') : g.fn = "unref" /\ (Freeing(g) => refcount[g.node] = 0)
    BY <1>4, <1>5, <1>6, <1>10, <1>11 DEF Freeing
  <2> QED
    BY <1>8, <2>1 DEF Walked
<1>19. NewScene' /\ Halted'
  BY <1>1, <1>8 DEF Balance, NewScene, Halted
<1> QED
  BY <1>16, <1>17, <1>18, <1>19 DEF Balance

(* The walk has come to the end of the children of a freed node.           *)
LEMMA LeaveBalances ==
  ASSUME Invariant, Ordered, Balance, UnrefLeave, UNCHANGED <<scene, held, pc, cmd>>
  PROVE  Balance'
<1> USE DEF Invariant
<1>0. children \in [Node -> Seq(Node)]
  BY DEF TypeOK
<1>1. /\ stack # <<>> /\ stack \in Seq(Frame) /\ Top = Head(stack) /\ Top \in Frame /\ Top \in Calls(stack)
      /\ Top.fn = "unref" /\ Top.node \in Node /\ ~aborted
      /\ children \in [Node -> Seq(Node)]
  BY RunningCall DEF UnrefLeave, Leaving, Running, TypeOK, Top
<1>2. PICK p \in Node, l \in Nat : p = Top.node /\ l = Len(children[p])
  BY <1>1
<1>3. Top.next = l + 1 /\ Freeing(Top) /\ refcount[p] = 0
  BY <1>1, <1>2 DEF UnrefLeave, Leaving, Freeing, Balance, Walked
<1>4. stack' = Tail(stack) /\ children' = [children EXCEPT ![p] = <<>>]
      /\ UNCHANGED <<refcount, scene, held, aborted>>
  BY <1>2 DEF UnrefLeave, Return
<1>5. Calls(stack) = {Top} \union Calls(Tail(stack)) /\ Tail(stack) \in Seq(Frame)
  BY <1>1, CallsBelow, StackTop
<1>6. \A g \in Calls(Tail(stack)) : Freeing(g) /\ g.next > 0 /\ refcount[g.node] = 0 /\ g.node # p
  BY <1>1, <1>2, <1>3, ReleasesBelow
<1>7. ASSUME NEW m \in Node
      PROVE  Kept(m)' = Kept(m)
  <2>1. ASSUME NEW y
        PROVE  y \in References(children', m) <=> y \in References(children, m) /\ y[1] # p
    <3>1. y \in References(children, m) <=>
            \E q \in Node : \E j \in 1 .. Len(children[q]) : y = <<q, j>> /\ children[q][j] = m
      BY <1>0, ReferenceIsChild, SMTT(30)
    <3>2. children' \in [Node -> Seq(Node)]
      BY <1>1, <1>4
    <3>3. y \in References(children', m) <=>
            \E q \in Node : \E j \in 1 .. Len(children'[q]) : y = <<q, j>> /\ children'[q][j] = m
      BY <3>2, ReferenceIsChild, SMTT(30)
    <3>4. children'[p] = <<>> /\ Len(children'[p]) = 0 /\ 1 .. 0 = {}
      BY <1>1, <1>4
    <3>5. \A q \in Node : q # p => children'[q] = children[q]
      BY <1>1, <1>4
    <3> QED
      BY <3>1, <3>3, <3>4, <3>5
  <2>2. ASSUME NEW y \in References(children, m)
        PROVE  /\ HeldBy(stack', y) <=> HeldBy(stack, y)
               /\ y[1] = p => ~HeldBy(stack, y) /\ ~(refcount[y[1]] > 0)
    <3>1. PICK q \in Node : \E j \in 1 .. Len(children[q]) : y = <<q, j>> /\ children[q][j] = m
      BY <1>0, ReferenceIsChild
    <3>2. PICK j \in 1 .. Len(children[q]) : y = <<q, j>>
      BY <3>1
    <3>3. y[1] = q /\ y[2] = j /\ j \in Nat
      BY <1>1, <3>2
    <3>4. q = p => ~(l + 1 <= j)
      BY <1>2, <3>2
    <3>5. HeldBy(stack, y) <=> (q = p /\ l + 1 <= j) \/ HeldBy(Tail(stack), y)
      BY <1>2, <1>3, <1>5, <3>3 DEF HeldBy
    <3>6. q = p => ~HeldBy(Tail(stack), y)
      BY <1>6, <3>3 DEF HeldBy
    <3> QED
      BY <1>3, <1>4, <3>3, <3>4, <3>5, <3>6
  <2>3. Kept(m)' = {y \in References(children', m) : refcount[y[1]] > 0 \/ HeldBy(stack', y)}
    BY <1>4 DEF Kept, KeptBy
  <2>4. Kept(m) = {y \in References(children, m) : refcount[y[1]] > 0 \/ HeldBy(stack, y)}
    BY DEF Kept, KeptBy
  <2> HIDE DEF HeldBy
  <2> QED
    BY <2>1, <2>2, <2>3, <2>4
<1>8. \A m \in Node : Dropping(stack, m) = 0 /\ Dropping(stack', m) = 0
  <2>1. Tail(stack) # <<>> => Head(Tail(stack)) \in Calls(Tail(stack))
    BY <1>5, StackTop
  <2> QED
    BY <1>1, <1>2, <1>3, <1>4, <1>6, <2>1, SMTT(30) DEF Dropping
<1>9. Balanced'
  <2> SUFFICES ASSUME NEW m \in Node
               PROVE  refcount'[m] = Own(m)' + Cardinality(Kept(m)')
                                   + Cardinality(Uses(m)') + Dropping(stack', m)
    BY DEF Balanced
  <2>1. Own(m)' = Own(m) /\ Uses(m)' = Uses(m) /\ refcount'[m] = refcount[m]
    BY <1>4 DEF Own, Uses
  <2> QED
    BY <1>7, <1>8, <2>1 DEF Balance, Balanced
<1>10. FreedOnce(stack') /\ Waiting(stack')
  BY <1>1, <1>4, StackStaysApart DEF Balance
<1>11. Walked'
  <2>1. \A g \in Calls(stack') : g.fn = "unref" /\ refcount[g.node] = 0
    BY <1>4, <1>6 DEF Freeing
  <2> QED
    BY <1>4, <2>1 DEF Walked
<1>12. NewScene' /\ Halted'
  BY <1>1, <1>4 DEF Balance, NewScene, Halted
<1> QED
  BY <1>9, <1>10, <1>11, <1>12 DEF Balance

LEMMA WalkBalances ==
  ASSUME Invariant, Invariant', Ordered, Attachment, Balance, GraphWalk \/ ActivityWalk
  PROVE  Balance'
<1>1. UNCHANGED <<scene, held, pc, cmd>>
  BY WalkGoes DEF Invariant
<1>2. CASE Top.fn # "unref"
  BY <1>2, QuietWalks
<1>3. CASE Top.fn = "unref"
  <2>1. UnrefEnter \/ UnrefChild \/ UnrefLeave
    BY <1>3 DEF GraphWalk, GraphStep, AttachEnter, AttachChild, AttachSucceeds, AttachFails,
       DetachSkipsOther, DetachEnter, DetachEnterUninit, DetachChild, DetachLeave,
       Entering, Leaving, Running, ActivityWalk, ActivityStep,
       VisitSkips, VisitEnter, VisitChild, VisitLeave, UpdateSkips, UpdateEnter, UpdateChild,
       UpdateLeave, UpdateFails, DrawEnter, DrawChild, DrawLeave
  <2> QED
    BY <1>1, <2>1, EnterBalances, ChildBalances, LeaveBalances
<1> QED
  BY <1>2, <1>3

LEMMA BalancePreserved ==
  Invariant /\ Ordered /\ Attachment /\ Balance /\ FreesNoScene /\ [Next]_vars => Balance'
<1> SUFFICES ASSUME Invariant, Ordered, Attachment, Balance, FreesNoScene, [Next]_vars
             PROVE  Balance'
  OBVIOUS
<1>1. CASE UNCHANGED vars
  BY <1>1 DEF Balance, Balanced, Walked, NewScene, Halted, Kept, Uses, Own, Live, Top,
     vars, nodeVars, paramVars, lifeVars, callVars, ctxVars
<1>2. CASE Next
  <2>1. Invariant'
    BY <1>2, NextPreserves
  <2> QED
    BY <1>2, <2>1, ClientBalances, CommandBalances, WalkBalances DEF Next
<1> QED
  BY <1>1, <1>2

LEMMA BalanceInitially == Init => Balance
<1> SUFFICES ASSUME Init
             PROVE  Balance
  OBVIOUS
<1>1. TypeOK
  BY InitEstablishes DEF Invariant
<1>2. /\ children = InitChildren /\ stack = <<>> /\ held = Node /\ ~aborted /\ pc = "idle"
      /\ Calls(stack) = {} /\ Quiet(stack) /\ stack \in Seq(Frame)
      /\ \A n \in Node : refcount[n] = 1 + Cardinality(References(children, n))
      /\ \A c \in Ctx : scene[c] = NoNode
  BY DEF Init, Calls, Quiet
<1>3. \A n \in Node : Cardinality(References(children, n)) \in Nat
  BY <1>1, ReferencesAreFinite, FS_CardinalityType DEF TypeOK
<1>4. \A n \in Node : refcount[n] > 0
  BY <1>2, <1>3
<1>5. \A n \in Node : Kept(n) = References(children, n)
  <2>1. \A n \in Node : \A e \in References(children, n) : e[1] \in Node
    BY DEF References
  <2> QED
    BY <1>4, <2>1 DEF Kept, KeptBy
<1>6. \A n \in Node : Uses(n) = {} /\ Own(n) = 1 /\ Dropping(stack, n) = 0
  BY <1>2, NodeAssumption DEF Uses, Own, Dropping
<1>7. Balanced
  <2> SUFFICES ASSUME NEW n \in Node
               PROVE  refcount[n] = Own(n) + Cardinality(Kept(n))
                                   + Cardinality(Uses(n)) + Dropping(stack, n)
    BY DEF Balanced
  <2> DEFINE k == Cardinality(References(children, n))
  <2>1. k \in Nat /\ refcount[n] = 1 + k
    BY <1>2, <1>3
  <2>2. Own(n) = 1 /\ Cardinality(Kept(n)) = k /\ Cardinality(Uses(n)) = 0 /\ Dropping(stack, n) = 0
    BY <1>5, <1>6, FS_EmptySet
  <2> HIDE DEF k
  <2> QED
    BY <2>1, <2>2
<1>8. FreedOnce(stack) /\ Waiting(stack)
  BY <1>2, NothingHeld
<1> QED
  BY <1>2, <1>7, <1>8 DEF Balance, Walked, NewScene, Halted

LEMMA BalanceHolds ==
  Spec /\ []Reattaches /\ []FreesNoScene => [](Invariant /\ Ordered /\ Attachment /\ Balance)
<1>1. Init => Balance
  BY BalanceInitially
<1> QED
  BY <1>1, AttachmentHolds, BalancePreserved, PTL DEF Spec

(* Between two commands, nothing is being released.                        *)
LEMMA BalancedWhenIdle ==
  ASSUME TypeOK, Balance
  PROVE  RefcountExact
<1> SUFFICES ASSUME Idle, NEW n \in Node
             PROVE  refcount[n] = Cardinality({x \in held : x = n})
                                  + Cardinality({e \in References(children, n) : Live(e[1])})
                                  + Cardinality({c \in Ctx : scene[c] = n})
  BY DEF RefcountExact
<1>1. stack = <<>> /\ Calls(stack) = {}
  BY DEF Idle, Calls
<1>2. Cardinality({x \in held : x = n}) = Own(n)
  <2>1. CASE n \in held
    <3>1. {x \in held : x = n} = {n}
      BY <2>1
    <3> QED
      BY <2>1, <3>1, FS_Singleton DEF Own
  <2>2. CASE n \notin held
    <3>1. {x \in held : x = n} = {}
      BY <2>2
    <3> QED
      BY <2>2, <3>1, FS_EmptySet DEF Own
  <2> QED
    BY <2>1, <2>2
<1>3. Kept(n) = {e \in References(children, n) : Live(e[1])}
  BY <1>1 DEF Kept, KeptBy, HeldBy, Live
<1>4. Uses(n) = {c \in Ctx : scene[c] = n} /\ Dropping(stack, n) = 0
  BY <1>1 DEF Uses, Dropping
<1>5. refcount[n] = Own(n) + Cardinality(Kept(n)) + Cardinality(Uses(n)) + 0
  BY <1>4 DEF Balance, Balanced
<1>6. Own(n) \in Nat /\ Cardinality(Kept(n)) \in Nat /\ Cardinality(Uses(n)) \in Nat
  BY SizesOfHolders
<1> DEFINE o == Own(n)
           k == Cardinality(Kept(n))
           u == Cardinality(Uses(n))
<1>7. refcount[n] = o + k + u
  <2>1. refcount[n] = o + k + u + 0 /\ o \in Nat /\ k \in Nat /\ u \in Nat
    BY <1>5, <1>6
  <2> HIDE DEF o, k, u
  <2> QED
    BY <2>1
<1> QED
  BY <1>2, <1>3, <1>4, <1>7

LEMMA BalancedIsUsable ==
  ASSUME TypeOK, Balance
  PROVE  NoUseAfterFree
<1>1. stack # <<>> => Live(Top.node) \/ (Top.fn = "unref" /\ Top.next > 0)
  <2> SUFFICES ASSUME stack # <<>>, ~(Top.fn = "unref" /\ Top.next > 0)
               PROVE  Live(Top.node)
    OBVIOUS
  <2>1. Top \in Frame /\ Top \in Calls(stack) /\ Top = Head(stack) /\ Top.node \in Node /\ Top.next \in Nat
    BY StackTop DEF TypeOK, Top, Frame
  <2>2. CASE Top.fn # "unref"
    BY <2>1, <2>2 DEF Balance, Walked
  <2>3. CASE Top.fn = "unref"
    <3>1. Dropping(stack, Top.node) = 1
      BY <2>1, <2>3 DEF Dropping
    <3> QED
      BY <2>1, <3>1, HoldersKeepAlive DEF Balance
  <2> QED
    BY <2>2, <2>3
<1>2. \A c \in Ctx : scene[c] # NoNode => Live(scene[c])
  BY SceneIsLive DEF Balance
<1>3. ASSUME NEW n \in Node, Live(n), NEW i \in DOMAIN children[n]
      PROVE  Live(children[n][i])
  <2>1. i \in 1 .. Len(children[n])
    BY DEF TypeOK
  <2> QED
    BY <1>3, <2>1, ChildrenAreLive DEF Balance
<1> QED
  BY <1>1, <1>2, <1>3 DEF NoUseAfterFree

(* The asserts of ngli_node_update hold.                                   *)
UpdatesReady == Entering("update") => state[Top.node] = Ready

LEMMA AssertsStay ==
  Balance' /\ ~aborted /\ UpdatesReady /\ [Next]_vars => ~aborted'
<1> SUFFICES ASSUME Balance', ~aborted, UpdatesReady, [Next]_vars
             PROVE  ~aborted'
  OBVIOUS
<1>1. CASE UNCHANGED vars
  BY <1>1 DEF vars, callVars
<1>2. CASE Client \/ Command
  BY <1>2 DEF Client, Create, Configure, SetScene, Draw, Free, NodeUnref, AddChild, Toggle, Begin,
     callVars, Command, BackendConfigured, BackendFails, SceneReattached, UnrefScene, AttachScene,
     SceneAttached, SceneRefused, HonorNext, UpdateScene, DrawScene, FreeContext, HonorNode,
     HonorFails, Fail
<1>3. CASE UpdateSkips \/ UpdateEnter
  BY <1>3 DEF UpdatesReady, UpdateSkips, UpdateEnter, Return, Descend, SkipChildren
<1>4. CASE DetachEnter \/ UnrefEnter
  <2>1. aborted' => stack' = stack /\ Top.fn # "update"
    BY <1>4 DEF DetachEnter, UnrefEnter, Entering, Running, Return, Descend, Abort
  <2> QED
    BY <2>1 DEF Balance, Halted, Top
<1>5. CASE (GraphWalk \/ ActivityWalk) /\ ~(UpdateSkips \/ UpdateEnter \/ DetachEnter \/ UnrefEnter)
  BY <1>5 DEF GraphWalk, GraphStep, AttachEnter, AttachChild, AttachSucceeds, AttachFails,
     DetachSkipsOther, DetachEnterUninit, DetachChild, DetachLeave, UnrefChild, UnrefLeave,
     ActivityWalk, ActivityStep, VisitSkips, VisitEnter, VisitChild, VisitLeave, UpdateChild,
     UpdateLeave, UpdateFails, DrawEnter, DrawChild, DrawLeave, CallChild,
     Return, Fail, Descend, SkipChildren
<1> QED
  BY <1>1, <1>2, <1>3, <1>4, <1>5 DEF Next

(* CountsStay: at every state the walks, the contexts and the live nodes   *)
(* refer to nothing that is freed, the only assertion that can fail is the *)
(* one of ngli_node_update, and between two commands a context owns its    *)
(* scene and nothing else, counts each node once per path, and each node   *)
(* has the references the client, its parents and the contexts hold; as    *)
(* long as no scene fails to be attached again by an ngl_configure and no  *)
(* context is freed with a scene after its backend failed to configure.    *)
Counts == SceneIsAttached /\ CountIsPaths /\ RefcountExact /\ NoUseAfterFree /\ Halted

THEOREM CountsStay == Spec /\ []Reattaches /\ []FreesNoScene => []Counts
<1>1. Invariant /\ Ordered /\ Attachment /\ Balance => Counts
  BY AttachedWhenIdle, CountedWhenIdle, BalancedWhenIdle, BalancedIsUsable DEF Counts, Balance, Invariant
<1> QED
  BY <1>1, BalanceHolds, PTL

(* CountsStayExact: with the update assertion excluded too, the property   *)
(* the runs check, on any graph and with any number of contexts.           *)
THEOREM CountsStayExact ==
  Spec /\ []Reattaches /\ []FreesNoScene /\ []UpdatesReady => []CountsAreExact
<1>1. Init => ~aborted
  BY DEF Init
<1>2. Spec /\ []Reattaches /\ []FreesNoScene /\ []UpdatesReady => []~aborted
  BY <1>1, BalanceHolds, AssertsStay, PTL DEF Spec
<1>3. Counts /\ ~aborted => CountsAreExact
  BY DEF Counts, CountsAreExact, AssertsHold
<1> QED
  BY <1>2, <1>3, CountsStay, PTL

(* A client that configures each context once leaves nothing behind: every *)
(* scene and every reference is accounted for, whatever fails.             *)
THEOREM ConfiguredOnceLosesNothing ==
  ASSUME ~MayReconfigure
  PROVE  /\ Spec => []Counts
         /\ Spec /\ []UpdatesReady => []CountsAreExact
<1>1. Invariant /\ Ordered => Reattaches /\ FreesNoScene
  BY DEF Invariant, CommandOK, Ordered, Control, ConfiguredOnce, Reattaches, FreesNoScene, At
<1>2. Spec => []Reattaches /\ []FreesNoScene
  BY <1>1, OrderedHolds, PTL
<1> QED
  BY <1>2, CountsStay, CountsStayExact, PTL

=============================================================================
