---------------------------- MODULE DrawStateProofs ----------------------------
(***************************************************************************)
(* Theorems about the state a context draws with, for any scenes without a *)
(* cycle, nested in any way, any configurations and any failure.           *)
(***************************************************************************)
EXTENDS DrawState, SequenceTheorems, FiniteSetTheorems, TLAPS
INSTANCE DataTheorems WITH Vertex <- Node, CallFrame <- {}

(***************************************************************************)
(* Types of what the proofs follow: the target, the viewport and the clear *)
(* colour, in the context, in the locals of the draws and in GL.           *)
(***************************************************************************)
Targets   == Target \union {None}
Viewports == Size \union OfKind("rtt") \union {0}
Colours   == OfKind("rtt") \union {0, 1, 2}

Call ==
  [node : Node \union {Context}, rest : Seq(Node), target : Targets, viewport : Viewports, clear : Colours]

GLType == gl = [state |-> gl.state, fbo |-> gl.fbo, viewport |-> gl.viewport, clear |-> gl.clear]

TypeOK ==
  /\ target \in Targets
  /\ viewport \in Viewports
  /\ clear \in Colours
  /\ scene \in Scenes \union {None}
  /\ phase \in {"off", "idle", "prefetch", "update", "failed", "draw"}
  /\ stack \in Seq(Call)
  /\ GLType

(***************************************************************************)
(* The target is put back                                                  *)
(***************************************************************************)
(* A target the context has of its own: it outlives every scene.           *)
OwnTarget(rt) == rt = None \/ rt \in Target \ NodeTargets

(* The target in force when the i-th node of the stack s draws its next    *)
(* child, rt being the one in force at the top.                            *)
InForce(s, rt, i) == IF i = Len(s) THEN rt ELSE s[i + 1].target

(* Only an rtt has another target for its children than for itself, and it *)
(* remembers the one to put back.                                          *)
Chained(s, rt) ==
  /\ Len(s) >= 1
  /\ OwnTarget(InForce(s, rt, 1))
  /\ \A i \in 2 .. Len(s) :
       /\ s[i].node \in Node
       /\ Kind[s[i].node] # "rtt" => InForce(s, rt, i) = s[i].target

TargetPutBack ==
  IF phase = "draw" THEN Chained(stack, target) ELSE OwnTarget(target)

Invariant == TypeOK /\ TargetPutBack /\ ContextKnowsGL

(***************************************************************************)
(* Lemmas                                                                  *)
(***************************************************************************)
(* Once honoured, the two fields that are always compared are those asked  *)
(* for, if GL had what was recorded.                                       *)
LEMMA HonouredState ==
  ASSUME gl.state.blend = recorded.blend, gl.state.test = recorded.test
  PROVE  Honoured(gl.state).blend = config.blend /\ Honoured(gl.state).test = config.test
  BY DEF Honoured, Override, Field

(* What a call and a return do to a stack of draws.                        *)
LEMMA StackPushed ==
  ASSUME NEW s \in Seq(Call), Len(s) >= 1, Last(s).rest # <<>>, NEW f \in Call
  PROVE  LET a == [s EXCEPT ![Len(s)].rest = Tail(@)]
         IN  /\ a \in Seq(Call) /\ Len(a) = Len(s)
             /\ \A i \in 1 .. Len(s) : a[i].node = s[i].node /\ a[i].target = s[i].target
             /\ Append(a, f) \in Seq(Call) /\ Len(Append(a, f)) = Len(s) + 1
             /\ \A i \in 1 .. Len(s) : Append(a, f)[i] = a[i]
             /\ Append(a, f)[Len(s) + 1] = f
<1> DEFINE a == [s EXCEPT ![Len(s)].rest = Tail(@)]
<1>1. Len(s) \in Nat \ {0} /\ s \in [1 .. Len(s) -> Call] /\ Last(s) = s[Len(s)]
  BY DEF Last
<1>2. s[Len(s)] \in Call /\ Tail(s[Len(s)].rest) \in Seq(Node)
  BY <1>1, HeadTailProperties DEF Call
<1>3. [s[Len(s)] EXCEPT !.rest = Tail(@)] \in Call
  BY <1>2 DEF Call
<1>4. a = [s EXCEPT ![Len(s)] = [s[Len(s)] EXCEPT !.rest = Tail(@)]]
  BY <1>1
<1>5. a \in [1 .. Len(s) -> Call]
  BY <1>1, <1>3, <1>4
<1>6. a \in Seq(Call) /\ Len(a) = Len(s)
  BY <1>1, <1>5
<1>7. \A i \in 1 .. Len(s) : a[i].node = s[i].node /\ a[i].target = s[i].target
  BY <1>1, <1>2 DEF Call
<1> HIDE DEF a
<1>8. Append(a, f) \in Seq(Call) /\ Len(Append(a, f)) = Len(s) + 1
      /\ (\A i \in 1 .. Len(s) : Append(a, f)[i] = a[i]) /\ Append(a, f)[Len(s) + 1] = f
  BY <1>6, AppendProperties
<1> QED
  BY <1>6, <1>7, <1>8 DEF a

LEMMA StackPopped ==
  ASSUME NEW s \in Seq(Call), Len(s) > 1
  PROVE  /\ Front(s) \in Seq(Call) /\ Len(Front(s)) = Len(s) - 1
         /\ \A i \in 1 .. Len(s) - 1 : Front(s)[i] = s[i]
         /\ Last(s) = s[Len(s)] /\ Last(s) \in Call
  BY DEF Front, Last

(* A step that leaves what ContextKnowsGL speaks of as it is.              *)
LEMMA NoChangeOfGL ==
  ASSUME ContextKnowsGL, GLType, phase # "off" \/ phase' = "off",
         UNCHANGED <<fb, target, viewport, clear, recorded, gl>>
  PROVE  ContextKnowsGL' /\ GLType'
  BY DEF ContextKnowsGL, GLType, NameOf

(***************************************************************************)
(* The draw of a node                                                      *)
(***************************************************************************)
(* Down to a child whose own children are drawn in the target rt.          *)
LEMMA DownKeepsStack ==
  ASSUME TypeOK, Chained(stack, target), NEW n \in Node, Kids[n] \in Seq(Node),
         stack # <<>>, Top.rest # <<>>, Down(n),
         target' = target \/ Kind[n] = "rtt"
  PROVE  stack' \in Seq(Call) /\ Chained(stack', target')
<1>1. Len(stack) \in Nat /\ Len(stack) >= 1 /\ stack \in Seq(Call)
  BY DEF TypeOK, Chained
<1>2. Frame(n) \in Call /\ Frame(n).target = target /\ Frame(n).node = n
  BY DEF Frame, TypeOK, Call
<1>3. /\ stack' \in Seq(Call) /\ Len(stack') = Len(stack) + 1
      /\ \A i \in 1 .. Len(stack) : stack'[i].node = stack[i].node /\ stack'[i].target = stack[i].target
      /\ stack'[Len(stack) + 1] = Frame(n)
  BY <1>1, <1>2, StackPushed, SMTT(30) DEF Down, Advanced, Top
<1>4. \A i \in 1 .. Len(stack) : InForce(stack', target', i) = InForce(stack, target, i)
  BY <1>1, <1>2, <1>3 DEF InForce
<1>5. ASSUME NEW i \in 2 .. Len(stack')
      PROVE  stack'[i].node \in Node
             /\ (Kind[stack'[i].node] # "rtt" => InForce(stack', target', i) = stack'[i].target)
  <2>1. CASE i = Len(stack')
    BY <1>1, <1>2, <1>3, <2>1 DEF InForce
  <2>2. CASE i # Len(stack')
    BY <1>1, <1>3, <1>4, <2>2 DEF Chained
  <2> QED
    BY <2>1, <2>2
<1> QED
  BY <1>1, <1>3, <1>4, <1>5 DEF Chained

(* Back to the parent, with the target that was in force there.            *)
LEMMA UpKeepsStack ==
  ASSUME TypeOK, Chained(stack, target), Len(stack) > 1, Up,
         IF Kind[Top.node] = "rtt" THEN target' = Top.target ELSE target' = target
  PROVE  /\ stack' \in Seq(Call) /\ Chained(stack', target')
         /\ Top.target \in Targets /\ Top.viewport \in Viewports /\ Top.clear \in Colours
<1>1. stack \in Seq(Call) /\ Len(stack) \in Nat
  BY DEF TypeOK
<1>2. /\ stack' \in Seq(Call) /\ Len(stack') = Len(stack) - 1
      /\ \A i \in 1 .. Len(stack) - 1 : stack'[i] = stack[i]
      /\ Top = stack[Len(stack)] /\ Top \in Call
  BY <1>1, StackPopped DEF Up, Top
<1>3. target' = Top.target
  BY <1>1, <1>2 DEF Chained, InForce
<1>4. \A i \in 1 .. Len(stack') : InForce(stack', target', i) = InForce(stack, target, i)
  BY <1>1, <1>2, <1>3 DEF InForce
<1> QED
  BY <1>1, <1>2, <1>4 DEF Chained, Call

(* A node that changes nothing of what ContextKnowsGL speaks of.           *)
LEMMA PassThroughDown ==
  ASSUME DrawStateAssumption, Invariant, NEW n \in Node, NEW k, Visit(n, k), Down(n), Unmoved,
         UNCHANGED <<target, viewport, clear, recorded, gl>>
  PROVE  Invariant'
<1>1. stack' \in Seq(Call) /\ Chained(stack', target')
  BY DownKeepsStack DEF Invariant, TargetPutBack, DrawStateAssumption, Visit
<1>2. ContextKnowsGL' /\ GLType'
  BY NoChangeOfGL DEF Invariant, TypeOK, Visit, Unmoved, sceneVars
<1> QED
  BY <1>1, <1>2 DEF Invariant, TypeOK, TargetPutBack, Visit, Unmoved, sceneVars, Targets, Viewports, Colours

LEMMA PassThroughUp ==
  ASSUME Invariant, NEW n \in Node, NEW k, k # "rtt", Leave(n, k), Up, Unmoved,
         UNCHANGED <<target, viewport, clear, recorded, gl>>
  PROVE  Invariant'
<1>1. stack' \in Seq(Call) /\ Chained(stack', target')
  BY UpKeepsStack DEF Invariant, TargetPutBack, Leave
<1>2. ContextKnowsGL' /\ GLType'
  BY NoChangeOfGL DEF Invariant, TypeOK, Leave, Unmoved, sceneVars
<1> QED
  BY <1>1, <1>2 DEF Invariant, TypeOK, TargetPutBack, Leave, Unmoved, sceneVars, Targets, Viewports, Colours

LEMMA EnterRttPreserves ==
  ASSUME DrawStateAssumption, Invariant, NEW n \in Node, EnterRtt(n)
  PROVE  Invariant'
<1>1. n \in OfKind("rtt") /\ phase = "draw" /\ Unmoved /\ recorded' = recorded
  BY DEF EnterRtt, Visit, OfKind
<1>2. stack' \in Seq(Call) /\ Chained(stack', target')
  BY <1>1, DownKeepsStack
  DEF Invariant, TargetPutBack, DrawStateAssumption, EnterRtt, Visit, OfKind
<1>3. target' \in Targets /\ viewport' \in Viewports /\ clear' \in Colours
  BY <1>1 DEF EnterRtt, DrawTarget, Targets, Target, Viewports, Colours, Invariant, TypeOK
<1>4. gl' = [state |-> gl.state, fbo |-> NameOf(fb, target'), viewport |-> viewport', clear |-> clear']
  BY <1>1 DEF EnterRtt, SetTarget, Invariant, TypeOK, GLType, ContextKnowsGL
<1>5. ContextKnowsGL' /\ GLType'
  BY <1>1, <1>4 DEF Invariant, ContextKnowsGL, GLType, Unmoved, NameOf
<1> QED
  BY <1>1, <1>2, <1>3, <1>5
  DEF Invariant, TypeOK, TargetPutBack, Unmoved, sceneVars, Targets, Viewports, Colours

LEMMA LeaveRttPreserves ==
  ASSUME Invariant, NEW n \in Node, LeaveRtt(n)
  PROVE  Invariant'
<1>1. phase = "draw" /\ Unmoved /\ recorded' = recorded /\ Kind[Top.node] = "rtt"
  BY DEF LeaveRtt, Leave
<1>2. /\ stack' \in Seq(Call) /\ Chained(stack', target')
      /\ target' \in Targets /\ viewport' \in Viewports /\ clear' \in Colours
  BY <1>1, UpKeepsStack DEF Invariant, TargetPutBack, LeaveRtt, Leave, TypeOK
<1>3. gl' = [state |-> gl.state, fbo |-> NameOf(fb, target'), viewport |-> viewport', clear |-> clear']
  BY <1>1 DEF LeaveRtt, SetTarget, Rebound, Invariant, TypeOK, GLType, ContextKnowsGL
<1>4. ContextKnowsGL' /\ GLType'
  BY <1>1, <1>3 DEF Invariant, ContextKnowsGL, GLType, Unmoved, NameOf
<1> QED
  BY <1>1, <1>2, <1>4
  DEF Invariant, TypeOK, TargetPutBack, Unmoved, sceneVars, Targets, Viewports, Colours

LEMMA RenderPreserves ==
  ASSUME Invariant, NEW n \in Node, Render(n)
  PROVE  Invariant'
<1>1. phase = "draw" /\ Unmoved /\ stack \in Seq(Call) /\ Len(stack) >= 1
  BY DEF Render, Visit, Invariant, TypeOK, TargetPutBack, Chained
<1>2. /\ stack' \in Seq(Call) /\ Len(stack') = Len(stack)
      /\ \A i \in 1 .. Len(stack) : stack'[i].node = stack[i].node /\ stack'[i].target = stack[i].target
  <2>1. PICK f \in Call : f = Top
    BY <1>1 DEF Top, Last
  <2> QED
    BY <1>1, <2>1, StackPushed DEF Render, Visit, Advanced, Top
<1>3. \A i \in 1 .. Len(stack) : InForce(stack', target, i) = InForce(stack, target, i)
  BY <1>1, <1>2 DEF InForce
<1>4. Chained(stack', target)
  BY <1>1, <1>2, <1>3 DEF Invariant, TargetPutBack, Chained
<1>5. gl' = [state |-> Honoured(gl.state), fbo |-> gl.fbo, viewport |-> gl.viewport, clear |-> gl.clear]
  BY DEF Render, Honour, Invariant, TypeOK, GLType
<1>6. ContextKnowsGL' /\ GLType'
  BY <1>1, <1>5, HonouredState
  DEF Render, Honour, Invariant, ContextKnowsGL, GLType, Unmoved, NameOf
<1> QED
  BY <1>1, <1>2, <1>4, <1>6
  DEF Render, Invariant, TypeOK, TargetPutBack, Unmoved, sceneVars, Targets, Viewports, Colours

LEMMA DrawPreserves ==
  ASSUME DrawStateAssumption, Invariant, NEW n \in Node, Draw(n)
  PROVE  Invariant'
<1>1. CASE EnterGroup(n)
  BY <1>1, PassThroughDown DEF EnterGroup, ctxVars
<1>2. CASE LeaveGroup(n)
  BY <1>2, PassThroughUp DEF LeaveGroup, ctxVars
<1>3. CASE EnterConfig(n)
  BY <1>3, PassThroughDown DEF EnterConfig
<1>4. CASE LeaveConfig(n)
  BY <1>4, PassThroughUp DEF LeaveConfig
<1>5. CASE EnterTransform(n)
  BY <1>5, PassThroughDown DEF EnterTransform, ctxVars
<1>6. CASE LeaveTransform(n)
  BY <1>6, PassThroughUp DEF LeaveTransform, ctxVars
<1>7. CASE EnterCamera(n)
  BY <1>7, PassThroughDown DEF EnterCamera, ctxVars
<1>8. CASE LeaveCamera(n)
  BY <1>8, PassThroughUp DEF LeaveCamera, ctxVars
<1>9. CASE EnterHud(n)
  BY <1>9, PassThroughDown DEF EnterHud, ctxVars
<1>10. CASE LeaveHud(n)
  BY <1>10, PassThroughUp DEF LeaveHud, ctxVars
<1> QED
  BY <1>1, <1>2, <1>3, <1>4, <1>5, <1>6, <1>7, <1>8, <1>9, <1>10,
     EnterRttPreserves, LeaveRttPreserves, RenderPreserves
  DEF Draw

(***************************************************************************)
(* The steps around a draw                                                 *)
(***************************************************************************)
LEMMA ConfigurePreserves ==
  ASSUME Invariant, NEW c \in Configs, Configure(c) \/ ConfigureFails(c)
  PROVE  Invariant'
<1>1. c.size \in Size /\ c.clear \in {1, 2} /\ c.size \in Viewports /\ c.clear \in Colours
  BY DEF Configs, Viewports, Colours
<1>2. <<Context, "rt">> \in Target \ NodeTargets
  BY DEF Target, NodeTargets
<1>3. phase \in {"off", "idle"} /\ OwnTarget(target)
  BY DEF Configure, ConfigureFails, Invariant, TargetPutBack
<1>4. CASE Configure(c)
  <2>1. target' \in Targets /\ OwnTarget(target')
    BY <1>2, <1>3, <1>4 DEF Configure, OwnTarget, Targets, Invariant, TypeOK
  <2>2. gl' = [state |-> gl'.state, fbo |-> NameOf(fb', target'), viewport |-> c.size, clear |-> c.clear]
    BY <1>4 DEF Configure, NewGL
  <2>3. ContextKnowsGL' /\ GLType'
    BY <1>4, <2>2 DEF Configure, ContextKnowsGL, GLType, NameOf
  <2> QED
    BY <1>1, <1>3, <1>4, <2>1, <2>3 DEF Configure, Invariant, TypeOK, TargetPutBack, Targets
<1>5. CASE ConfigureFails(c)
  <2>1. target' \in Targets /\ OwnTarget(target') /\ viewport' \in Viewports
    BY <1>1, <1>2, <1>3, <1>5 DEF ConfigureFails, OwnTarget, Targets, Invariant, TypeOK
  <2>2. ContextKnowsGL' /\ GLType'
    BY <1>5 DEF ConfigureFails, ContextKnowsGL, GLType, NewGL
  <2> QED
    BY <1>5, <2>1, <2>2 DEF ConfigureFails, Invariant, TypeOK, TargetPutBack, Colours
<1> QED
  BY <1>4, <1>5

LEMMA ResizePreserves ==
  ASSUME Invariant, NEW size \in Size, Resize(size)
  PROVE  Invariant'
<1>1. gl' = [state |-> gl.state, fbo |-> gl.fbo, viewport |-> size, clear |-> gl.clear]
  BY DEF Resize, Invariant, TypeOK, GLType
<1>2. ContextKnowsGL' /\ GLType'
  BY <1>1 DEF Resize, Invariant, ContextKnowsGL, GLType, NameOf
<1> QED
  BY <1>2 DEF Resize, Invariant, TypeOK, TargetPutBack, sceneVars, Targets, Viewports, Colours

(* No scene owns the target of an idle context, so its name stays.         *)
LEMMA SetScenePreserves ==
  ASSUME Invariant, NEW root \in Scenes \union {None}, SetScene(root)
  PROVE  Invariant'
<1>1. phase = "idle" /\ OwnTarget(target)
  BY DEF SetScene, Invariant, TargetPutBack
<1>2. NameOf(fb', target') = NameOf(fb, target)
  BY <1>1 DEF SetScene, ctxVars, NameOf, WithoutTargets, OwnTarget
<1>3. ContextKnowsGL' /\ GLType'
  BY <1>2 DEF SetScene, ctxVars, Invariant, TypeOK, ContextKnowsGL, GLType
<1> QED
  BY <1>1, <1>3 DEF SetScene, ctxVars, Invariant, TypeOK, TargetPutBack, Targets, Viewports, Colours

LEMMA PreDrawPreserves ==
  ASSUME Invariant, NEW time \in Time, PreDraw(time)
  PROVE  Invariant'
<1>1. ContextKnowsGL' /\ GLType'
  BY NoChangeOfGL DEF PreDraw, ctxVars, Invariant, TypeOK
<1> QED
  BY <1>1
  DEF PreDraw, ctxVars, sceneVars, Invariant, TypeOK, TargetPutBack, OwnTarget, Targets, Viewports, Colours

(* A rendertarget that is created leaves the current one bound.            *)
LEMMA PrefetchPreserves ==
  ASSUME Invariant, Prefetch
  PROVE  Invariant'
<1>1. phase' \in {"update", "failed"}
  BY DEF Prefetch
<1>2. gl' = [state |-> gl.state, fbo |-> NameOf(fb', target), viewport |-> gl.viewport, clear |-> gl.clear]
  BY DEF Prefetch, Rebound, Invariant, TypeOK, GLType
<1>3. phase = "prefetch" /\ UNCHANGED <<ctxVars, sceneVars, stack>>
  BY DEF Prefetch
<1>4. ContextKnowsGL' /\ GLType'
  BY <1>2, <1>3 DEF ctxVars, Invariant, ContextKnowsGL, GLType, NameOf
<1> QED
  BY <1>1, <1>3, <1>4
  DEF ctxVars, sceneVars, Invariant, TypeOK, TargetPutBack, OwnTarget, Targets, Viewports, Colours

LEMMA ConvertPreserves ==
  ASSUME Invariant, NEW m \in Media, Convert(m)
  PROVE  Invariant'
<1>1. gl' = [state |-> Honoured(gl.state), fbo |-> NameOf(fb', target), viewport |-> gl.viewport, clear |-> gl.clear]
  BY DEF Convert, Rebound, Invariant, TypeOK, GLType
<1>2. phase = "update" /\ recorded' = config /\ UNCHANGED <<target, viewport, clear, sceneVars, phase, stack>>
  BY DEF Convert
<1>3. ContextKnowsGL' /\ GLType'
  BY <1>1, <1>2, HonouredState DEF Invariant, ContextKnowsGL, GLType, NameOf
<1> QED
  BY <1>2, <1>3 DEF sceneVars, Invariant, TypeOK, TargetPutBack, OwnTarget, Targets, Viewports, Colours

LEMMA UpdatePreserves ==
  ASSUME DrawStateAssumption, Invariant, Update
  PROVE  Invariant'
<1>1. ContextKnowsGL' /\ GLType'
  BY NoChangeOfGL DEF Update, ctxVars, Invariant, TypeOK
<1>2. (IF scene = None THEN <<>> ELSE <<scene>>) \in Seq(Node)
  BY DEF Invariant, TypeOK, DrawStateAssumption
<1>3. stack' \in Seq(Call) /\ Len(stack') = 1 /\ target' = target
  BY <1>2 DEF Update, ctxVars, Call, Invariant, TypeOK
<1>4. Chained(stack', target')
  BY <1>3 DEF Chained, InForce, Invariant, TargetPutBack, Update
<1> QED
  BY <1>1, <1>3, <1>4 DEF Update, ctxVars, Invariant, TypeOK, TargetPutBack, Targets, Viewports, Colours

(* When only the root is left on the stack, the target of the context is   *)
(* its own again.                                                          *)
LEMMA PostDrawPreserves ==
  ASSUME Invariant, PostDraw
  PROVE  Invariant'
<1>1. phase \in {"failed", "draw"} /\ phase' = "idle" /\ recorded' = config /\ stack' = <<>>
      /\ UNCHANGED <<fb, target, viewport, clear, scene>>
  BY DEF PostDraw, sceneVars
<1>2. gl' = [state |-> Honoured(gl.state), fbo |-> NameOf(fb, target), viewport |-> gl.viewport, clear |-> gl.clear]
  BY <1>1 DEF PostDraw, Rebound, Invariant, TypeOK, GLType, ContextKnowsGL
<1>3. ContextKnowsGL' /\ GLType'
  BY <1>1, <1>2, HonouredState DEF Invariant, ContextKnowsGL, GLType, NameOf
<1>4. OwnTarget(target)
  BY DEF PostDraw, Invariant, TargetPutBack, Chained, InForce
<1> QED
  BY <1>1, <1>3, <1>4 DEF Invariant, TypeOK, TargetPutBack, OwnTarget, Targets, Viewports, Colours

(***************************************************************************)
(* Theorems                                                                *)
(***************************************************************************)
LEMMA InitEstablishes == Init => Invariant
  BY DEF Init, NewGL, Invariant, TypeOK, GLType, TargetPutBack, OwnTarget, ContextKnowsGL,
         Targets, Viewports, Colours

LEMMA NextPreserves == Invariant /\ [Next]_vars => Invariant'
<1> SUFFICES ASSUME Invariant, [Next]_vars
             PROVE  Invariant'
  OBVIOUS
<1>1. CASE Next
  BY <1>1, DrawStateAssumption, ConfigurePreserves, ResizePreserves, SetScenePreserves, PreDrawPreserves,
     PrefetchPreserves, ConvertPreserves, UpdatePreserves, DrawPreserves, PostDrawPreserves
  DEF Next
<1>2. CASE UNCHANGED vars
  BY <1>2
  DEF vars, ctxVars, stackVars, sceneVars, Invariant, TypeOK, GLType, TargetPutBack, Chained, InForce,
      OwnTarget, ContextKnowsGL, NameOf, Targets, Viewports, Colours
<1> QED
  BY <1>1, <1>2

LEMMA InvariantHolds == Spec => []Invariant
  BY InitEstablishes, NextPreserves, PTL DEF Spec

(* DrawKnowsGL: a context that is configured is never wrong about the      *)
(* framebuffer that is bound, the viewport, the clear colour and the state *)
(* it has recorded, however deep the render targets are nested and         *)
(* whichever prefetch or configuration fails (glstate.c:290-300, gctx.c,   *)
(* rendertarget.c, node_rtt.c:338-384, backend_gl.c).                      *)
THEOREM DrawKnowsGL == Spec => []ContextKnowsGL
  BY InvariantHolds, PTL DEF Invariant

(* TargetIsOwn: between two frames the target of a context is its own, not *)
(* one of a scene that may be released: what every rtt of the frame has    *)
(* put in place it has also put back (node_rtt.c:338-384).                 *)
THEOREM TargetIsOwn == Spec => [](phase = "idle" => OwnTarget(target))
<1>1. Invariant => (phase = "idle" => OwnTarget(target))
  BY DEF Invariant, TargetPutBack
<1> QED
  BY <1>1, InvariantHolds, PTL

(***************************************************************************)
(* The path down the tree                                                  *)
(***************************************************************************)
(* The nodes of the first i draws on a stack, below the root.              *)
PathTo(s, i) == [j \in 1 .. i - 1 |-> s[j + 1].node]

(* Draws of nodes, all but the first, which draws the scene.               *)
Draws == {s \in Seq(Call) : \A i \in 2 .. Len(s) : s[i].node \in Node}

LEMMA PathType ==
  ASSUME NEW s \in Draws, NEW i \in 1 .. Len(s)
  PROVE  PathTo(s, i) \in Seq(Node) /\ Len(PathTo(s, i)) = i - 1
<1>1. Len(s) \in Nat /\ i \in Nat /\ i - 1 \in Nat
  BY DEF Draws
<1>2. \A j \in 1 .. i - 1 : s[j + 1].node \in Node
  BY <1>1 DEF Draws
<1>3. PathTo(s, i) \in [1 .. i - 1 -> Node]
  BY <1>2 DEF PathTo
<1> QED
  BY <1>1, <1>3

(* The path to a draw is that to its parent and its node.                  *)
LEMMA PathOfChild ==
  ASSUME NEW s \in Draws, NEW i \in 2 .. Len(s)
  PROVE  PathTo(s, i) = Append(PathTo(s, i - 1), s[i].node)
<1> DEFINE p == PathTo(s, i - 1)
           q == PathTo(s, i)
<1>1. Len(s) \in Nat /\ i - 1 \in 1 .. Len(s) /\ i \in 1 .. Len(s) /\ s[i].node \in Node
  BY DEF Draws
<1>2. p \in Seq(Node) /\ Len(p) = i - 2 /\ q \in Seq(Node) /\ Len(q) = i - 1
  BY <1>1, PathType
<1>3. \A j \in 1 .. i - 2 : q[j] = p[j]
  BY <1>1 DEF PathTo
<1>4. q[i - 1] = s[i].node
  BY <1>1 DEF PathTo
<1> HIDE DEF p, q
<1>5. Append(p, s[i].node) \in Seq(Node) /\ Len(Append(p, s[i].node)) = i - 1
      /\ \A j \in 1 .. i - 1 : Append(p, s[i].node)[j] = q[j]
  <2> DEFINE x == s[i].node
             a == Append(p, x)
  <2>1. /\ a \in Seq(Node) /\ Len(a) = Len(p) + 1 /\ a[Len(p) + 1] = x
        /\ \A j \in 1 .. Len(p) : a[j] = p[j]
    BY <1>1, <1>2
  <2> HIDE DEF x, a
  <2>2. Len(p) = i - 2 /\ i \in Nat /\ Len(a) = i - 1
    BY <1>1, <1>2, <2>1
  <2>3. ASSUME NEW j \in 1 .. i - 1
        PROVE  a[j] = q[j]
    <3>1. CASE j = i - 1
      BY <1>4, <2>1, <2>2, <3>1 DEF x
    <3>2. CASE j # i - 1
      BY <1>3, <2>1, <2>2, <3>2
    <3> QED
      BY <3>1, <3>2
  <2> QED
    BY <2>1, <2>2, <2>3 DEF x, a
<1> QED
  BY <1>2, <1>5, SeqEqual DEF p, q

(* A draw that goes on keeps its locals and has fewer children to draw.    *)
GoesOn(f, g) ==
  /\ g.node = f.node /\ g.target = f.target /\ g.viewport = f.viewport /\ g.clear = f.clear
  /\ ToSet(g.rest) \subseteq ToSet(f.rest)

LEMMA DrawGoesOn ==
  ASSUME NEW s \in Seq(Call), Len(s) >= 1, Last(s).rest # <<>>
  PROVE  LET a == [s EXCEPT ![Len(s)].rest = Tail(@)]
         IN  /\ a \in Seq(Call) /\ Len(a) = Len(s)
             /\ \A i \in 1 .. Len(s) : GoesOn(s[i], a[i])
             /\ Head(Last(s).rest) \in ToSet(s[Len(s)].rest)
<1> DEFINE a == [s EXCEPT ![Len(s)].rest = Tail(@)]
           f == s[Len(s)]
           g == [f EXCEPT !.rest = Tail(@)]
<1>1. Len(s) \in Nat \ {0} /\ s \in [1 .. Len(s) -> Call] /\ Last(s) = s[Len(s)] /\ f \in Call
  BY DEF Last
<1>2. f.rest \in Seq(Node) /\ f.rest # <<>>
  BY <1>1 DEF Call
<1>3. /\ Len(f.rest) \in Nat /\ Len(f.rest) >= 1 /\ Tail(f.rest) \in Seq(Node)
      /\ Len(Tail(f.rest)) = Len(f.rest) - 1 /\ \A i \in 1 .. Len(f.rest) - 1 : Tail(f.rest)[i] = f.rest[i + 1]
  BY <1>2, HeadTailProperties, EmptySeq
<1>4. ToSet(Tail(f.rest)) \subseteq ToSet(f.rest)
  BY <1>2, <1>3 DEF ToSet
<1>5. Head(f.rest) \in ToSet(f.rest)
  <2>1. Head(f.rest) = f.rest[1] /\ 1 \in DOMAIN f.rest
    BY <1>2, <1>3
  <2> QED
    BY <2>1 DEF ToSet
<1>6. g \in Call /\ GoesOn(f, g)
  BY <1>1, <1>3, <1>4 DEF Call, GoesOn
<1>7. a = [s EXCEPT ![Len(s)] = g]
  BY <1>1
<1> HIDE DEF a, g
<1>8. a \in [1 .. Len(s) -> Call] /\ \A i \in 1 .. Len(s) : a[i] = IF i = Len(s) THEN g ELSE s[i]
  BY <1>1, <1>6, <1>7
<1>9. \A i \in 1 .. Len(s) : GoesOn(s[i], a[i])
  BY <1>6, <1>8 DEF GoesOn
<1>10. a \in Seq(Call) /\ Len(a) = Len(s)
  BY <1>1, <1>8
<1> QED
  BY <1>1, <1>5, <1>9, <1>10 DEF a

(* What a step down to a child does to the draws and to the path.          *)
LEMMA PathDown ==
  ASSUME TypeOK, stack \in Draws, stack' \in Seq(Call), Len(stack) >= 1, Top.rest # <<>>,
         NEW n \in Node, Kids[n] \in Seq(Node), n = Head(Top.rest), Down(n)
  PROVE  /\ stack' \in Draws /\ Len(stack') = Len(stack) + 1
         /\ n \in ToSet(stack[Len(stack)].rest)
         /\ \A i \in 1 .. Len(stack) : GoesOn(stack[i], stack'[i])
         /\ stack'[Len(stack) + 1] = Frame(n)
         /\ \A i \in 1 .. Len(stack) : PathTo(stack', i) = PathTo(stack, i)
         /\ PathTo(stack', Len(stack) + 1) = Append(PathTo(stack, Len(stack)), n)
<1> DEFINE k == Len(stack)
<1>1. stack \in Seq(Call) /\ k \in Nat \ {0}
  BY DEF TypeOK
<1>2. /\ Advanced \in Seq(Call) /\ Len(Advanced) = k /\ n \in ToSet(stack[k].rest)
      /\ \A i \in 1 .. k : GoesOn(stack[i], Advanced[i])
  BY <1>1, DrawGoesOn DEF Advanced, Top
<1>3. Frame(n) \in Call /\ Frame(n).node = n
  BY DEF Frame, TypeOK, Call
<1>4. /\ Len(stack') = k + 1 /\ stack'[k + 1] = Frame(n)
      /\ \A i \in 1 .. k : stack'[i] = Advanced[i]
  BY <1>1, <1>2, <1>3, AppendProperties DEF Down
<1>5. \A i \in 1 .. k : GoesOn(stack[i], stack'[i]) /\ stack'[i].node = stack[i].node
  BY <1>2, <1>4 DEF GoesOn
<1>6. stack' \in Draws
  BY <1>1, <1>3, <1>4, <1>5 DEF Draws
<1>7. \A i \in 1 .. k : PathTo(stack', i) = PathTo(stack, i)
  BY <1>1, <1>5 DEF PathTo
<1>8. PathTo(stack', k + 1) = Append(PathTo(stack, k), n)
  <2>1. k + 1 \in 2 .. Len(stack') /\ k + 1 - 1 = k /\ stack'[k + 1].node = n /\ k \in 1 .. k
    BY <1>1, <1>3, <1>4
  <2>2. PathTo(stack', k + 1) = Append(PathTo(stack', k + 1 - 1), stack'[k + 1].node)
    BY <1>6, <2>1, PathOfChild
  <2> QED
    BY <1>7, <2>1, <2>2
<1> QED
  BY <1>2, <1>4, <1>5, <1>6, <1>7, <1>8

(* And a return to the parent.                                             *)
LEMMA PathUp ==
  ASSUME stack \in Draws, Len(stack) > 1, Up
  PROVE  /\ stack' \in Draws /\ Len(stack) \in Nat /\ Len(stack') = Len(stack) - 1
         /\ Top = stack[Len(stack)] /\ Top \in Call /\ Top.node \in Node
         /\ \A i \in 1 .. Len(stack) - 1 : stack'[i] = stack[i]
         /\ \A i \in 1 .. Len(stack) - 1 : PathTo(stack', i) = PathTo(stack, i)
         /\ PathTo(stack, Len(stack)) = Append(PathTo(stack, Len(stack) - 1), Top.node)
<1> DEFINE k == Len(stack)
<1>1. stack \in Seq(Call) /\ k \in Nat
  BY DEF Draws
<1>2. /\ stack' \in Seq(Call) /\ Len(stack') = k - 1 /\ Top = stack[k] /\ Top \in Call
      /\ \A i \in 1 .. k - 1 : stack'[i] = stack[i]
  BY <1>1, StackPopped DEF Up, Top
<1>3. \A i \in 1 .. k - 1 : PathTo(stack', i) = PathTo(stack, i)
  BY <1>1, <1>2 DEF PathTo
<1>4. PathTo(stack, k) = Append(PathTo(stack, k - 1), Top.node)
  BY <1>1, <1>2, PathOfChild
<1> QED
  BY <1>1, <1>2, <1>3, <1>4 DEF Draws

(* And the draw of a leaf.                                                 *)
LEMMA PathAlong ==
  ASSUME stack \in Draws, Len(stack) >= 1, Top.rest # <<>>, stack' = Advanced
  PROVE  /\ stack' \in Draws /\ Len(stack') = Len(stack)
         /\ \A i \in 1 .. Len(stack) : GoesOn(stack[i], stack'[i])
         /\ \A i \in 1 .. Len(stack) : PathTo(stack', i) = PathTo(stack, i)
<1> DEFINE k == Len(stack)
<1>1. stack \in Seq(Call) /\ k \in Nat \ {0}
  BY DEF Draws
<1>2. /\ stack' \in Seq(Call) /\ Len(stack') = k
      /\ \A i \in 1 .. k : GoesOn(stack[i], stack'[i])
  BY <1>1, DrawGoesOn DEF Advanced, Top
<1>3. \A i \in 1 .. k : stack'[i].node = stack[i].node
  BY <1>2 DEF GoesOn
<1>4. \A i \in 1 .. k : PathTo(stack', i) = PathTo(stack, i)
  BY <1>1, <1>3 DEF PathTo
<1> QED
  BY <1>1, <1>2, <1>3, <1>4 DEF Draws

(***************************************************************************)
(* What a path asks for, when it grows by a node                           *)
(***************************************************************************)
LEMMA MaxIsIn ==
  ASSUME NEW k \in Nat, NEW S \in SUBSET (1 .. k), S # {}
  PROVE  Max(S) \in S /\ \A i \in S : i <= Max(S)
<1>1. PICK i \in S : \A j \in S : j <= i
  <2>1. S \in SUBSET (1 .. k) /\ 1 \in Int /\ k \in Int
    OBVIOUS
  <2> QED
    BY <2>1, GreatestExists, Zenon
<1>2. \A j \in S : i >= j
  BY <1>1
<1> QED
  BY <1>1, <1>2 DEF Max

LEMMA MinIsIn ==
  ASSUME NEW S \in SUBSET Nat, S # {}
  PROVE  Min(S) \in S /\ \A i \in S : Min(S) <= i
  BY LeastExists DEF Min

(* The last position of a kind is that of the new node, if it is of it.    *)
LEMMA PositionsGrow ==
  ASSUME NEW p \in Seq(Node), NEW n \in Node, NEW S \in SUBSET (1 .. Len(p))
  PROVE  /\ S # {} => Append(p, n)[Max(S)] = p[Max(S)] /\ Append(p, n)[Min(S)] = p[Min(S)]
         /\ Max(S \union {Len(p) + 1}) = Len(p) + 1
         /\ S # {} => Min(S \union {Len(p) + 1}) = Min(S)
         /\ S = {} => Min(S \union {Len(p) + 1}) = Len(p) + 1
         /\ Append(p, n)[Len(p) + 1] = n
<1> DEFINE k == Len(p)
           T == S \union {k + 1}
<1>1. k \in Nat /\ \A i \in 1 .. k : Append(p, n)[i] = p[i]
  OBVIOUS
<1>2. T \in SUBSET (1 .. k + 1) /\ T \in SUBSET Nat /\ T # {} /\ S \in SUBSET Nat /\ k + 1 \in T
  <2>1. S \in SUBSET (1 .. k)
    OBVIOUS
  <2> HIDE DEF k
  <2> QED
    BY <1>1, <2>1
<1>3. ASSUME S # {}
      PROVE  Max(S) \in S /\ Min(S) \in S /\ \A i \in S : Min(S) <= i
  BY <1>1, <1>2, <1>3, MaxIsIn, MinIsIn
<1>4. Max(T) \in T /\ Min(T) \in T /\ (\A i \in T : i <= Max(T)) /\ \A i \in T : Min(T) <= i
  <2> HIDE DEF T
  <2>1. k + 1 \in Nat
    BY <1>1
  <2>2. Max(T) \in T /\ \A i \in T : i <= Max(T)
    BY <1>2, <2>1, MaxIsIn
  <2> QED
    BY <1>2, <2>2, MinIsIn
<1>5. \A i \in S : i <= k /\ i \in Nat
  <2>1. S \in SUBSET (1 .. k)
    OBVIOUS
  <2> HIDE DEF k
  <2> QED
    BY <1>1, <2>1
<1>6. Max(T) = k + 1
  <2>1. Max(T) \in Nat /\ Max(T) >= k + 1 /\ (Max(T) \in S \/ Max(T) = k + 1)
    BY <1>1, <1>2, <1>4
  <2> QED
    BY <1>1, <1>5, <2>1
<1>7. ASSUME S # {}
      PROVE  Min(T) = Min(S)
  <2>1. Min(S) \in S /\ Min(S) \in Nat /\ Min(S) <= k /\ Min(S) \in T /\ Min(T) \in Nat
    BY <1>2, <1>3, <1>4, <1>5, <1>7
  <2>2. Min(T) <= Min(S)
    BY <1>4, <2>1
  <2>3. Min(T) \in S
    <3>1. Min(T) # k + 1
      BY <1>1, <2>1, <2>2
    <3> QED
      BY <1>4, <3>1
  <2>4. Min(S) <= Min(T)
    BY <1>3, <1>7, <2>3
  <2> QED
    BY <2>1, <2>2, <2>4
<1>8. S = {} => Min(T) = k + 1
  BY <1>4
<1>9. Append(p, n)[k + 1] = n
  OBVIOUS
<1> HIDE DEF T
<1> QED
  BY <1>1, <1>3, <1>6, <1>7, <1>8, <1>9 DEF T

LEMMA OnPathGrows ==
  ASSUME NEW p \in Seq(Node), NEW n \in Node, NEW k
  PROVE  /\ OnPath(p, k) \in SUBSET (1 .. Len(p))
         /\ OnPath(Append(p, n), k) = IF Kind[n] = k THEN OnPath(p, k) \union {Len(p) + 1} ELSE OnPath(p, k)
         /\ IsFiniteSet(OnPath(p, k)) /\ Cardinality(OnPath(p, k)) \in Nat
         /\ Cardinality(OnPath(Append(p, n), k))
              = IF Kind[n] = k THEN Cardinality(OnPath(p, k)) + 1 ELSE Cardinality(OnPath(p, k))
<1> DEFINE S == OnPath(p, k)
           T == OnPath(Append(p, n), k)
<1>1. /\ Len(p) \in Nat /\ DOMAIN p = 1 .. Len(p) /\ DOMAIN Append(p, n) = 1 .. Len(p) + 1
      /\ (\A i \in 1 .. Len(p) : Append(p, n)[i] = p[i]) /\ Append(p, n)[Len(p) + 1] = n
  OBVIOUS
<1>2. S \in SUBSET (1 .. Len(p))
  BY <1>1 DEF OnPath
<1>3. T = IF Kind[n] = k THEN S \union {Len(p) + 1} ELSE S
  BY <1>1 DEF OnPath
<1>4. IsFiniteSet(S) /\ Cardinality(S) \in Nat
  <2>1. IsFiniteSet(1 .. Len(p))
    BY <1>1, FS_Interval
  <2> HIDE DEF S
  <2>2. IsFiniteSet(S)
    BY <1>2, <2>1, FS_Subset
  <2> QED
    BY <2>2, FS_CardinalityType
<1>5. Len(p) + 1 \notin S
  BY <1>1, <1>2
<1> HIDE DEF S, T
<1>6. Cardinality(S \union {Len(p) + 1}) = Cardinality(S) + 1
  BY <1>4, <1>5, FS_AddElement
<1> QED
  BY <1>2, <1>3, <1>4, <1>6 DEF S, T

(* The definitions of DrawState, with the part of the configuration they   *)
(* depend on as a parameter.                                               *)
ConfigOn(size, path) ==
  [f \in Field |->
     LET setters == {i \in OnPath(path, "config") : f \in DOMAIN Sets[path[i]]}
     IN  IF setters = {} THEN Neutral(size)[f] ELSE Sets[path[Max(setters)]][f]]

TargetOn(own, path) ==
  LET rtts == OnPath(path, "rtt") IN IF rtts # {} THEN DrawTarget(path[Max(rtts)]) ELSE own

ViewportOn(size, path) ==
  LET rtts == OnPath(path, "rtt") IN IF rtts = {} THEN size ELSE path[Max(rtts)]

ClearOn(clr, path) ==
  LET own == {i \in OnPath(path, "rtt") : path[i] \in OwnClear}
  IN  IF own = {} THEN clr ELSE path[Max(own)]

LEMMA ConfigGrows ==
  ASSUME NEW p \in Seq(Node), NEW n \in Node, NEW size
  PROVE  ConfigOn(size, Append(p, n)) =
           IF Kind[n] = "config" THEN Override(Sets[n], ConfigOn(size, p)) ELSE ConfigOn(size, p)
<1> DEFINE q == Append(p, n)
           setters(r, f) == {i \in OnPath(r, "config") : f \in DOMAIN Sets[r[i]]}
<1>1. /\ OnPath(p, "config") \in SUBSET (1 .. Len(p))
      /\ OnPath(q, "config") =
           IF Kind[n] = "config" THEN OnPath(p, "config") \union {Len(p) + 1} ELSE OnPath(p, "config")
  BY OnPathGrows
<1>2. Len(p) \in Nat /\ (\A i \in 1 .. Len(p) : q[i] = p[i]) /\ q[Len(p) + 1] = n
  OBVIOUS
<1> HIDE DEF q
<1>3. ASSUME NEW f \in Field
      PROVE  ConfigOn(size, q)[f] =
               IF Kind[n] = "config" /\ f \in DOMAIN Sets[n] THEN Sets[n][f] ELSE ConfigOn(size, p)[f]
  <2>1. setters(q, f) = IF Kind[n] = "config" /\ f \in DOMAIN Sets[n] THEN setters(p, f) \union {Len(p) + 1}
                        ELSE setters(p, f)
    BY <1>1, <1>2
  <2>2. setters(p, f) \in SUBSET (1 .. Len(p))
    BY <1>1
  <2>3. /\ ConfigOn(size, q)[f] = IF setters(q, f) = {} THEN Neutral(size)[f] ELSE Sets[q[Max(setters(q, f))]][f]
        /\ ConfigOn(size, p)[f] = IF setters(p, f) = {} THEN Neutral(size)[f] ELSE Sets[p[Max(setters(p, f))]][f]
    BY DEF ConfigOn
  <2> HIDE DEF setters
  <2>4. /\ setters(p, f) # {} => q[Max(setters(p, f))] = p[Max(setters(p, f))]
        /\ Max(setters(p, f) \union {Len(p) + 1}) = Len(p) + 1
    BY <2>2, PositionsGrow DEF q
  <2>5. CASE Kind[n] = "config" /\ f \in DOMAIN Sets[n]
    BY <1>2, <2>1, <2>3, <2>4, <2>5
  <2>6. CASE ~(Kind[n] = "config" /\ f \in DOMAIN Sets[n])
    BY <2>1, <2>3, <2>4, <2>6
  <2> QED
    BY <2>5, <2>6
<1>4. /\ ConfigOn(size, q) = [f \in Field |-> ConfigOn(size, q)[f]]
      /\ ConfigOn(size, p) = [f \in Field |-> ConfigOn(size, p)[f]]
  BY DEF ConfigOn
<1>5. CASE Kind[n] = "config"
  <2>1. Override(Sets[n], ConfigOn(size, p)) =
          [f \in Field |-> IF f \in DOMAIN Sets[n] THEN Sets[n][f] ELSE ConfigOn(size, p)[f]]
    BY DEF Override
  <2>2. \A f \in Field : ConfigOn(size, q)[f] = IF f \in DOMAIN Sets[n] THEN Sets[n][f] ELSE ConfigOn(size, p)[f]
    BY <1>3, <1>5
  <2> QED
    BY <1>4, <1>5, <2>1, <2>2 DEF q
<1>6. CASE Kind[n] # "config"
  <2>1. \A f \in Field : ConfigOn(size, q)[f] = ConfigOn(size, p)[f]
    BY <1>3, <1>6
  <2> QED
    BY <1>4, <1>6, <2>1 DEF q
<1> QED
  BY <1>5, <1>6

LEMMA TargetGrows ==
  ASSUME NEW p \in Seq(Node), NEW n \in Node, NEW own, NEW size
  PROVE  /\ TargetOn(own, Append(p, n)) = IF Kind[n] = "rtt" THEN DrawTarget(n) ELSE TargetOn(own, p)
         /\ ViewportOn(size, Append(p, n)) = IF Kind[n] = "rtt" THEN n ELSE ViewportOn(size, p)
<1> DEFINE q == Append(p, n)
           S == OnPath(p, "rtt")
           T == OnPath(q, "rtt")
<1>1. S \in SUBSET (1 .. Len(p)) /\ T = IF Kind[n] = "rtt" THEN S \union {Len(p) + 1} ELSE S
  BY OnPathGrows
<1>2. /\ S # {} => q[Max(S)] = p[Max(S)]
      /\ Max(S \union {Len(p) + 1}) = Len(p) + 1 /\ q[Len(p) + 1] = n
  BY <1>1, PositionsGrow
<1>3. /\ TargetOn(own, q) = IF T # {} THEN DrawTarget(q[Max(T)]) ELSE own
      /\ TargetOn(own, p) = IF S # {} THEN DrawTarget(p[Max(S)]) ELSE own
      /\ ViewportOn(size, q) = IF T = {} THEN size ELSE q[Max(T)]
      /\ ViewportOn(size, p) = IF S = {} THEN size ELSE p[Max(S)]
  BY DEF TargetOn, ViewportOn
<1> HIDE DEF q, S, T
<1>4. CASE Kind[n] = "rtt"
  <2>1. T # {} /\ Max(T) = Len(p) + 1
    BY <1>1, <1>2, <1>4
  <2> QED
    BY <1>2, <1>3, <1>4, <2>1 DEF q
<1>5. CASE Kind[n] # "rtt"
  <2>1. T = S
    BY <1>1, <1>5
  <2>2. CASE S = {}
    <3>1. TargetOn(own, q) = own /\ TargetOn(own, p) = own /\ ViewportOn(size, q) = size /\ ViewportOn(size, p) = size
      BY <1>3, <2>1, <2>2
    <3> QED
      BY <1>5, <3>1 DEF q
  <2>3. CASE S # {}
    <3>1. TargetOn(own, q) = TargetOn(own, p) /\ ViewportOn(size, q) = ViewportOn(size, p)
      BY <1>2, <1>3, <2>1, <2>3
    <3> QED
      BY <1>5, <3>1 DEF q
  <2> QED
    BY <2>2, <2>3
<1> QED
  BY <1>4, <1>5

LEMMA ClearGrows ==
  ASSUME NEW p \in Seq(Node), NEW n \in Node, NEW clr
  PROVE  ClearOn(clr, Append(p, n)) = IF Kind[n] = "rtt" /\ n \in OwnClear THEN n ELSE ClearOn(clr, p)
<1> DEFINE q == Append(p, n)
           S == {i \in OnPath(p, "rtt") : p[i] \in OwnClear}
           T == {i \in OnPath(q, "rtt") : q[i] \in OwnClear}
<1>1. /\ OnPath(p, "rtt") \in SUBSET (1 .. Len(p))
      /\ OnPath(q, "rtt") = IF Kind[n] = "rtt" THEN OnPath(p, "rtt") \union {Len(p) + 1} ELSE OnPath(p, "rtt")
  BY OnPathGrows
<1>2. Len(p) \in Nat /\ (\A i \in 1 .. Len(p) : q[i] = p[i]) /\ q[Len(p) + 1] = n
  OBVIOUS
<1>3. S \in SUBSET (1 .. Len(p)) /\ T = IF Kind[n] = "rtt" /\ n \in OwnClear THEN S \union {Len(p) + 1} ELSE S
  <2> HIDE DEF q
  <2> QED
    BY <1>1, <1>2
<1>4. /\ S # {} => q[Max(S)] = p[Max(S)]
      /\ Max(S \union {Len(p) + 1}) = Len(p) + 1
  <2> HIDE DEF S
  <2> QED
    BY <1>3, PositionsGrow
<1>5. /\ ClearOn(clr, q) = IF T = {} THEN clr ELSE q[Max(T)]
      /\ ClearOn(clr, p) = IF S = {} THEN clr ELSE p[Max(S)]
  BY DEF ClearOn
<1> HIDE DEF q, S, T
<1> QED
  BY <1>2, <1>3, <1>4, <1>5 DEF q

LEMMA TimerGrows ==
  ASSUME NEW p \in Seq(Node), NEW n \in Node
  PROVE  AskedTimer(Append(p, n)) = IF Kind[n] = "hud" /\ OnPath(p, "hud") = {} THEN n ELSE AskedTimer(p)
<1> DEFINE q == Append(p, n)
           S == OnPath(p, "hud")
           T == OnPath(q, "hud")
<1>1. S \in SUBSET (1 .. Len(p)) /\ T = IF Kind[n] = "hud" THEN S \union {Len(p) + 1} ELSE S
  BY OnPathGrows
<1>2. /\ S # {} => q[Min(S)] = p[Min(S)] /\ Min(S \union {Len(p) + 1}) = Min(S)
      /\ S = {} => Min(S \union {Len(p) + 1}) = Len(p) + 1
      /\ q[Len(p) + 1] = n
  BY <1>1, PositionsGrow
<1>3. AskedTimer(q) = (IF T = {} THEN None ELSE q[Min(T)]) /\ AskedTimer(p) = IF S = {} THEN None ELSE p[Min(S)]
  BY DEF AskedTimer
<1> HIDE DEF q, S, T
<1> QED
  BY <1>1, <1>2, <1>3 DEF q, S

LEMMA ProjectionGrows ==
  ASSUME NEW p \in Seq(Node), NEW n \in Node
  PROVE  AskedProjection(Append(p, n)) = IF Kind[n] = "camera" THEN <<n>> ELSE AskedProjection(p)
<1> DEFINE q == Append(p, n)
           S == OnPath(p, "camera")
           T == OnPath(q, "camera")
<1>1. S \in SUBSET (1 .. Len(p)) /\ T = IF Kind[n] = "camera" THEN S \union {Len(p) + 1} ELSE S
  BY OnPathGrows
<1>2. /\ S # {} => q[Max(S)] = p[Max(S)]
      /\ Max(S \union {Len(p) + 1}) = Len(p) + 1 /\ q[Len(p) + 1] = n
  BY <1>1, PositionsGrow
<1>3. /\ AskedProjection(q) = IF T = {} THEN <<>> ELSE <<q[Max(T)]>>
      /\ AskedProjection(p) = IF S = {} THEN <<>> ELSE <<p[Max(S)]>>
  BY DEF AskedProjection
<1> HIDE DEF q, S, T
<1> QED
  BY <1>1, <1>2, <1>3 DEF q

(***************************************************************************)
(* The matrix of a path                                                    *)
(***************************************************************************)
(* The definitions of DrawState, with the time as a parameter.             *)
EyeOn(time, n) == FoldLeft(LAMBDA m, k : m \o Factor(k, time), <<>>, EyeChain[n])

Looked(time, m, n) ==
  IF Kind[n] = "camera" THEN <<<<n, EyeOn(time, n)>>>>
  ELSE IF Kind[n] = "transform" THEN m \o Factor(n, time)
  ELSE m

ModelviewOn(time, path) == FoldLeft(LAMBDA m, n : Looked(time, m, n), <<>>, path)

(* The products of the factors and of the cameras' matrices.               *)
Products(time) ==
  Seq({<<n, IF n \in Animated THEN time ELSE 0>> : n \in Node} \union {<<n, EyeOn(time, n)>> : n \in Node})

LEMMA LookedType ==
  ASSUME NEW time, NEW m \in Products(time), NEW n \in Node
  PROVE  Looked(time, m, n) \in Products(time)
<1> DEFINE F == {<<k, IF k \in Animated THEN time ELSE 0>> : k \in Node} \union {<<k, EyeOn(time, k)>> : k \in Node}
           x == <<n, EyeOn(time, n)>>
           y == <<n, IF n \in Animated THEN time ELSE 0>>
<1>1. x \in F /\ y \in F /\ m \in Seq(F)
  BY DEF Products
<1> HIDE DEF F, x, y
<1>2. <<x>> \in Seq(F) /\ m \o <<y>> \in Seq(F)
  BY <1>1
<1> QED
  BY <1>1, <1>2 DEF Looked, Factor, Products, F, x, y

(* It is made of the nodes of the path, one after the other.               *)
LookedStepwise(g, time, seq) ==
  /\ g[0] = <<>> /\ ModelviewOn(time, seq) = g[Len(seq)]
  /\ \A k \in 0 .. Len(seq) - 1 : g[k + 1] = Looked(time, g[k], seq[k + 1])

LEMMA LookedSteps ==
  ASSUME NEW seq \in Seq(Node), NEW time
  PROVE  \E g \in [0 .. Len(seq) -> Products(time)] : LookedStepwise(g, time, seq)
<1> DEFINE V == Products(time)
           step == [p \in V \X Node |-> Looked(time, p[1], p[2])]
           Folds(it) == it = [s \in SUBSET DOMAIN seq |->
                                IF s = {} THEN <<>> ELSE Looked(time, it[s \ {Max(s)}], seq[Max(s)])]
           it == CHOOSE it : Folds(it)
<1>1. Len(seq) \in Nat /\ DOMAIN seq = 1 .. Len(seq) /\ (\A i \in DOMAIN seq : seq[i] \in Node) /\ <<>> \in V
  BY DEF Products
<1>2. \A s \in SUBSET DOMAIN seq : s # {} => LastIn(s) = Max(s) /\ LastIn(s) \in DOMAIN seq
  BY <1>1, LastIsIn DEF LastIn, Max
<1>3. step \in [V \X Node -> V] /\ \A a \in V, b \in Node : step[<<a, b>>] = Looked(time, a, b)
  <2>1. \A a \in V, b \in Node : Looked(time, a, b) \in V
    BY LookedType
  <2> HIDE DEF V
  <2> QED
    BY <2>1
<1> HIDE DEF step, V
<1>4. \E i : Folds(i)
  <2>1. PICK i \in [SUBSET DOMAIN seq -> V] : IsLeftFold(i, seq, <<>>, step)
    BY <1>1, <1>3, LeftFoldExists, Zenon
  <2>2. ASSUME NEW s \in SUBSET DOMAIN seq, s # {}
        PROVE  i[s] = Looked(time, i[s \ {Max(s)}], seq[Max(s)])
    <3>1. seq[Max(s)] \in Node /\ i[s \ {Max(s)}] \in V /\ i[s] = step[<<i[s \ {Max(s)}], seq[Max(s)]>>]
      BY <1>1, <1>2, <2>1, <2>2 DEF IsLeftFold
    <3> QED
      BY <1>3, <3>1
  <2> QED
    BY <2>1, <2>2 DEF IsLeftFold
<1>5. Folds(it)
  <2> HIDE DEF Folds
  <2> QED
    BY <1>4, Zenon
<1>6. ModelviewOn(time, seq) = it[DOMAIN seq]
  BY DEF ModelviewOn, FoldLeft, MapThenFoldSet
<1> HIDE DEF it
<1>7. TakesSteps(it, seq, V, <<>>, step)
  <2>1. ASSUME NEW s \in SUBSET DOMAIN seq, s # {}, it[s \ {LastIn(s)}] \in V
        PROVE  it[s] = step[<<it[s \ {LastIn(s)}], seq[LastIn(s)]>>]
    <3>1. seq[Max(s)] \in Node /\ it[s] = Looked(time, it[s \ {Max(s)}], seq[Max(s)])
      BY <1>1, <1>2, <1>5, <2>1
    <3> QED
      BY <1>2, <1>3, <2>1, <3>1
  <2> QED
    BY <1>5, <2>1 DEF TakesSteps
<1>8. PICK g \in [0 .. Len(seq) -> V] : IsStepwise(g, seq, <<>>, step, it[DOMAIN seq])
  BY <1>1, <1>3, <1>7, LeftFoldSteps, Zenon
<1>9. \A k \in 0 .. Len(seq) - 1 : g[k] \in V /\ seq[k + 1] \in Node
  BY <1>1
<1>10. LookedStepwise(g, time, seq)
  BY <1>3, <1>6, <1>8, <1>9, ZenonT(60) DEF IsStepwise, LookedStepwise
<1> QED
  BY <1>8, <1>10 DEF V

LEMMA ModelviewGrows ==
  ASSUME NEW p \in Seq(Node), NEW n \in Node, NEW time
  PROVE  ModelviewOn(time, Append(p, n)) = Looked(time, ModelviewOn(time, p), n)
<1> DEFINE q == Append(p, n)
<1>1. /\ q \in Seq(Node) /\ Len(q) = Len(p) + 1 /\ Len(p) \in Nat
      /\ (\A i \in 1 .. Len(p) : q[i] = p[i]) /\ q[Len(p) + 1] = n
  OBVIOUS
<1> HIDE DEF q
<1>2. PICK g \in [0 .. Len(p) -> Products(time)] : LookedStepwise(g, time, p)
  BY LookedSteps
<1>3. PICK h \in [0 .. Len(q) -> Products(time)] : LookedStepwise(h, time, q)
  BY <1>1, LookedSteps
<1>4. \A k \in 0 .. Len(p) : h[k] = g[k]
  <2> DEFINE G == {k \in 0 .. Len(p) : h[k] = g[k]}
  <2>1. 0 \in G
    BY <1>1, <1>2, <1>3 DEF LookedStepwise
  <2>2. \A k \in 0 .. Len(p) - 1 : k \in G => k + 1 \in G
    <3>1. \A k \in 0 .. Len(p) - 1 : k \in 0 .. Len(q) - 1 /\ k + 1 \in 1 .. Len(p) /\ k + 1 \in 0 .. Len(p)
      BY <1>1
    <3>2. ASSUME NEW k \in 0 .. Len(p) - 1, h[k] = g[k]
          PROVE  h[k + 1] = g[k + 1]
      <4>1. g[k + 1] = Looked(time, g[k], p[k + 1]) /\ h[k + 1] = Looked(time, h[k], q[k + 1]) /\ q[k + 1] = p[k + 1]
        BY <1>1, <1>2, <1>3, <3>1 DEF LookedStepwise
      <4> QED
        BY <3>2, <4>1
    <3> QED
      BY <3>1, <3>2
  <2>3. \A k \in 0 .. Len(p) : k \in G
    <3> HIDE DEF G
    <3> QED
      BY <1>1, <2>1, <2>2, CountingUp
  <2> QED
    BY <2>3
<1>5. ModelviewOn(time, q) = Looked(time, ModelviewOn(time, p), n)
  <2>1. Len(p) \in 0 .. Len(p) /\ Len(p) \in 0 .. Len(q) - 1
    BY <1>1
  <2>2. h[Len(p) + 1] = Looked(time, h[Len(p)], q[Len(p) + 1]) /\ h[Len(p)] = g[Len(p)]
    BY <1>3, <1>4, <2>1 DEF LookedStepwise
  <2> QED
    BY <1>1, <1>2, <1>3, <2>2 DEF LookedStepwise
<1> QED
  BY <1>5 DEF q

LEMMA ModelviewOfNone ==
  ASSUME NEW time
  PROVE  ModelviewOn(time, <<>>) = <<>>
<1>1. <<>> \in Seq(Node) /\ Len(<<>>) = 0
  OBVIOUS
<1>2. PICK e \in [0 .. Len(<<>>) -> Products(time)] : LookedStepwise(e, time, <<>>)
  BY <1>1, LookedSteps
<1> QED
  BY <1>1, <1>2 DEF LookedStepwise

(***************************************************************************)
(* The names of the framebuffers                                           *)
(***************************************************************************)
(* Tables of names, of which no two framebuffers have the same.            *)
NameTable ==
  {names \in [Target -> 0 .. Cardinality(Target) + 1] :
     \A a, b \in Target : names[a] = names[b] /\ names[a] # 0 => a = b}

LEMMA TargetIsFinite == IsFiniteSet(Target) /\ Cardinality(Target) \in Nat
<1>1. IsFiniteSet(OfKind("rtt")) /\ IsFiniteSet(Media)
  <2>1. OfKind("rtt") \in SUBSET Node
    BY DEF OfKind
  <2> QED
    BY <2>1, DrawStateAssumption, FS_Subset
<1>2. IsFiniteSet({"rt"}) /\ IsFiniteSet({Context}) /\ IsFiniteSet({"conv"})
  BY FS_Singleton
<1>3. IsFiniteSet({"rt", "capture", "resolve"}) /\ IsFiniteSet({"rt", "ms"})
  <2>1. IsFiniteSet({"rt"} \union {"capture"}) /\ IsFiniteSet({"rt"} \union {"ms"})
    BY <1>2, FS_AddElement
  <2>2. IsFiniteSet(({"rt"} \union {"capture"}) \union {"resolve"})
    BY <2>1, FS_AddElement
  <2>3. /\ ({"rt"} \union {"capture"}) \union {"resolve"} = {"rt", "capture", "resolve"}
        /\ {"rt"} \union {"ms"} = {"rt", "ms"}
    OBVIOUS
  <2> QED
    BY <2>1, <2>2, <2>3
<1>4. /\ IsFiniteSet({Context} \X {"rt", "capture", "resolve"})
      /\ IsFiniteSet(OfKind("rtt") \X {"rt", "ms"}) /\ IsFiniteSet(Media \X {"conv"})
  BY <1>1, <1>2, <1>3, FS_Product
<1>5. IsFiniteSet(({Context} \X {"rt", "capture", "resolve"}) \union (OfKind("rtt") \X {"rt", "ms"}))
  BY <1>4, FS_Union
<1>6. IsFiniteSet(Target)
  BY <1>4, <1>5, FS_Union DEF Target
<1> QED
  BY <1>6, FS_CardinalityType

(* There is always one more name than targets.                             *)
LEMMA FreshIsNew ==
  ASSUME NEW names \in NameTable
  PROVE  /\ FreshName(names) \in 1 .. Cardinality(Target) + 1
         /\ \A rt \in Target : names[rt] # FreshName(names)
<1> DEFINE N == Cardinality(Target) + 1
           Used == {names[rt] : rt \in Target}
<1>1. IsFiniteSet(Target) /\ Cardinality(Target) \in Nat /\ N \in Nat /\ N = Cardinality(Target) + 1
  BY TargetIsFinite
<1>2. IsFiniteSet(Used) /\ Cardinality(Used) <= Cardinality(Target) /\ Cardinality(Used) \in Nat
  <2> DEFINE h == [rt \in Target |-> names[rt]]
  <2>1. h \in Surjection(Target, Used)
    BY DEF Surjection
  <2> HIDE DEF h, Used
  <2>2. IsFiniteSet(Used) /\ Cardinality(Used) <= Cardinality(Target)
    BY <1>1, <2>1, FS_Surjection DEF ExistsSurjection
  <2> QED
    BY <2>2, FS_CardinalityType
<1>3. \E i \in 1 .. N : i \notin Used
  <2> SUFFICES ASSUME 1 .. N \in SUBSET Used
               PROVE  FALSE
    OBVIOUS
  <2> HIDE DEF Used
  <2>1. Cardinality(1 .. N) <= Cardinality(Used)
    BY <1>2, FS_Subset
  <2>2. Cardinality(1 .. N) = N
    <3> HIDE DEF N
    <3>1. 1 \in Int /\ N \in Int /\ 1 <= N
      BY <1>1
    <3> QED
      BY <3>1, FS_Interval
  <2> HIDE DEF N
  <2> QED
    BY <1>1, <1>2, <2>1, <2>2
<1>4. FreshName(names) \in 1 .. N /\ FreshName(names) \notin Used
  BY <1>3 DEF FreshName
<1> QED
  BY <1>4

Created(names, rt) == [names EXCEPT ![rt] = FreshName(names)]

LEMMA CreatedType ==
  ASSUME NEW names \in NameTable, NEW rt \in Target
  PROVE  /\ Created(names, rt) \in NameTable
         /\ Created(names, rt)[rt] # 0 /\ \A r \in Target : r # rt => Created(names, rt)[r] = names[r]
<1> DEFINE i == FreshName(names)
           c == Created(names, rt)
<1>1. i \in 1 .. Cardinality(Target) + 1 /\ (\A r \in Target : names[r] # i) /\ Cardinality(Target) \in Nat
  BY FreshIsNew, TargetIsFinite
<1>2. i \in 0 .. Cardinality(Target) + 1 /\ i # 0
  <2> HIDE DEF i
  <2> QED
    BY <1>1
<1>3. /\ names \in [Target -> 0 .. Cardinality(Target) + 1]
      /\ \A a, b \in Target : names[a] = names[b] /\ names[a] # 0 => a = b
  BY DEF NameTable
<1>4. c = [names EXCEPT ![rt] = i]
  BY DEF Created
<1> HIDE DEF i, c
<1>5. c \in [Target -> 0 .. Cardinality(Target) + 1] /\ \A r \in Target : c[r] = IF r = rt THEN i ELSE names[r]
  BY <1>2, <1>3, <1>4
<1>6. \A a, b \in Target : c[a] = c[b] /\ c[a] # 0 => a = b
  BY <1>1, <1>3, <1>5
<1> QED
  BY <1>2, <1>5, <1>6 DEF NameTable, c

CreatedStepwise(g, e, seq) ==
  /\ g[0] = e /\ WithTargets(e, seq) = g[Len(seq)]
  /\ \A k \in 0 .. Len(seq) - 1 : g[k + 1] = Created(g[k], seq[k + 1])

LEMMA CreatedSteps ==
  ASSUME NEW seq \in Seq(Target), NEW e \in NameTable
  PROVE  \E g \in [0 .. Len(seq) -> NameTable] : CreatedStepwise(g, e, seq)
<1> DEFINE step == [p \in NameTable \X Target |-> Created(p[1], p[2])]
           Folds(it) == it = [s \in SUBSET DOMAIN seq |->
                                IF s = {} THEN e ELSE Created(it[s \ {Max(s)}], seq[Max(s)])]
           it == CHOOSE it : Folds(it)
<1>1. Len(seq) \in Nat /\ DOMAIN seq = 1 .. Len(seq) /\ \A i \in DOMAIN seq : seq[i] \in Target
  OBVIOUS
<1>2. \A s \in SUBSET DOMAIN seq : s # {} => LastIn(s) = Max(s) /\ LastIn(s) \in DOMAIN seq
  BY <1>1, LastIsIn DEF LastIn, Max
<1>3. /\ step \in [NameTable \X Target -> NameTable]
      /\ \A a \in NameTable, b \in Target : step[<<a, b>>] = Created(a, b)
  <2>1. \A a \in NameTable, b \in Target : Created(a, b) \in NameTable
    BY CreatedType
  <2> QED
    BY <2>1
<1> HIDE DEF step
<1>4. \E i : Folds(i)
  <2>1. PICK i \in [SUBSET DOMAIN seq -> NameTable] : IsLeftFold(i, seq, e, step)
    BY <1>3, LeftFoldExists, Zenon
  <2>2. ASSUME NEW s \in SUBSET DOMAIN seq, s # {}
        PROVE  i[s] = Created(i[s \ {Max(s)}], seq[Max(s)])
    <3>1. /\ seq[Max(s)] \in Target /\ i[s \ {Max(s)}] \in NameTable
          /\ i[s] = step[<<i[s \ {Max(s)}], seq[Max(s)]>>]
      BY <1>1, <1>2, <2>1, <2>2 DEF IsLeftFold
    <3> QED
      BY <1>3, <3>1
  <2> QED
    BY <2>1, <2>2 DEF IsLeftFold
<1>5. Folds(it)
  <2> HIDE DEF Folds
  <2> QED
    BY <1>4, Zenon
<1>6. WithTargets(e, seq) = it[DOMAIN seq]
  BY DEF WithTargets, Created, FoldLeft, MapThenFoldSet
<1> HIDE DEF it
<1>7. TakesSteps(it, seq, NameTable, e, step)
  <2>1. ASSUME NEW s \in SUBSET DOMAIN seq, s # {}, it[s \ {LastIn(s)}] \in NameTable
        PROVE  it[s] = step[<<it[s \ {LastIn(s)}], seq[LastIn(s)]>>]
    <3>1. seq[Max(s)] \in Target /\ it[s] = Created(it[s \ {Max(s)}], seq[Max(s)])
      BY <1>1, <1>2, <1>5, <2>1
    <3> QED
      BY <1>2, <1>3, <2>1, <3>1
  <2> QED
    BY <1>5, <2>1 DEF TakesSteps
<1>8. PICK g \in [0 .. Len(seq) -> NameTable] : IsStepwise(g, seq, e, step, it[DOMAIN seq])
  BY <1>3, <1>7, LeftFoldSteps, Zenon
<1>9. \A k \in 0 .. Len(seq) - 1 : g[k] \in NameTable /\ seq[k + 1] \in Target
  BY <1>1
<1>10. CreatedStepwise(g, e, seq)
  BY <1>3, <1>6, <1>8, <1>9, ZenonT(60) DEF IsStepwise, CreatedStepwise
<1> QED
  BY <1>8, <1>10

(* Those that are made have a name, the others keep theirs.                *)
LEMMA WithTargetsType ==
  ASSUME NEW e \in NameTable, NEW seq \in Seq(Target)
  PROVE  /\ WithTargets(e, seq) \in NameTable
         /\ \A rt \in Target : rt \notin ToSet(seq) => WithTargets(e, seq)[rt] = e[rt]
         /\ \A rt \in Target : rt \in ToSet(seq) \/ e[rt] # 0 => WithTargets(e, seq)[rt] # 0
<1>1. Len(seq) \in Nat /\ DOMAIN seq = 1 .. Len(seq) /\ \A k \in 0 .. Len(seq) - 1 : k + 1 \in DOMAIN seq
  OBVIOUS
<1>2. PICK g \in [0 .. Len(seq) -> NameTable] : CreatedStepwise(g, e, seq)
  BY CreatedSteps
<1> DEFINE First(k) == {seq[i] : i \in 1 .. k}
           Made(k)  == \A rt \in Target : /\ rt \notin First(k) => g[k][rt] = e[rt]
                                          /\ rt \in First(k) \/ e[rt] # 0 => g[k][rt] # 0
           G == {k \in 0 .. Len(seq) : Made(k)}
<1>3. 0 \in G
  <2>1. First(0) = {} /\ g[0] = e
    BY <1>2 DEF CreatedStepwise
  <2> HIDE DEF First
  <2> QED
    BY <1>1, <2>1
<1>4. ASSUME NEW k \in 0 .. Len(seq) - 1, k \in G
      PROVE  k + 1 \in G
  <2>1. /\ k \in 0 .. Len(seq) /\ k + 1 \in 0 .. Len(seq) /\ seq[k + 1] \in Target /\ g[k] \in NameTable
        /\ g[k + 1] = Created(g[k], seq[k + 1])
    BY <1>1, <1>2 DEF CreatedStepwise
  <2>2. First(k + 1) = First(k) \union {seq[k + 1]}
    BY <1>1
  <2>3. g[k + 1][seq[k + 1]] # 0 /\ \A r \in Target : r # seq[k + 1] => g[k + 1][r] = g[k][r]
    <3> DEFINE c == Created(g[k], seq[k + 1])
    <3>1. c[seq[k + 1]] # 0 /\ \A r \in Target : seq[k + 1] # r => c[r] = g[k][r]
      BY <2>1, CreatedType, Zenon
    <3> QED
      BY <2>1, <3>1
  <2> HIDE DEF First
  <2>4. Made(k)
    BY <1>4
  <2> QED
    BY <2>1, <2>2, <2>3, <2>4
<1>5. Len(seq) \in G
  <2>1. \A k \in 0 .. Len(seq) - 1 : k \in G => k + 1 \in G
    BY <1>4
  <2> HIDE DEF G
  <2>2. \A k \in 0 .. Len(seq) : k \in G
    BY <1>1, <1>3, <2>1, CountingUp
  <2> QED
    BY <1>1, <2>2
<1>6. First(Len(seq)) = ToSet(seq)
  BY <1>1 DEF ToSet
<1>7. Made(Len(seq))
  <2> HIDE DEF Made
  <2> QED
    BY <1>5
<1>8. WithTargets(e, seq) = g[Len(seq)] /\ g[Len(seq)] \in NameTable
  BY <1>1, <1>2 DEF CreatedStepwise
<1>9. /\ \A rt \in Target : rt \notin ToSet(seq) => g[Len(seq)][rt] = e[rt]
      /\ \A rt \in Target : rt \in ToSet(seq) \/ e[rt] # 0 => g[Len(seq)][rt] # 0
  <2> HIDE DEF First
  <2> QED
    BY <1>6, <1>7, SMTT(30)
<1> HIDE DEF First, Made, G
<1> QED
  BY <1>8, <1>9

(* And so for the rtts of a prefetch.                                      *)
LEMMA TargetsOfType ==
  ASSUME NEW n \in OfKind("rtt")
  PROVE  /\ TargetsOf(n) \in Seq(Target)
         /\ ToSet(TargetsOf(n)) = {<<n, "rt">>} \union (IF n \in Multisampled THEN {<<n, "ms">>} ELSE {})
<1> DEFINE a == <<n, "rt">>
           b == <<n, "ms">>
<1>1. a \in Target /\ b \in Target
  BY DEF Target
<1>2. CASE n \in Multisampled
  <2>1. TargetsOf(n) = <<a>> \o <<b>>
    BY <1>2 DEF TargetsOf
  <2> HIDE DEF a, b
  <2>2. /\ TargetsOf(n) \in Seq(Target) /\ DOMAIN TargetsOf(n) = 1 .. 2
        /\ TargetsOf(n)[1] = a /\ TargetsOf(n)[2] = b
    BY <1>1, <2>1
  <2>3. ToSet(TargetsOf(n)) = {a} \union {b}
    BY <2>2 DEF ToSet
  <2> QED
    BY <1>2, <2>2, <2>3 DEF a, b
<1>3. CASE n \notin Multisampled
  <2>1. TargetsOf(n) = <<a>> \o <<>>
    BY <1>3 DEF TargetsOf
  <2> HIDE DEF a
  <2>2. TargetsOf(n) \in Seq(Target) /\ DOMAIN TargetsOf(n) = 1 .. 1 /\ TargetsOf(n)[1] = a
    BY <1>1, <2>1
  <2>3. ToSet(TargetsOf(n)) = {a}
    BY <2>2 DEF ToSet
  <2> QED
    BY <1>3, <2>2, <2>3 DEF a
<1> QED
  BY <1>2, <1>3

Prefetched(names, n) == WithTargets(names, TargetsOf(n))

LEMMA PrefetchedType ==
  ASSUME NEW names \in NameTable, NEW n \in OfKind("rtt")
  PROVE  Prefetched(names, n) \in NameTable
  BY TargetsOfType, WithTargetsType DEF Prefetched

PrefetchedStepwise(g, e, seq) ==
  /\ g[0] = e /\ PrefetchAll(e, seq) = g[Len(seq)]
  /\ \A k \in 0 .. Len(seq) - 1 : g[k + 1] = Prefetched(g[k], seq[k + 1])

LEMMA PrefetchedSteps ==
  ASSUME NEW seq \in Seq(OfKind("rtt")), NEW e \in NameTable
  PROVE  \E g \in [0 .. Len(seq) -> NameTable] : PrefetchedStepwise(g, e, seq)
<1> DEFINE step == [p \in NameTable \X OfKind("rtt") |-> Prefetched(p[1], p[2])]
           Folds(it) == it = [s \in SUBSET DOMAIN seq |->
                                IF s = {} THEN e ELSE Prefetched(it[s \ {Max(s)}], seq[Max(s)])]
           it == CHOOSE it : Folds(it)
<1>1. Len(seq) \in Nat /\ DOMAIN seq = 1 .. Len(seq) /\ \A i \in DOMAIN seq : seq[i] \in OfKind("rtt")
  OBVIOUS
<1>2. \A s \in SUBSET DOMAIN seq : s # {} => LastIn(s) = Max(s) /\ LastIn(s) \in DOMAIN seq
  BY <1>1, LastIsIn DEF LastIn, Max
<1>3. /\ step \in [NameTable \X OfKind("rtt") -> NameTable]
      /\ \A a \in NameTable, b \in OfKind("rtt") : step[<<a, b>>] = Prefetched(a, b)
  <2>1. \A a \in NameTable, b \in OfKind("rtt") : Prefetched(a, b) \in NameTable
    BY PrefetchedType
  <2> QED
    BY <2>1
<1> HIDE DEF step
<1>4. \E i : Folds(i)
  <2>1. PICK i \in [SUBSET DOMAIN seq -> NameTable] : IsLeftFold(i, seq, e, step)
    BY <1>3, LeftFoldExists, Zenon
  <2>2. ASSUME NEW s \in SUBSET DOMAIN seq, s # {}
        PROVE  i[s] = Prefetched(i[s \ {Max(s)}], seq[Max(s)])
    <3>1. /\ seq[Max(s)] \in OfKind("rtt") /\ i[s \ {Max(s)}] \in NameTable
          /\ i[s] = step[<<i[s \ {Max(s)}], seq[Max(s)]>>]
      BY <1>1, <1>2, <2>1, <2>2 DEF IsLeftFold
    <3> QED
      BY <1>3, <3>1
  <2> QED
    BY <2>1, <2>2 DEF IsLeftFold
<1>5. Folds(it)
  <2> HIDE DEF Folds
  <2> QED
    BY <1>4, Zenon
<1>6. PrefetchAll(e, seq) = it[DOMAIN seq]
  BY DEF PrefetchAll, Prefetched, FoldLeft, MapThenFoldSet
<1> HIDE DEF it
<1>7. TakesSteps(it, seq, NameTable, e, step)
  <2>1. ASSUME NEW s \in SUBSET DOMAIN seq, s # {}, it[s \ {LastIn(s)}] \in NameTable
        PROVE  it[s] = step[<<it[s \ {LastIn(s)}], seq[LastIn(s)]>>]
    <3>1. seq[Max(s)] \in OfKind("rtt") /\ it[s] = Prefetched(it[s \ {Max(s)}], seq[Max(s)])
      BY <1>1, <1>2, <1>5, <2>1
    <3> QED
      BY <1>2, <1>3, <2>1, <3>1
  <2> QED
    BY <1>5, <2>1 DEF TakesSteps
<1>8. PICK g \in [0 .. Len(seq) -> NameTable] : IsStepwise(g, seq, e, step, it[DOMAIN seq])
  BY <1>3, <1>7, LeftFoldSteps, Zenon
<1>9. \A k \in 0 .. Len(seq) - 1 : g[k] \in NameTable /\ seq[k + 1] \in OfKind("rtt")
  BY <1>1
<1>10. PrefetchedStepwise(g, e, seq)
  BY <1>3, <1>6, <1>8, <1>9, ZenonT(60) DEF IsStepwise, PrefetchedStepwise
<1> QED
  BY <1>8, <1>10

(* The rtts of nodes are ready to be drawn.                                *)
Ready(names, nodes) ==
  \A n \in nodes : names[<<n, "rt">>] # 0 /\ (n \in Multisampled => names[<<n, "ms">>] # 0)

(* A rendertarget of no rtt.                                               *)
NotOfRtt(rt) == \A n \in OfKind("rtt") : rt # <<n, "rt">> /\ rt # <<n, "ms">>

LEMMA PrefetchedRtt ==
  ASSUME NEW names \in NameTable, NEW n \in OfKind("rtt")
  PROVE  /\ \A rt \in Target : NotOfRtt(rt) => Prefetched(names, n)[rt] = names[rt]
         /\ \A rt \in Target : names[rt] # 0 => Prefetched(names, n)[rt] # 0
         /\ Ready(Prefetched(names, n), {n})
<1> DEFINE S == ToSet(TargetsOf(n))
           a == <<n, "rt">>
           b == <<n, "ms">>
           f == Prefetched(names, n)
<1>1. a \in Target /\ b \in Target
  BY DEF Target
<1>2. TargetsOf(n) \in Seq(Target) /\ S = {a} \union (IF n \in Multisampled THEN {b} ELSE {})
  BY TargetsOfType
<1>3. /\ \A rt \in Target : rt \notin S => f[rt] = names[rt]
      /\ \A rt \in Target : rt \in S \/ names[rt] # 0 => f[rt] # 0
  BY <1>2, WithTargetsType DEF Prefetched
<1>4. ASSUME NEW rt \in Target, NotOfRtt(rt)
      PROVE  f[rt] = names[rt]
  <2>1. rt # a /\ rt # b
    BY <1>4 DEF NotOfRtt
  <2> HIDE DEF a, b, f, S
  <2> QED
    BY <1>2, <1>3, <2>1
<1>5. f[a] # 0 /\ (n \in Multisampled => f[b] # 0)
  <2> HIDE DEF a, b, f, S
  <2> QED
    BY <1>1, <1>2, <1>3
<1>6. \A rt \in Target : names[rt] # 0 => f[rt] # 0
  <2> HIDE DEF f, S
  <2> QED
    BY <1>3
<1> HIDE DEF f
<1> QED
  BY <1>4, <1>5, <1>6 DEF Ready, f

LEMMA PrefetchAllType ==
  ASSUME NEW e \in NameTable, NEW seq \in Seq(OfKind("rtt"))
  PROVE  /\ PrefetchAll(e, seq) \in NameTable
         /\ \A rt \in Target : NotOfRtt(rt) => PrefetchAll(e, seq)[rt] = e[rt]
         /\ \A rt \in Target : e[rt] # 0 => PrefetchAll(e, seq)[rt] # 0
         /\ Ready(PrefetchAll(e, seq), ToSet(seq))
         /\ \A n \in OfKind("rtt") : n \notin ToSet(seq) => PrefetchAll(e, seq)[<<n, "rt">>] = e[<<n, "rt">>]
<1>1. /\ Len(seq) \in Nat /\ DOMAIN seq = 1 .. Len(seq)
      /\ \A k \in 0 .. Len(seq) - 1 : k + 1 \in DOMAIN seq /\ seq[k + 1] \in OfKind("rtt")
  OBVIOUS
<1>2. PICK g \in [0 .. Len(seq) -> NameTable] : PrefetchedStepwise(g, e, seq)
  BY PrefetchedSteps
<1> DEFINE First(k) == {seq[i] : i \in 1 .. k}
           Made(k)  == /\ \A rt \in Target : NotOfRtt(rt) => g[k][rt] = e[rt]
                       /\ \A rt \in Target : e[rt] # 0 => g[k][rt] # 0
                       /\ Ready(g[k], First(k))
                       /\ \A n \in OfKind("rtt") : n \notin First(k) => g[k][<<n, "rt">>] = e[<<n, "rt">>]
           G == {k \in 0 .. Len(seq) : Made(k)}
<1>3. 0 \in G
  <2>1. First(0) = {} /\ g[0] = e
    BY <1>2 DEF PrefetchedStepwise
  <2> HIDE DEF First
  <2> QED
    BY <1>1, <2>1 DEF Ready
<1>4. ASSUME NEW k \in 0 .. Len(seq) - 1, k \in G
      PROVE  k + 1 \in G
  <2> DEFINE n == seq[k + 1]
             c == g[k + 1]
             b == g[k]
  <2>1. /\ k \in 0 .. Len(seq) /\ k + 1 \in 0 .. Len(seq) /\ n \in OfKind("rtt") /\ b \in NameTable
        /\ c = Prefetched(b, n)
    BY <1>1, <1>2 DEF PrefetchedStepwise
  <2>2. First(k + 1) = First(k) \union {n}
    BY <1>1
  <2>3. Made(k)
    <3> HIDE DEF Made
    <3> QED
      BY <1>4
  <2> HIDE DEF First, n, c, b
  <2>4. /\ \A rt \in Target : NotOfRtt(rt) => c[rt] = b[rt]
        /\ \A rt \in Target : b[rt] # 0 => c[rt] # 0
        /\ Ready(c, {n})
    BY <2>1, PrefetchedRtt
  <2>5. \A m \in OfKind("rtt") : m # n => c[<<m, "rt">>] = b[<<m, "rt">>]
    <3> SUFFICES ASSUME NEW m \in OfKind("rtt"), m # n
                 PROVE  c[<<m, "rt">>] = b[<<m, "rt">>]
      OBVIOUS
    <3> DEFINE x == <<m, "rt">>
    <3>1. x \in Target /\ x # <<n, "rt">> /\ x # <<n, "ms">>
      BY DEF Target
    <3> HIDE DEF x
    <3>2. x \notin ToSet(TargetsOf(n)) /\ TargetsOf(n) \in Seq(Target)
      BY <2>1, <3>1, TargetsOfType
    <3>3. c[x] = b[x]
      BY <2>1, <3>1, <3>2, WithTargetsType DEF Prefetched
    <3> QED
      BY <3>3 DEF x
  <2>6. \A m \in First(k) : <<m, "rt">> \in Target /\ <<m, "ms">> \in Target
    <3>1. \A m \in First(k) : m \in OfKind("rtt")
      BY <1>1, <2>1 DEF First
    <3> QED
      BY <3>1 DEF Target
  <2>7. Ready(c, First(k + 1))
    <3>1. ASSUME NEW m \in First(k)
          PROVE  c[<<m, "rt">>] # 0 /\ (m \in Multisampled => c[<<m, "ms">>] # 0)
      <4>1. b[<<m, "rt">>] # 0 /\ (m \in Multisampled => b[<<m, "ms">>] # 0)
        BY <2>3 DEF Ready, b
      <4> QED
        BY <2>4, <2>6, <4>1
    <3> QED
      BY <2>2, <2>4, <3>1 DEF Ready
  <2>8. Made(k + 1)
    BY <2>2, <2>3, <2>4, <2>5, <2>7 DEF b, c
  <2> HIDE DEF Made
  <2> QED
    BY <2>1, <2>8
<1>5. Made(Len(seq))
  <2>1. \A k \in 0 .. Len(seq) - 1 : k \in G => k + 1 \in G
    BY <1>4
  <2>2. \A k \in 0 .. Len(seq) : k \in G
    <3> HIDE DEF G
    <3> QED
      BY <1>1, <1>3, <2>1, CountingUp
  <2> HIDE DEF Made
  <2> QED
    BY <1>1, <2>2
<1>6. First(Len(seq)) = ToSet(seq)
  BY <1>1 DEF ToSet
<1>7. PrefetchAll(e, seq) = g[Len(seq)] /\ g[Len(seq)] \in NameTable
  BY <1>1, <1>2 DEF PrefetchedStepwise
<1> HIDE DEF First
<1> QED
  BY <1>5, <1>6, <1>7

(* The rtts to prefetch, in some order.                                    *)
LEMMA AllInOrder ==
  ASSUME NEW S, IsFiniteSet(S)
  PROVE  SetToSeq(S) \in Seq(S) /\ ToSet(SetToSeq(S)) = S
<1> DEFINE k == Cardinality(S)
           Is(f) == f \in [1 .. k -> S] /\ IsInjective(f)
           s == SetToSeq(S)
<1>1. k \in Nat /\ ExistsBijection(1 .. k, S)
  BY FS_CardinalityType
<1>2. \E f : Is(f)
  BY <1>1 DEF ExistsBijection, Bijection, Injection
<1>3. s \in [1 .. k -> S] /\ IsInjective(s)
  BY <1>2 DEF SetToSeq
<1> HIDE DEF s
<1>4. s \in Seq(S) /\ DOMAIN s = 1 .. k
  BY <1>1, <1>3
<1>5. s \in Surjection(1 .. k, S)
  <2>1. s \in Injection(1 .. k, S)
    BY <1>3 DEF Injection
  <2>2. IsFiniteSet(1 .. k) /\ Cardinality(1 .. k) = k
    <3> HIDE DEF k
    <3>1. 1 \in Int /\ k \in Int /\ (1 > k => k = 0)
      BY <1>1
    <3>2. IsFiniteSet(1 .. k) /\ Cardinality(1 .. k) = IF 1 > k THEN 0 ELSE k - 1 + 1
      BY <3>1, FS_Interval
    <3> QED
      BY <3>1, <3>2
  <2> QED
    BY <2>1, <2>2, FS_Injection
<1>6. ToSet(s) = S
  BY <1>4, <1>5 DEF ToSet, Surjection
<1> QED
  BY <1>4, <1>6 DEF s

(***************************************************************************)
(* The draws go down the scene                                             *)
(***************************************************************************)
(* The draws s of the nodes S of a scene: every one is of a child of the   *)
(* one before, and no node is drawn inside of itself.                      *)
DrawsOf(S, s) ==
  /\ s \in Draws /\ Len(s) >= 1
  /\ \A k \in ToSet(s[1].rest) : Below[k] \subseteq S
  /\ \A i \in 2 .. Len(s) : Below[s[i].node] \subseteq S /\ ToSet(s[i].rest) \subseteq ToSet(Kids[s[i].node])
  /\ \A i, j \in 2 .. Len(s) : i < j => Below[s[j].node] \subseteq Below[s[i].node] \ {s[i].node}

GoesDown == IF phase = "draw" THEN DrawsOf(InScene, stack) ELSE stack = <<>>

(* A child is below its parent, which is not below the child.              *)
LEMMA ChildIsBelow ==
  ASSUME NEW n \in Node
  PROVE  n \in Below[n] /\ \A k \in ToSet(Kids[n]) : Below[k] \subseteq Below[n] \ {n}
  BY AcyclicAssumption

LEMMA DrawsGoOn ==
  ASSUME NEW S, NEW s, DrawsOf(S, s), NEW z \in Draws, Len(z) = Len(s),
         \A i \in 1 .. Len(s) : GoesOn(s[i], z[i])
  PROVE  DrawsOf(S, z)
<1>1. Len(s) \in Nat /\ 1 \in 1 .. Len(s)
  BY DEF DrawsOf, Draws
<1>2. \A i \in 1 .. Len(s) : z[i].node = s[i].node /\ ToSet(z[i].rest) \subseteq ToSet(s[i].rest)
  BY DEF GoesOn
<1>3. \A k \in ToSet(z[1].rest) : Below[k] \subseteq S
  BY <1>1, <1>2 DEF DrawsOf
<1>4. \A i \in 2 .. Len(s) : /\ z[i].node = s[i].node /\ ToSet(z[i].rest) \subseteq ToSet(s[i].rest)
                             /\ Below[s[i].node] \subseteq S /\ ToSet(s[i].rest) \subseteq ToSet(Kids[s[i].node])
  BY <1>1, <1>2 DEF DrawsOf
<1>5. \A i, j \in 2 .. Len(s) : i < j => Below[z[j].node] \subseteq Below[z[i].node] \ {z[i].node}
  BY <1>4 DEF DrawsOf
<1> QED
  BY <1>1, <1>3, <1>4, <1>5 DEF DrawsOf

LEMMA DrawsGoDown ==
  ASSUME NEW S, NEW s, DrawsOf(S, s), NEW z \in Draws, Len(z) = Len(s) + 1,
         \A i \in 1 .. Len(s) : GoesOn(s[i], z[i]),
         NEW n \in Node, n \in ToSet(s[Len(s)].rest), z[Len(s) + 1].node = n, z[Len(s) + 1].rest = Kids[n]
  PROVE  DrawsOf(S, z)
<1> DEFINE k == Len(s)
<1>1. k \in Nat /\ k >= 1 /\ 1 \in 1 .. k /\ s \in Draws
  BY DEF DrawsOf, Draws
<1>2. \A i \in 1 .. k : z[i].node = s[i].node /\ ToSet(z[i].rest) \subseteq ToSet(s[i].rest)
  BY DEF GoesOn
<1>3. \A j \in ToSet(z[1].rest) : Below[j] \subseteq S
  <2>1. \A j \in ToSet(s[1].rest) : Below[j] \subseteq S
    BY DEF DrawsOf
  <2>2. ToSet(z[1].rest) \subseteq ToSet(s[1].rest)
    BY <1>1, <1>2
  <2> QED
    BY <2>1, <2>2
<1>4. \A i \in 2 .. k : /\ z[i].node = s[i].node /\ ToSet(z[i].rest) \subseteq ToSet(s[i].rest)
                        /\ Below[s[i].node] \subseteq S /\ ToSet(s[i].rest) \subseteq ToSet(Kids[s[i].node])
  <2>1. \A i \in 2 .. k : Below[s[i].node] \subseteq S /\ ToSet(s[i].rest) \subseteq ToSet(Kids[s[i].node])
    BY DEF DrawsOf
  <2>2. \A i \in 2 .. k : i \in 1 .. k
    BY <1>1
  <2> QED
    BY <1>2, <2>1, <2>2
<1>5. \A i, j \in 2 .. k : i < j => Below[z[j].node] \subseteq Below[z[i].node] \ {z[i].node}
  BY <1>4 DEF DrawsOf
<1>6. ASSUME NEW i \in 2 .. k
      PROVE  Below[n] \subseteq Below[z[i].node] \ {z[i].node}
  <2>1. k \in 2 .. k /\ s[k].node \in Node /\ s[i].node \in Node /\ z[i].node = s[i].node
    BY <1>1, <1>4 DEF Draws
  <2>2. n \in ToSet(Kids[s[k].node])
    BY <1>4, <2>1
  <2>3. Below[n] \subseteq Below[s[k].node] \ {s[k].node}
    BY <2>1, <2>2, ChildIsBelow
  <2>4. CASE i = k
    BY <2>1, <2>3, <2>4
  <2>5. CASE i # k
    <3>1. i < k
      BY <1>1, <2>5
    <3>2. Below[s[k].node] \subseteq Below[s[i].node] \ {s[i].node}
      BY <2>1, <3>1 DEF DrawsOf
    <3> QED
      BY <2>1, <2>3, <3>2
  <2> QED
    BY <2>4, <2>5
<1>7. Below[n] \subseteq S
  <2>1. CASE k = 1
    BY <2>1 DEF DrawsOf
  <2>2. CASE k # 1
    <3>1. k \in 2 .. k
      <4> HIDE DEF k
      <4> QED
        BY <1>1, <2>2
    <3> QED
      BY <1>4, <1>6, <3>1
  <2> QED
    BY <2>1, <2>2
<1>8. \A i \in 2 .. Len(z) : Below[z[i].node] \subseteq S /\ ToSet(z[i].rest) \subseteq ToSet(Kids[z[i].node])
  <2> SUFFICES ASSUME NEW i \in 2 .. Len(z)
               PROVE  Below[z[i].node] \subseteq S /\ ToSet(z[i].rest) \subseteq ToSet(Kids[z[i].node])
    OBVIOUS
  <2>1. CASE i = k + 1
    BY <1>7, <2>1
  <2>2. CASE i # k + 1
    <3>1. i \in 2 .. k
      BY <1>1, <2>2
    <3> QED
      BY <1>4, <3>1
  <2> QED
    BY <2>1, <2>2
<1>9. \A i, j \in 2 .. Len(z) : i < j => Below[z[j].node] \subseteq Below[z[i].node] \ {z[i].node}
  <2> SUFFICES ASSUME NEW i \in 2 .. Len(z), NEW j \in 2 .. Len(z), i < j
               PROVE  Below[z[j].node] \subseteq Below[z[i].node] \ {z[i].node}
    OBVIOUS
  <2>1. i \in 2 .. k /\ (j = k + 1 \/ j \in 2 .. k)
    BY <1>1
  <2> QED
    BY <1>5, <1>6, <2>1
<1>10. Len(z) >= 1
  BY <1>1
<1> QED
  BY <1>3, <1>8, <1>9, <1>10, Zenon DEF DrawsOf

LEMMA DrawsGoUp ==
  ASSUME NEW S, NEW s, DrawsOf(S, s), NEW z \in Draws, Len(s) > 1, Len(z) = Len(s) - 1,
         \A i \in 1 .. Len(s) - 1 : z[i] = s[i]
  PROVE  DrawsOf(S, z)
<1>1. /\ Len(s) \in Nat /\ Len(z) >= 1 /\ 1 \in 1 .. Len(s) - 1
      /\ \A i \in 2 .. Len(z) : i \in 1 .. Len(s) - 1 /\ i \in 2 .. Len(s)
  BY DEF DrawsOf, Draws
<1>2. z[1] = s[1] /\ \A i \in 2 .. Len(z) : z[i] = s[i] /\ i \in 2 .. Len(s)
  BY <1>1
<1> QED
  BY <1>1, <1>2 DEF DrawsOf

(* What a step down, up or along does, in a draw.                          *)
WentDown(n) ==
  /\ stack \in Draws /\ stack' \in Draws /\ Len(stack) \in Nat \ {0} /\ Len(stack') = Len(stack) + 1
  /\ \A i \in 1 .. Len(stack) : GoesOn(stack[i], stack'[i]) /\ PathTo(stack', i) = PathTo(stack, i)
  /\ stack'[Len(stack) + 1] = Frame(n)
  /\ PathTo(stack', Len(stack) + 1) = Append(PathTo(stack, Len(stack)), n)
  /\ PathTo(stack, Len(stack)) \in Seq(Node)

WentUp(n) ==
  /\ stack \in Draws /\ stack' \in Draws /\ Len(stack) \in Nat /\ Len(stack) > 1 /\ Len(stack') = Len(stack) - 1
  /\ \A i \in 1 .. Len(stack) - 1 : stack'[i] = stack[i] /\ PathTo(stack', i) = PathTo(stack, i)
  /\ Top = stack[Len(stack)] /\ Top \in Call /\ n = Top.node
  /\ PathTo(stack, Len(stack)) = Append(PathTo(stack, Len(stack) - 1), n)
  /\ PathTo(stack, Len(stack) - 1) \in Seq(Node)

WentAlong ==
  /\ stack \in Draws /\ stack' \in Draws /\ Len(stack) \in Nat \ {0} /\ Len(stack') = Len(stack)
  /\ \A i \in 1 .. Len(stack) : GoesOn(stack[i], stack'[i]) /\ PathTo(stack', i) = PathTo(stack, i)

LEMMA StepDown ==
  ASSUME Invariant, Invariant', GoesDown, NEW n \in Node, NEW k, Visit(n, k), Down(n), Unmoved
  PROVE  WentDown(n) /\ GoesDown'
<1>1. /\ phase = "draw" /\ phase' = "draw" /\ InScene' = InScene /\ DrawsOf(InScene, stack)
      /\ Top.rest # <<>> /\ n = Head(Top.rest)
  BY DEF Visit, GoesDown, Unmoved, sceneVars, InScene
<1>2. /\ stack \in Draws /\ Len(stack) \in Nat /\ Len(stack) >= 1
      /\ TypeOK /\ stack' \in Seq(Call) /\ Kids[n] \in Seq(Node)
  BY <1>1, DrawStateAssumption DEF DrawsOf, Draws, Invariant, TypeOK
<1>3. /\ stack' \in Draws /\ Len(stack') = Len(stack) + 1
      /\ n \in ToSet(stack[Len(stack)].rest)
      /\ \A i \in 1 .. Len(stack) : GoesOn(stack[i], stack'[i])
      /\ stack'[Len(stack) + 1] = Frame(n)
      /\ \A i \in 1 .. Len(stack) : PathTo(stack', i) = PathTo(stack, i)
      /\ PathTo(stack', Len(stack) + 1) = Append(PathTo(stack, Len(stack)), n)
  BY <1>1, <1>2, PathDown
<1>4. PathTo(stack, Len(stack)) \in Seq(Node)
  BY <1>2, PathType
<1>5. WentDown(n)
  BY <1>2, <1>3, <1>4 DEF WentDown
<1>6. stack'[Len(stack) + 1].node = n /\ stack'[Len(stack) + 1].rest = Kids[n]
  BY <1>3 DEF Frame
<1>7. DrawsOf(InScene, stack')
  BY <1>1, <1>3, <1>6, DrawsGoDown
<1> QED
  BY <1>1, <1>5, <1>7 DEF GoesDown

LEMMA StepUp ==
  ASSUME GoesDown, NEW n \in Node, NEW k, Leave(n, k), Up, Unmoved
  PROVE  WentUp(n) /\ GoesDown'
<1>1. /\ phase = "draw" /\ phase' = "draw" /\ InScene' = InScene /\ DrawsOf(InScene, stack)
      /\ Len(stack) > 1 /\ n = Top.node
  BY DEF Leave, GoesDown, Unmoved, sceneVars, InScene
<1>2. stack \in Draws
  BY <1>1 DEF DrawsOf
<1>3. /\ stack' \in Draws /\ Len(stack) \in Nat /\ Len(stack') = Len(stack) - 1
      /\ Top = stack[Len(stack)] /\ Top \in Call /\ Top.node \in Node
      /\ \A i \in 1 .. Len(stack) - 1 : stack'[i] = stack[i]
      /\ \A i \in 1 .. Len(stack) - 1 : PathTo(stack', i) = PathTo(stack, i)
      /\ PathTo(stack, Len(stack)) = Append(PathTo(stack, Len(stack) - 1), Top.node)
  BY <1>1, <1>2, PathUp
<1>4. PathTo(stack, Len(stack) - 1) \in Seq(Node)
  BY <1>1, <1>2, <1>3, PathType
<1>5. WentUp(n)
  BY <1>1, <1>2, <1>3, <1>4 DEF WentUp
<1>6. DrawsOf(InScene, stack')
  BY <1>1, <1>3, DrawsGoUp
<1> QED
  BY <1>1, <1>5, <1>6 DEF GoesDown

LEMMA StepAlong ==
  ASSUME GoesDown, NEW n \in Node, Render(n)
  PROVE  WentAlong /\ GoesDown'
<1>1. /\ phase = "draw" /\ phase' = "draw" /\ InScene' = InScene /\ DrawsOf(InScene, stack)
      /\ Top.rest # <<>> /\ stack' = Advanced
  BY DEF Render, Visit, GoesDown, Unmoved, sceneVars, InScene
<1>2. stack \in Draws /\ Len(stack) >= 1 /\ Len(stack) \in Nat
  BY <1>1 DEF DrawsOf, Draws
<1>3. /\ stack' \in Draws /\ Len(stack') = Len(stack)
      /\ \A i \in 1 .. Len(stack) : GoesOn(stack[i], stack'[i])
      /\ \A i \in 1 .. Len(stack) : PathTo(stack', i) = PathTo(stack, i)
  BY <1>1, <1>2, PathAlong
<1>4. WentAlong
  BY <1>2, <1>3 DEF WentAlong
<1>5. DrawsOf(InScene, stack')
  BY <1>1, <1>3, DrawsGoOn
<1> QED
  BY <1>1, <1>4, <1>5 DEF GoesDown

(* Which of them the steps of a draw are.                                  *)
Entered(n) == Visit(n, Kind[n]) /\ Down(n) /\ Unmoved
Left(n)    == Leave(n, Kind[n]) /\ Up /\ Unmoved

LEMMA DrawSteps ==
  ASSUME NEW n \in Node, Draw(n)
  PROVE  Entered(n) \/ Left(n) \/ Render(n)
  BY DEF Draw, Entered, Left, EnterGroup, LeaveGroup, EnterConfig, LeaveConfig, EnterTransform, LeaveTransform,
         EnterCamera, LeaveCamera, EnterHud, LeaveHud, EnterRtt, LeaveRtt, Visit, Leave

LEMMA DrawGoesDown ==
  ASSUME Invariant, Invariant', GoesDown, NEW n \in Node, Draw(n)
  PROVE  GoesDown'
  BY DrawSteps, StepDown, StepUp, StepAlong DEF Entered, Left

LEMMA NextGoesDown ==
  ASSUME Invariant, Invariant', GoesDown, [Next]_vars
  PROVE  GoesDown'
<1>1. CASE \E c \in Configs : Configure(c) \/ ConfigureFails(c)
  BY <1>1 DEF Configure, ConfigureFails, GoesDown
<1>2. CASE \E size \in Size : Resize(size)
  BY <1>2 DEF Resize, GoesDown
<1>3. CASE \E root \in Scenes \union {None} : SetScene(root)
  BY <1>3 DEF SetScene, GoesDown
<1>4. CASE \E time \in Time : PreDraw(time)
  BY <1>4 DEF PreDraw, GoesDown
<1>5. CASE Prefetch
  BY <1>5 DEF Prefetch, GoesDown
<1>6. CASE \E m \in Media : Convert(m)
  BY <1>6 DEF Convert, GoesDown
<1>7. CASE Update
  <2> DEFINE r == IF scene = None THEN <<>> ELSE <<scene>>
  <2>1. r \in Seq(Node) /\ \A k \in ToSet(r) : Below[k] \subseteq InScene
    <3>1. CASE scene = None
      BY <3>1 DEF ToSet
    <3>2. CASE scene # None
      <4>1. r = <<scene>> /\ scene \in Node /\ ToSet(r) = {scene}
        BY <3>2, DrawStateAssumption DEF Invariant, TypeOK, ToSet
      <4> QED
        BY <3>2, <4>1 DEF InScene
    <3> QED
      BY <3>1, <3>2
  <2> HIDE DEF r
  <2>2. /\ stack' = <<[node |-> Context, rest |-> r, target |-> target, viewport |-> viewport, clear |-> clear]>>
        /\ phase' = "draw" /\ scene' = scene /\ stack' \in Seq(Call)
    BY <1>7 DEF Update, Invariant, TypeOK, r
  <2>3. Len(stack') = 1 /\ stack'[1].rest = r /\ InScene' = InScene
    BY <2>2 DEF InScene
  <2>4. DrawsOf(InScene, stack')
    BY <2>1, <2>2, <2>3 DEF DrawsOf, Draws
  <2> QED
    BY <2>2, <2>3, <2>4 DEF GoesDown
<1>8. CASE \E n \in Node : Draw(n)
  BY <1>8, DrawGoesDown
<1>9. CASE PostDraw
  BY <1>9 DEF PostDraw, GoesDown
<1>10. CASE UNCHANGED vars
  BY <1>10 DEF vars, sceneVars, GoesDown, InScene
<1> QED
  BY <1>1, <1>2, <1>3, <1>4, <1>5, <1>6, <1>7, <1>8, <1>9, <1>10 DEF Next


(***************************************************************************)
(* The framebuffers a frame needs are there                                *)
(***************************************************************************)
CtxTarget == <<Context, "rt">>

Rtts == OfKind("rtt")

Named ==
  /\ fb \in NameTable
  /\ \A n \in Rtts : fb[<<n, "rt">>] # 0 => Ready(fb, {n})
  /\ phase \in {"update", "draw"} => Ready(fb, InScene \intersect Rtts)
  /\ phase # "off" /\ conf.offscreen => fb[CtxTarget] # 0

LEMMA TargetsApart ==
  /\ CtxTarget \in Target /\ NotOfRtt(CtxTarget) /\ CtxTarget \notin NodeTargets
  /\ \A n \in Rtts : /\ <<n, "rt">> \in NodeTargets /\ <<n, "ms">> \in NodeTargets
                     /\ <<n, "rt">> \in Target /\ <<n, "ms">> \in Target
  /\ \A m \in Media : <<m, "conv">> \in Target /\ <<m, "conv">> # CtxTarget
  /\ [rt \in Target |-> 0] \in NameTable
<1>1. \A n \in Rtts : n # Context
  BY DrawStateAssumption DEF Rtts, OfKind
<1>2. \A n \in Rtts : <<n, "rt">> \in Target /\ <<n, "ms">> \in Target
  BY DEF Target, Rtts
<1>3. CtxTarget \in Target
  BY DEF Target, CtxTarget
<1>4. NotOfRtt(CtxTarget)
  BY <1>1 DEF NotOfRtt, CtxTarget, Rtts
<1>5. CtxTarget \notin NodeTargets /\ \A n \in Rtts : <<n, "rt">> \in NodeTargets /\ <<n, "ms">> \in NodeTargets
  BY <1>1, <1>2 DEF NodeTargets, CtxTarget
<1>6. \A m \in Media : <<m, "conv">> \in Target /\ <<m, "conv">> # CtxTarget
  BY DEF Target, CtxTarget
<1>7. [rt \in Target |-> 0] \in NameTable
  <2>1. Cardinality(Target) \in Nat
    BY TargetIsFinite
  <2> QED
    BY <2>1 DEF NameTable
<1> QED
  BY <1>2, <1>3, <1>4, <1>5, <1>6, <1>7

LEMMA SequenceOf ==
  ASSUME NEW S, NEW T, S \subseteq T, NEW s \in Seq(S)
  PROVE  s \in Seq(T) /\ ToSet(s) \subseteq S
<1>1. DOMAIN s = 1 .. Len(s) /\ \A i \in 1 .. Len(s) : s[i] \in S
  OBVIOUS
<1> QED
  BY <1>1 DEF ToSet

(* The rtts of a table have no name when those of the scene have none.     *)
LEMMA NamesOfConfigure ==
  ASSUME Invariant, NEW c \in Configs, Configure(c)
  PROVE  Named' /\ (~ c.offscreen => fb'[CtxTarget] = 0)
<1> DEFINE zero == [rt \in Target |-> 0]
           own  == {Context} \X {"rt", "capture", "resolve"}
           rts  == IF c.offscreen THEN <<CtxTarget>> \o Captures(c) ELSE <<>>
<1>1. own \subseteq Target /\ CtxTarget \in own /\ \A n \in Rtts : <<n, "rt">> \notin own
  <2>1. \A n \in Rtts : n # Context
    BY DrawStateAssumption DEF Rtts, OfKind
  <2> QED
    BY <2>1 DEF Target, CtxTarget
<1>2. Captures(c) \in Seq(own)
  BY DEF Captures
<1>3. rts \in Seq(own) /\ (c.offscreen => CtxTarget \in ToSet(rts)) /\ (~ c.offscreen => CtxTarget \notin ToSet(rts))
  <2>1. CASE c.offscreen
    <3> HIDE DEF own
    <3>1. rts = <<CtxTarget>> \o Captures(c) /\ rts \in Seq(own) /\ rts[1] = CtxTarget /\ 1 \in DOMAIN rts
      BY <1>1, <1>2, <2>1
    <3> QED
      BY <2>1, <3>1 DEF ToSet
  <2>2. CASE ~ c.offscreen
    BY <2>2 DEF ToSet
  <2> QED
    BY <2>1, <2>2
<1>4. fb' = WithTargets(zero, rts) /\ zero \in NameTable /\ \A rt \in Target : zero[rt] = 0
  BY TargetsApart DEF Configure, CtxTarget
<1> HIDE DEF zero, rts, own
<1>5. rts \in Seq(Target) /\ ToSet(rts) \subseteq own
  BY <1>1, <1>3, SequenceOf
<1>6. /\ fb' \in NameTable
      /\ \A rt \in Target : rt \notin ToSet(rts) => fb'[rt] = zero[rt]
      /\ \A rt \in Target : rt \in ToSet(rts) \/ zero[rt] # 0 => fb'[rt] # 0
  BY <1>4, <1>5, WithTargetsType
<1>7. \A n \in Rtts : fb'[<<n, "rt">>] = 0
  <2> SUFFICES ASSUME NEW n \in Rtts
               PROVE  fb'[<<n, "rt">>] = 0
    OBVIOUS
  <2>1. <<n, "rt">> \in Target /\ <<n, "rt">> \notin ToSet(rts)
    BY <1>1, <1>5, TargetsApart
  <2> QED
    BY <1>4, <1>6, <2>1
<1>8. phase' = "idle" /\ conf' = c
  BY DEF Configure
<1>9. CtxTarget \in Target
  BY TargetsApart
<1>10. (c.offscreen => fb'[CtxTarget] # 0) /\ (~ c.offscreen => fb'[CtxTarget] = 0)
  BY <1>3, <1>4, <1>6, <1>9
<1> QED
  BY <1>6, <1>7, <1>8, <1>10 DEF Named

LEMMA NamesOfFailure ==
  ASSUME NEW c \in Configs, ConfigureFails(c)
  PROVE  Named'
<1>1. fb' = [rt \in Target |-> 0] /\ phase' = "off"
  BY DEF ConfigureFails
<1> QED
  BY <1>1, TargetsApart DEF Named

LEMMA NamesOfSetScene ==
  ASSUME Named, NEW root \in Scenes \union {None}, SetScene(root)
  PROVE  Named' /\ fb'[CtxTarget] = fb[CtxTarget]
<1>1. /\ fb' = [rt \in Target |-> IF rt \in NodeTargets THEN 0 ELSE fb[rt]]
      /\ phase' = "idle" /\ phase = "idle" /\ conf' = conf
  BY DEF SetScene, WithoutTargets
<1>2. fb' \in NameTable
  <2>1. /\ fb \in [Target -> 0 .. Cardinality(Target) + 1] /\ Cardinality(Target) \in Nat
        /\ \A a, b \in Target : fb[a] = fb[b] /\ fb[a] # 0 => a = b
    BY TargetIsFinite DEF Named, NameTable
  <2>2. 0 \in 0 .. Cardinality(Target) + 1
    BY <2>1
  <2>3. /\ fb' \in [Target -> 0 .. Cardinality(Target) + 1]
        /\ \A a \in Target : fb'[a] = 0 \/ fb'[a] = fb[a]
    BY <1>1, <2>1, <2>2
  <2>4. \A a, b \in Target : fb'[a] = fb'[b] /\ fb'[a] # 0 => a = b
    BY <2>1, <2>3
  <2> QED
    BY <2>3, <2>4 DEF NameTable
<1>3. fb'[CtxTarget] = fb[CtxTarget] /\ \A n \in Rtts : fb'[<<n, "rt">>] = 0
  BY <1>1, TargetsApart
<1> QED
  BY <1>1, <1>2, <1>3 DEF Named

LEMMA NamesOfPrefetch ==
  ASSUME Named, Prefetch
  PROVE  Named' /\ fb'[CtxTarget] = fb[CtxTarget]
<1> DEFINE S == {n \in InScene \intersect OfKind("rtt") : fb[<<n, "rt">>] = 0}
<1>1. S \subseteq Rtts /\ IsFiniteSet(S)
  <2>1. S \in SUBSET Node
    BY DEF OfKind
  <2> HIDE DEF S
  <2>2. IsFiniteSet(S)
    BY <2>1, DrawStateAssumption, FS_Subset
  <2> QED
    BY <2>2 DEF S, Rtts
<1>2. ToPrefetch \in Seq(S) /\ ToSet(ToPrefetch) = S
  <2> HIDE DEF S
  <2>1. SetToSeq(S) \in Seq(S) /\ ToSet(SetToSeq(S)) = S
    BY <1>1, AllInOrder
  <2> QED
    BY <2>1 DEF ToPrefetch, S
<1> HIDE DEF S
<1>3. PICK k \in 0 .. Len(ToPrefetch) :
        /\ fb' = PrefetchAll(fb, SubSeq(ToPrefetch, 1, k))
        /\ phase' = IF k = Len(ToPrefetch) THEN "update" ELSE "failed"
  BY DEF Prefetch
<1> DEFINE s == SubSeq(ToPrefetch, 1, k)
<1>4. s \in Seq(S) /\ (k = Len(ToPrefetch) => s = ToPrefetch)
  <2>1. Len(ToPrefetch) \in Nat /\ k \in Nat /\ k <= Len(ToPrefetch)
    BY <1>2
  <2>2. s \in Seq(S) /\ Len(s) = k /\ \A i \in 1 .. k : s[i] = ToPrefetch[i]
    BY <1>2, <2>1
  <2> HIDE DEF s
  <2> QED
    BY <1>2, <2>1, <2>2, SeqEqual
<1>5. s \in Seq(OfKind("rtt")) /\ ToSet(s) \subseteq S
  <2> HIDE DEF s
  <2> QED
    BY <1>1, <1>4, SequenceOf DEF Rtts
<1> HIDE DEF s
<1>6. /\ fb' \in NameTable
      /\ \A rt \in Target : NotOfRtt(rt) => fb'[rt] = fb[rt]
      /\ \A rt \in Target : fb[rt] # 0 => fb'[rt] # 0
      /\ Ready(fb', ToSet(s))
      /\ \A n \in OfKind("rtt") : n \notin ToSet(s) => fb'[<<n, "rt">>] = fb[<<n, "rt">>]
  <2>1. fb \in NameTable /\ fb' = PrefetchAll(fb, s)
    BY <1>3 DEF Named, s
  <2> QED
    BY <1>5, <2>1, PrefetchAllType
<1>7. /\ phase = "prefetch" /\ conf' = conf /\ InScene' = InScene
  BY DEF Prefetch, sceneVars, InScene
<1>8. fb'[CtxTarget] = fb[CtxTarget]
  BY <1>6, TargetsApart
<1>9. ASSUME NEW n \in Rtts, fb'[<<n, "rt">>] # 0
      PROVE  Ready(fb', {n})
  <2>1. CASE n \in ToSet(s)
    BY <1>6, <2>1 DEF Ready
  <2>2. CASE n \notin ToSet(s)
    <3>1. fb[<<n, "rt">>] # 0
      BY <1>6, <1>9, <2>2 DEF Rtts
    <3>2. fb[<<n, "rt">>] # 0 /\ (n \in Multisampled => fb[<<n, "ms">>] # 0)
      BY <3>1 DEF Named, Ready
    <3>3. <<n, "rt">> \in Target /\ <<n, "ms">> \in Target
      BY TargetsApart
    <3> QED
      BY <1>6, <3>2, <3>3 DEF Ready
  <2> QED
    BY <2>1, <2>2
<1>10. ASSUME phase' = "update"
       PROVE  Ready(fb', InScene \intersect Rtts)
  <2>1. k = Len(ToPrefetch) /\ ToSet(s) = S
    BY <1>2, <1>3, <1>4, <1>10
  <2>2. ASSUME NEW n \in InScene \intersect Rtts
        PROVE  fb'[<<n, "rt">>] # 0
    <3>1. CASE n \in S
      BY <1>6, <2>1, <3>1 DEF Ready
    <3>2. CASE n \notin S
      BY <1>6, <2>2, <3>2, TargetsApart DEF S, Rtts
    <3> QED
      BY <3>1, <3>2
  <2> QED
    BY <1>9, <2>2 DEF Ready
<1>11. phase' # "draw" /\ phase # "off" /\ phase' # "off"
  BY <1>3, <1>7
<1> QED
  BY <1>6, <1>7, <1>8, <1>9, <1>10, <1>11 DEF Named

LEMMA NamesOfConvert ==
  ASSUME Named, NEW m \in Media, Convert(m)
  PROVE  Named' /\ fb'[CtxTarget] = fb[CtxTarget]
<1> DEFINE x == <<m, "conv">>
<1>1. x \in Target /\ x # CtxTarget /\ CtxTarget \in Target /\ fb \in NameTable
      /\ \A n \in Rtts : x # <<n, "rt">> /\ x # <<n, "ms">>
  BY TargetsApart DEF Named
<1>2. fb' = (IF fb[x] = 0 THEN WithTargets(fb, <<x>>) ELSE fb) /\ UNCHANGED <<conf, scene, phase>>
  BY DEF Convert, sceneVars
<1> HIDE DEF x
<1>3. /\ fb' \in NameTable
      /\ \A rt \in Target : rt # x => fb'[rt] = fb[rt]
  <2>1. CASE fb[x] = 0
    <3>1. <<x>> \in Seq(Target) /\ ToSet(<<x>>) = {x}
      BY <1>1 DEF ToSet
    <3> QED
      BY <1>1, <1>2, <2>1, <3>1, WithTargetsType
  <2>2. CASE fb[x] # 0
    BY <1>1, <1>2, <2>2
  <2> QED
    BY <2>1, <2>2
<1>4. \A n \in Rtts : fb'[<<n, "rt">>] = fb[<<n, "rt">>] /\ fb'[<<n, "ms">>] = fb[<<n, "ms">>]
  BY <1>1, <1>3, TargetsApart
<1>5. fb'[CtxTarget] = fb[CtxTarget] /\ InScene' = InScene
  BY <1>1, <1>2, <1>3 DEF InScene
<1> QED
  BY <1>2, <1>3, <1>4, <1>5 DEF Named, Ready

LEMMA NextNames ==
  ASSUME Invariant, Named, [Next]_vars
  PROVE  Named'
<1>1. CASE \E c \in Configs : Configure(c) \/ ConfigureFails(c)
  BY <1>1, NamesOfConfigure, NamesOfFailure
<1>2. CASE \E size \in Size : Resize(size)
  <2>1. fb' = fb /\ phase' = phase /\ scene' = scene /\ phase = "idle" /\ (conf'.offscreen => conf.offscreen)
    BY <1>2 DEF Resize, sceneVars
  <2> QED
    BY <2>1 DEF Named, InScene
<1>3. CASE \E root \in Scenes \union {None} : SetScene(root)
  BY <1>3, NamesOfSetScene
<1>4. CASE \E time \in Time : PreDraw(time)
  BY <1>4 DEF PreDraw, sceneVars, Named, InScene
<1>5. CASE Prefetch
  BY <1>5, NamesOfPrefetch
<1>6. CASE \E m \in Media : Convert(m)
  BY <1>6, NamesOfConvert
<1>7. CASE Update
  BY <1>7 DEF Update, Named, InScene
<1>8. CASE \E n \in Node : Draw(n)
  <2>1. fb' = fb /\ phase' = phase /\ scene' = scene /\ conf' = conf
    BY <1>8, DrawSteps DEF Entered, Left, Render, Unmoved, sceneVars
  <2> QED
    BY <2>1 DEF Named, InScene
<1>9. CASE PostDraw
  BY <1>9 DEF PostDraw, sceneVars, Named, InScene
<1>10. CASE UNCHANGED vars
  BY <1>10 DEF vars, sceneVars, Named, InScene
<1> QED
  BY <1>1, <1>2, <1>3, <1>4, <1>5, <1>6, <1>7, <1>8, <1>9, <1>10 DEF Next


(***************************************************************************)
(* The context follows the path                                            *)
(***************************************************************************)
OwnOf(c) == IF c.offscreen THEN CtxTarget ELSE None

(* A context that was offscreen keeps its target when it is onscreen; the  *)
(* target has no name then, like the default framebuffer.                  *)
Stands(names, rt, asked) == rt = asked \/ (rt = CtxTarget /\ asked = None /\ names[CtxTarget] = 0)

(* The target, the viewport and the clear colour are those a path p asks   *)
(* for, in a context of the configuration c.                               *)
Fits(names, c, rt, vp, clr, p) ==
  /\ Stands(names, rt, TargetOn(OwnOf(c), p))
  /\ vp = ViewportOn(c.size, p) /\ clr = ClearOn(c.clear, p)

Here == PathTo(stack, Len(stack))

(* What a draw puts back is what the path to its parent asks for.          *)
KeepsLocals ==
  \A i \in 2 .. Len(stack) :
    /\ Fits(fb, conf, stack[i].target, stack[i].viewport, stack[i].clear, PathTo(stack, i - 1))
    /\ Kind[stack[i].node] = "config" => saved[stack[i].node] = ConfigOn(conf.size, PathTo(stack, i - 1))

ConfType ==
  conf \in [offscreen : BOOLEAN, samples : BOOLEAN, capture : BOOLEAN, size : Size \union {1}, clear : {0, 1, 2}]

Followed ==
  /\ ConfType
  /\ DOMAIN saved = OfKind("config")
  /\ phase # "off" => Fits(fb, conf, target, viewport, clear, Here) /\ config = ConfigOn(conf.size, Here)
  /\ phase = "off" => target \in {None, CtxTarget}
  /\ KeepsLocals

LEMMA EmptyPath ==
  ASSUME NEW s, NEW i \in {0, 1}
  PROVE  PathTo(s, i) = <<>>
<1>1. 1 .. i - 1 = {}
  OBVIOUS
<1> QED
  BY <1>1 DEF PathTo

LEMMA AskedOfNone ==
  ASSUME NEW own, NEW size, NEW clr
  PROVE  /\ \A k : OnPath(<<>>, k) = {}
         /\ ConfigOn(size, <<>>) = Neutral(size) /\ TargetOn(own, <<>>) = own
         /\ ViewportOn(size, <<>>) = size /\ ClearOn(clr, <<>>) = clr
         /\ AskedTimer(<<>>) = None /\ AskedProjection(<<>>) = <<>>
<1>1. \A k : OnPath(<<>>, k) = {}
  BY DEF OnPath
<1>2. ConfigOn(size, <<>>) = [f \in Field |-> Neutral(size)[f]]
  BY <1>1 DEF ConfigOn
<1>3. Neutral(size) = [f \in Field |-> Neutral(size)[f]]
  BY DEF Neutral, Field
<1>4. ConfigOn(size, <<>>) = Neutral(size)
  BY <1>2, <1>3
<1>5. TargetOn(own, <<>>) = own /\ ViewportOn(size, <<>>) = size
  BY <1>1 DEF TargetOn, ViewportOn
<1>6. ClearOn(clr, <<>>) = clr
  BY <1>1 DEF ClearOn
<1>7. AskedTimer(<<>>) = None /\ AskedProjection(<<>>) = <<>>
  BY <1>1 DEF AskedTimer, AskedProjection
<1> QED
  BY <1>1, <1>4, <1>5, <1>6, <1>7

(* A node that is no rtt asks for nothing of this.                         *)
LEMMA FitsGrows ==
  ASSUME NEW p \in Seq(Node), NEW n \in Node, NEW names, NEW c, NEW rt, NEW vp, NEW clr
  PROVE  /\ Kind[n] # "rtt" => (Fits(names, c, rt, vp, clr, Append(p, n)) <=> Fits(names, c, rt, vp, clr, p))
         /\ Kind[n] = "rtt" /\ Fits(names, c, rt, vp, clr, p)
              => Fits(names, c, DrawTarget(n), n, IF n \in OwnClear THEN n ELSE clr, Append(p, n))
         /\ Fits(names, c, rt, vp, clr, Append(p, n)) /\ ~ (Kind[n] = "rtt" /\ n \in OwnClear)
              => clr = ClearOn(c.clear, p)
<1>1. /\ TargetOn(OwnOf(c), Append(p, n)) = IF Kind[n] = "rtt" THEN DrawTarget(n) ELSE TargetOn(OwnOf(c), p)
      /\ ViewportOn(c.size, Append(p, n)) = IF Kind[n] = "rtt" THEN n ELSE ViewportOn(c.size, p)
  BY TargetGrows
<1>2. ClearOn(c.clear, Append(p, n)) = IF Kind[n] = "rtt" /\ n \in OwnClear THEN n ELSE ClearOn(c.clear, p)
  BY ClearGrows
<1>3. ASSUME Kind[n] # "rtt"
      PROVE  Fits(names, c, rt, vp, clr, Append(p, n)) <=> Fits(names, c, rt, vp, clr, p)
  BY <1>1, <1>2, <1>3 DEF Fits
<1>4. ASSUME Kind[n] = "rtt", Fits(names, c, rt, vp, clr, p)
      PROVE  Fits(names, c, DrawTarget(n), n, IF n \in OwnClear THEN n ELSE clr, Append(p, n))
  BY <1>1, <1>2, <1>4 DEF Fits, Stands
<1>5. ASSUME Fits(names, c, rt, vp, clr, Append(p, n)), ~ (Kind[n] = "rtt" /\ n \in OwnClear)
      PROVE  clr = ClearOn(c.clear, p)
  BY <1>2, <1>5 DEF Fits
<1> QED
  BY <1>3, <1>4, <1>5

LEMMA FollowedDown ==
  ASSUME Followed, GoesDown', NEW n \in Node, WentDown(n), phase = "draw", UNCHANGED <<conf, fb, phase>>,
         saved' = saved \/ (Kind[n] = "config" /\ saved' = [saved EXCEPT ![n] = config]),
         Kind[n] = "config" => saved' = [saved EXCEPT ![n] = config],
         Fits(fb, conf, target', viewport', clear', Append(Here, n)),
         config' = ConfigOn(conf.size, Append(Here, n))
  PROVE  Followed'
<1> DEFINE k == Len(stack)
<1>1. /\ stack \in Draws /\ k \in Nat /\ k >= 1 /\ Len(stack') = k + 1
      /\ \A i \in 1 .. k : GoesOn(stack[i], stack'[i]) /\ PathTo(stack', i) = PathTo(stack, i)
      /\ stack'[k + 1] = Frame(n)
      /\ PathTo(stack', k + 1) = Append(Here, n)
  BY DEF WentDown, Here
<1>2. Here' = Append(Here, n) /\ Len(stack') = k + 1
  BY <1>1 DEF Here
<1>3. DOMAIN saved' = OfKind("config") /\ \A m \in OfKind("config") : m # n => saved'[m] = saved[m]
  BY DEF Followed
<1>4. ASSUME NEW i \in 2 .. k + 1
      PROVE  /\ Fits(fb, conf, stack'[i].target, stack'[i].viewport, stack'[i].clear, PathTo(stack', i - 1))
             /\ Kind[stack'[i].node] = "config"
                  => saved'[stack'[i].node] = ConfigOn(conf.size, PathTo(stack', i - 1))
  <2>1. i - 1 \in 1 .. k /\ PathTo(stack', i - 1) = PathTo(stack, i - 1)
    BY <1>1
  <2>2. CASE i = k + 1
    <3>1. i - 1 = k /\ stack'[i] = Frame(n) /\ PathTo(stack', i - 1) = Here
      BY <1>1, <2>1, <2>2 DEF Here
    <3>2. Fits(fb, conf, target, viewport, clear, Here) /\ config = ConfigOn(conf.size, Here)
      BY DEF Followed
    <3>3. Kind[n] = "config" => saved'[n] = config
      BY DEF Followed, OfKind
    <3> QED
      BY <3>1, <3>2, <3>3 DEF Frame
  <2>3. CASE i # k + 1
    <3>1. i \in 2 .. k /\ i \in 1 .. k /\ k + 1 \in 2 .. Len(stack') /\ i \in 2 .. Len(stack') /\ i < k + 1
      BY <1>1, <2>3
    <3>2. stack'[i].node = stack[i].node /\ stack'[i].target = stack[i].target
          /\ stack'[i].viewport = stack[i].viewport /\ stack'[i].clear = stack[i].clear
      BY <1>1, <3>1 DEF GoesOn
    <3>3. stack[i].node \in Node /\ stack'[k + 1].node = n
      BY <1>1, <3>1 DEF Draws, Frame
    <3>4. stack[i].node # n
      <4>1. Below[n] \subseteq Below[stack'[i].node] \ {stack'[i].node}
        BY <3>1, <3>3 DEF GoesDown, DrawsOf
      <4> QED
        BY <3>2, <4>1, ChildIsBelow
    <3>5. Kind[stack[i].node] = "config" => saved'[stack[i].node] = saved[stack[i].node]
      BY <1>3, <3>3, <3>4 DEF OfKind
    <3>6. /\ Fits(fb, conf, stack[i].target, stack[i].viewport, stack[i].clear, PathTo(stack, i - 1))
          /\ Kind[stack[i].node] = "config" => saved[stack[i].node] = ConfigOn(conf.size, PathTo(stack, i - 1))
      BY <3>1 DEF Followed, KeepsLocals
    <3> QED
      BY <2>1, <3>2, <3>5, <3>6
  <2> QED
    BY <2>2, <2>3
<1>5. KeepsLocals'
  BY <1>2, <1>4 DEF KeepsLocals
<1> QED
  BY <1>2, <1>3, <1>5 DEF Followed, ConfType

LEMMA FollowedUp ==
  ASSUME Followed, NEW n \in Node, WentUp(n), phase = "draw", UNCHANGED <<conf, fb, phase, saved>>,
         Fits(fb, conf, target', viewport', clear', PathTo(stack, Len(stack) - 1)),
         config' = ConfigOn(conf.size, PathTo(stack, Len(stack) - 1))
  PROVE  Followed'
<1> DEFINE k == Len(stack)
<1>1. /\ k \in Nat /\ k > 1 /\ Len(stack') = k - 1
      /\ \A i \in 1 .. k - 1 : stack'[i] = stack[i] /\ PathTo(stack', i) = PathTo(stack, i)
  BY DEF WentUp
<1>2. Here' = PathTo(stack, k - 1)
  BY <1>1 DEF Here
<1>3. \A i \in 2 .. k - 1 : i \in 1 .. k - 1 /\ i - 1 \in 1 .. k - 1 /\ i \in 2 .. k
  BY <1>1
<1>4. KeepsLocals'
  BY <1>1, <1>3 DEF KeepsLocals, Followed
<1> QED
  BY <1>2, <1>4 DEF Followed, ConfType

(* What the node at the top puts back.                                     *)
LEMMA FollowedLocals ==
  ASSUME Followed, NEW n \in Node, WentUp(n), phase = "draw"
  PROVE  /\ Fits(fb, conf, Top.target, Top.viewport, Top.clear, PathTo(stack, Len(stack) - 1))
         /\ Kind[n] = "config" => saved[n] = ConfigOn(conf.size, PathTo(stack, Len(stack) - 1))
         /\ Here = Append(PathTo(stack, Len(stack) - 1), n) /\ PathTo(stack, Len(stack) - 1) \in Seq(Node)
         /\ Fits(fb, conf, target, viewport, clear, Here) /\ config = ConfigOn(conf.size, Here)
<1>1. Len(stack) \in 2 .. Len(stack) /\ Top = stack[Len(stack)] /\ n = Top.node
  BY DEF WentUp
<1> QED
  BY <1>1 DEF Followed, KeepsLocals, WentUp, Here

LEMMA PassDownFollowed ==
  ASSUME Invariant, Invariant', GoesDown, Followed, NEW n \in Node, NEW k, k \notin {"rtt", "config"},
         Visit(n, k), Down(n), Unmoved, UNCHANGED <<target, viewport, clear, config, saved>>
  PROVE  Followed'
<1>1. WentDown(n) /\ GoesDown' /\ Kind[n] = k /\ phase = "draw" /\ UNCHANGED <<conf, fb, phase>>
  BY StepDown DEF Visit, Unmoved
<1>2. Here \in Seq(Node) /\ Fits(fb, conf, target, viewport, clear, Here) /\ config = ConfigOn(conf.size, Here)
  BY <1>1 DEF WentDown, Here, Followed
<1>3. Fits(fb, conf, target, viewport, clear, Append(Here, n)) /\ config = ConfigOn(conf.size, Append(Here, n))
  BY <1>1, <1>2, FitsGrows, ConfigGrows
<1> QED
  BY <1>1, <1>3, FollowedDown

LEMMA PassUpFollowed ==
  ASSUME GoesDown, Followed, NEW n \in Node, NEW k, k \notin {"rtt", "config"},
         Leave(n, k), Up, Unmoved, UNCHANGED <<target, viewport, clear, config, saved>>
  PROVE  Followed'
<1> DEFINE p == PathTo(stack, Len(stack) - 1)
<1>1. WentUp(n) /\ Kind[n] = k /\ phase = "draw" /\ UNCHANGED <<conf, fb, phase>>
  BY StepUp DEF Leave, Unmoved
<1>2. /\ Here = Append(p, n) /\ p \in Seq(Node)
      /\ Fits(fb, conf, target, viewport, clear, Here) /\ config = ConfigOn(conf.size, Here)
  BY <1>1, FollowedLocals
<1> HIDE DEF p
<1>3. Fits(fb, conf, target, viewport, clear, p) /\ config = ConfigOn(conf.size, p)
  BY <1>1, <1>2, FitsGrows, ConfigGrows
<1> QED
  BY <1>1, <1>3, FollowedUp DEF p

LEMMA ConfigFollowed ==
  ASSUME Invariant, Invariant', GoesDown, Followed, NEW n \in Node, EnterConfig(n) \/ LeaveConfig(n)
  PROVE  Followed'
<1>1. CASE EnterConfig(n)
  <2>1. WentDown(n) /\ GoesDown' /\ Kind[n] = "config" /\ phase = "draw" /\ UNCHANGED <<conf, fb, phase>>
    BY <1>1, StepDown DEF EnterConfig, Visit, Unmoved
  <2>2. Here \in Seq(Node) /\ Fits(fb, conf, target, viewport, clear, Here) /\ config = ConfigOn(conf.size, Here)
    BY <2>1 DEF WentDown, Here, Followed
  <2>3. /\ saved' = [saved EXCEPT ![n] = config] /\ config' = Override(Sets[n], config)
        /\ UNCHANGED <<target, viewport, clear>>
    BY <1>1 DEF EnterConfig
  <2>4. /\ Fits(fb, conf, target', viewport', clear', Append(Here, n))
        /\ config' = ConfigOn(conf.size, Append(Here, n))
    BY <2>1, <2>2, <2>3, FitsGrows, ConfigGrows
  <2> QED
    BY <2>1, <2>3, <2>4, FollowedDown
<1>2. CASE LeaveConfig(n)
  <2> DEFINE p == PathTo(stack, Len(stack) - 1)
  <2>1. WentUp(n) /\ Kind[n] = "config" /\ phase = "draw" /\ UNCHANGED <<conf, fb, phase>>
    BY <1>2, StepUp DEF LeaveConfig, Leave, Unmoved
  <2>2. /\ Here = Append(p, n) /\ p \in Seq(Node) /\ saved[n] = ConfigOn(conf.size, p)
        /\ Fits(fb, conf, target, viewport, clear, Here)
    BY <2>1, FollowedLocals
  <2>3. config' = saved[n] /\ UNCHANGED <<target, viewport, clear, saved>>
    BY <1>2 DEF LeaveConfig
  <2> HIDE DEF p
  <2>4. Fits(fb, conf, target', viewport', clear', p) /\ config' = ConfigOn(conf.size, p)
    BY <2>1, <2>2, <2>3, FitsGrows
  <2> QED
    BY <2>1, <2>3, <2>4, FollowedUp DEF p
<1> QED
  BY <1>1, <1>2

LEMMA RttFollowed ==
  ASSUME Invariant, Invariant', GoesDown, Followed, NEW n \in Node, EnterRtt(n) \/ LeaveRtt(n)
  PROVE  Followed'
<1>1. CASE EnterRtt(n)
  <2>1. WentDown(n) /\ GoesDown' /\ Kind[n] = "rtt" /\ phase = "draw" /\ UNCHANGED <<conf, fb, phase>>
    BY <1>1, StepDown DEF EnterRtt, Visit, Unmoved
  <2>2. Here \in Seq(Node) /\ Fits(fb, conf, target, viewport, clear, Here) /\ config = ConfigOn(conf.size, Here)
    BY <2>1 DEF WentDown, Here, Followed
  <2>3. /\ target' = DrawTarget(n) /\ viewport' = n /\ clear' = (IF n \in OwnClear THEN n ELSE clear)
        /\ UNCHANGED <<config, saved>>
    BY <1>1 DEF EnterRtt
  <2>4. /\ Fits(fb, conf, target', viewport', clear', Append(Here, n))
        /\ config' = ConfigOn(conf.size, Append(Here, n))
    BY <2>1, <2>2, <2>3, FitsGrows, ConfigGrows
  <2> QED
    BY <2>1, <2>3, <2>4, FollowedDown
<1>2. CASE LeaveRtt(n)
  <2> DEFINE p == PathTo(stack, Len(stack) - 1)
  <2>1. WentUp(n) /\ Kind[n] = "rtt" /\ phase = "draw" /\ UNCHANGED <<conf, fb, phase>>
    BY <1>2, StepUp DEF LeaveRtt, Leave, Unmoved
  <2>2. /\ Here = Append(p, n) /\ p \in Seq(Node)
        /\ Fits(fb, conf, Top.target, Top.viewport, Top.clear, p)
        /\ Fits(fb, conf, target, viewport, clear, Here) /\ config = ConfigOn(conf.size, Here)
    BY <2>1, FollowedLocals
  <2>3. /\ target' = Top.target /\ viewport' = Top.viewport /\ clear' = (IF n \in OwnClear THEN Top.clear ELSE clear)
        /\ UNCHANGED <<config, saved>>
    BY <1>2 DEF LeaveRtt
  <2> HIDE DEF p
  <2>4. n \notin OwnClear => clear = ClearOn(conf.clear, p)
    BY <2>2, FitsGrows
  <2>5. Fits(fb, conf, target', viewport', clear', p)
    BY <2>2, <2>3, <2>4 DEF Fits
  <2>6. config' = ConfigOn(conf.size, p)
    BY <2>1, <2>2, <2>3, ConfigGrows
  <2> QED
    BY <2>1, <2>3, <2>5, <2>6, FollowedUp DEF p
<1> QED
  BY <1>1, <1>2

LEMMA RenderFollowed ==
  ASSUME GoesDown, Followed, NEW n \in Node, Render(n)
  PROVE  Followed'
<1> DEFINE k == Len(stack)
<1>1. WentAlong /\ phase = "draw" /\ UNCHANGED <<conf, fb, phase, target, viewport, clear, config, saved>>
  BY StepAlong DEF Render, Visit, Unmoved
<1>2. /\ k \in Nat /\ k >= 1 /\ Len(stack') = k
      /\ \A i \in 1 .. k : GoesOn(stack[i], stack'[i]) /\ PathTo(stack', i) = PathTo(stack, i)
  BY <1>1 DEF WentAlong
<1>3. Here' = Here
  BY <1>2 DEF Here
<1>4. ASSUME NEW i \in 2 .. k
      PROVE  /\ Fits(fb, conf, stack'[i].target, stack'[i].viewport, stack'[i].clear, PathTo(stack', i - 1))
             /\ Kind[stack'[i].node] = "config"
                  => saved[stack'[i].node] = ConfigOn(conf.size, PathTo(stack', i - 1))
  <2>1. i \in 1 .. k /\ i - 1 \in 1 .. k
    BY <1>2
  <2>2. /\ stack'[i].node = stack[i].node /\ stack'[i].target = stack[i].target
        /\ stack'[i].viewport = stack[i].viewport /\ stack'[i].clear = stack[i].clear
        /\ PathTo(stack', i - 1) = PathTo(stack, i - 1)
    BY <1>2, <2>1 DEF GoesOn
  <2>3. /\ Fits(fb, conf, stack[i].target, stack[i].viewport, stack[i].clear, PathTo(stack, i - 1))
        /\ Kind[stack[i].node] = "config" => saved[stack[i].node] = ConfigOn(conf.size, PathTo(stack, i - 1))
    BY DEF Followed, KeepsLocals
  <2> QED
    BY <2>2, <2>3
<1>5. KeepsLocals'
  BY <1>1, <1>2, <1>4 DEF KeepsLocals
<1> QED
  BY <1>1, <1>3, <1>5 DEF Followed, ConfType

LEMMA DrawFollowed ==
  ASSUME Invariant, Invariant', GoesDown, Followed, NEW n \in Node, Draw(n)
  PROVE  Followed'
<1>1. CASE EnterGroup(n)
  BY <1>1, PassDownFollowed DEF EnterGroup, ctxVars
<1>2. CASE LeaveGroup(n)
  BY <1>2, PassUpFollowed DEF LeaveGroup, ctxVars
<1>3. CASE EnterTransform(n)
  BY <1>3, PassDownFollowed DEF EnterTransform, ctxVars
<1>4. CASE LeaveTransform(n)
  BY <1>4, PassUpFollowed DEF LeaveTransform, ctxVars
<1>5. CASE EnterCamera(n)
  BY <1>5, PassDownFollowed DEF EnterCamera, ctxVars
<1>6. CASE LeaveCamera(n)
  BY <1>6, PassUpFollowed DEF LeaveCamera, ctxVars
<1>7. CASE EnterHud(n)
  BY <1>7, PassDownFollowed DEF EnterHud, ctxVars
<1>8. CASE LeaveHud(n)
  BY <1>8, PassUpFollowed DEF LeaveHud, ctxVars
<1> QED
  BY <1>1, <1>2, <1>3, <1>4, <1>5, <1>6, <1>7, <1>8, ConfigFollowed, RttFollowed, RenderFollowed DEF Draw

(* Outside of the draw of the scene there is no path.                      *)
LEMMA AroundFollowed ==
  ASSUME Followed, Len(stack) \in {0, 1}, Len(stack') \in {0, 1}, phase # "off", phase' # "off",
         DOMAIN saved' = OfKind("config"), fb'[CtxTarget] = fb[CtxTarget],
         UNCHANGED <<conf, target, viewport, clear, config>>
  PROVE  Followed'
<1>1. Here = <<>> /\ Here' = <<>>
  <2>1. PathTo(stack, Len(stack)) = <<>> /\ PathTo(stack', Len(stack')) = <<>>
    BY EmptyPath
  <2> QED
    BY <2>1 DEF Here
<1>2. Fits(fb', conf, target, viewport, clear, <<>>) /\ config = ConfigOn(conf.size, <<>>)
  BY <1>1 DEF Followed, Fits, Stands
<1>3. KeepsLocals'
  BY DEF KeepsLocals
<1> QED
  BY <1>1, <1>2, <1>3 DEF Followed, ConfType

LEMMA ConfigureFollowed ==
  ASSUME Invariant, GoesDown, Followed, NEW c \in Configs, Configure(c) \/ ConfigureFails(c)
  PROVE  Followed'
<1>1. /\ stack' = <<>> /\ Len(stack') = 0 /\ Here' = <<>> /\ stack = <<>> /\ Here = <<>> /\ KeepsLocals'
  <2>1. stack' = <<>> /\ stack = <<>>
    BY DEF Configure, ConfigureFails, GoesDown
  <2> QED
    BY <2>1, EmptyPath DEF Here, KeepsLocals
<1>0. ConfType'
  BY DEF Configure, ConfigureFails, Configs, ConfType
<1>2. target \in {None, CtxTarget}
  <2>1. CASE phase = "off"
    BY <2>1 DEF Followed
  <2>2. CASE phase # "off"
    <3>1. Stands(fb, target, OwnOf(conf))
      BY <1>1, <2>2, AskedOfNone DEF Followed, Fits
    <3> QED
      BY <3>1 DEF Stands, OwnOf
  <2> QED
    BY <2>1, <2>2
<1>3. CASE Configure(c)
  <2>1. /\ phase' = "idle" /\ conf' = c /\ target' = (IF c.offscreen THEN CtxTarget ELSE target)
        /\ viewport' = c.size /\ clear' = c.clear /\ config' = Neutral(c.size) /\ DOMAIN saved' = OfKind("config")
    BY <1>3 DEF Configure, NodesReset, CtxTarget
  <2>2. Stands(fb', target', OwnOf(c))
    BY <1>2, <1>3, <2>1, NamesOfConfigure DEF Stands, OwnOf
  <2>3. Fits(fb', c, target', c.size, c.clear, <<>>) /\ Neutral(c.size) = ConfigOn(c.size, <<>>)
    BY <2>2, AskedOfNone DEF Fits
  <2> QED
    BY <1>0, <1>1, <2>1, <2>3 DEF Followed
<1>4. CASE ConfigureFails(c)
  <2>1. phase' = "off" /\ DOMAIN saved' = OfKind("config") /\ target' \in {None, CtxTarget}
    BY <1>2, <1>4 DEF ConfigureFails, NodesReset, CtxTarget
  <2> QED
    BY <1>0, <1>1, <2>1 DEF Followed
<1> QED
  BY <1>3, <1>4

LEMMA ResizeFollowed ==
  ASSUME Invariant, GoesDown, Followed, NEW size \in Size, Resize(size)
  PROVE  Followed'
<1>1. /\ stack' = <<>> /\ Here' = <<>> /\ Here = <<>> /\ KeepsLocals'
  <2>1. stack' = <<>> /\ stack = <<>>
    BY DEF Resize, GoesDown
  <2> QED
    BY <2>1, EmptyPath DEF Here, KeepsLocals
<1>2. /\ phase = "idle" /\ phase' = "idle" /\ conf' = [conf EXCEPT !.size = size] /\ viewport' = size
      /\ config' = [config EXCEPT !.box = size] /\ UNCHANGED <<fb, target, clear, saved>>
  BY DEF Resize
<1>3. config = Neutral(conf.size) /\ Stands(fb, target, OwnOf(conf)) /\ clear = conf.clear
  BY <1>1, <1>2, AskedOfNone DEF Followed, Fits
<1>4. config' = Neutral(size)
  BY <1>2, <1>3 DEF Neutral
<1>5. OwnOf(conf') = OwnOf(conf) /\ conf'.clear = conf.clear /\ conf'.size = size /\ ConfType'
  BY <1>2 DEF OwnOf, Followed, ConfType
<1>6. Fits(fb', conf', target', viewport', clear', <<>>) /\ config' = ConfigOn(conf'.size, <<>>)
  BY <1>2, <1>3, <1>4, <1>5, AskedOfNone DEF Fits
<1> QED
  BY <1>1, <1>2, <1>5, <1>6 DEF Followed

LEMMA NextFollowed ==
  ASSUME Invariant, Invariant', GoesDown, GoesDown', Named, Followed, [Next]_vars
  PROVE  Followed'
<1>0. Len(<<>>) = 0 /\ (phase = "draw" \/ Len(stack) = 0) /\ (phase' = "draw" \/ Len(stack') = 0)
  BY DEF GoesDown
<1>1. CASE \E c \in Configs : Configure(c) \/ ConfigureFails(c)
  BY <1>1, ConfigureFollowed
<1>2. CASE \E size \in Size : Resize(size)
  BY <1>2, ResizeFollowed
<1>3. CASE \E root \in Scenes \union {None} : SetScene(root)
  <2>1. /\ phase = "idle" /\ phase' = "idle" /\ fb'[CtxTarget] = fb[CtxTarget] /\ DOMAIN saved' = OfKind("config")
        /\ UNCHANGED <<conf, target, viewport, clear, config>>
    BY <1>3, NamesOfSetScene DEF SetScene, NodesReset, ctxVars
  <2> QED
    BY <1>0, <2>1, AroundFollowed
<1>4. CASE \E time \in Time : PreDraw(time)
  <2>1. /\ phase = "idle" /\ phase' = "prefetch"
        /\ UNCHANGED <<fb, saved, conf, target, viewport, clear, config>>
    BY <1>4 DEF PreDraw, ctxVars
  <2> QED
    BY <1>0, <2>1, AroundFollowed DEF Followed
<1>5. CASE Prefetch
  <2>1. /\ phase = "prefetch" /\ phase' \in {"update", "failed"} /\ fb'[CtxTarget] = fb[CtxTarget]
        /\ UNCHANGED <<saved, conf, target, viewport, clear, config>>
    BY <1>5, NamesOfPrefetch DEF Prefetch, ctxVars
  <2> QED
    BY <1>0, <2>1, AroundFollowed DEF Followed
<1>6. CASE \E m \in Media : Convert(m)
  <2>1. /\ phase = "update" /\ phase' = "update" /\ fb'[CtxTarget] = fb[CtxTarget]
        /\ UNCHANGED <<saved, conf, target, viewport, clear, config>>
    BY <1>6, NamesOfConvert DEF Convert
  <2> QED
    BY <1>0, <2>1, AroundFollowed DEF Followed
<1>7. CASE Update
  <2>1. /\ phase = "update" /\ phase' = "draw" /\ Len(stack') = 1
        /\ UNCHANGED <<fb, saved, conf, target, viewport, clear, config>>
    BY <1>7 DEF Update, ctxVars
  <2> QED
    BY <1>0, <2>1, AroundFollowed DEF Followed
<1>8. CASE \E n \in Node : Draw(n)
  BY <1>8, DrawFollowed
<1>9. CASE PostDraw
  <2>1. /\ phase \in {"failed", "draw"} /\ (phase = "draw" => Len(stack) = 1) /\ phase' = "idle"
        /\ UNCHANGED <<fb, saved, conf, target, viewport, clear, config>>
    BY <1>9 DEF PostDraw
  <2> QED
    BY <1>0, <2>1, AroundFollowed DEF Followed
<1>10. CASE UNCHANGED vars
  BY <1>10 DEF vars, ctxVars, Followed, ConfType, KeepsLocals, Here
<1> QED
  BY <1>1, <1>2, <1>3, <1>4, <1>5, <1>6, <1>7, <1>8, <1>9, <1>10 DEF Next


(***************************************************************************)
(* The matrix stacks follow the path                                       *)
(***************************************************************************)
(* How many matrices the path p has pushed, and the stack it began with.   *)
Depth(p)    == 1 + Cardinality(OnPath(p, "transform")) + Cardinality(OnPath(p, "camera"))
EyeDepth(p) == 1 + Cardinality(OnPath(p, "camera"))

(* The matrix at the depth of each draw is that of the path to it.         *)
MatricesFollow ==
  /\ modelview \in Seq(Products(t)) /\ projection \in Seq(Seq(Node))
  /\ Len(modelview) = Depth(Here) /\ Len(projection) = EyeDepth(Here)
  /\ modelview[1] = <<>> /\ projection[1] = <<>>
  /\ \A i \in 1 .. Len(stack) :
       /\ modelview[Depth(PathTo(stack, i))] = ModelviewOn(t, PathTo(stack, i))
       /\ projection[EyeDepth(PathTo(stack, i))] = AskedProjection(PathTo(stack, i))

(* Only what is animated has a matrix of the time of a frame.              *)
MatricesOfFrame ==
  /\ \A n \in OfKind("transform") : n \notin Animated => matrix[n] = 0
  /\ phase = "draw" => /\ \A n \in InScene \intersect Animated : matrix[n] = t
                       /\ \A n \in InScene \intersect OfKind("camera") : camera[n] = <<<<n, EyeOn(t, n)>>>>

LEMMA DepthGrows ==
  ASSUME NEW p \in Seq(Node), NEW n \in Node
  PROVE  /\ Depth(p) \in Nat /\ Depth(p) >= 1 /\ EyeDepth(p) \in Nat /\ EyeDepth(p) >= 1
         /\ Depth(Append(p, n)) = IF Kind[n] \in {"transform", "camera"} THEN Depth(p) + 1 ELSE Depth(p)
         /\ EyeDepth(Append(p, n)) = IF Kind[n] = "camera" THEN EyeDepth(p) + 1 ELSE EyeDepth(p)
<1> DEFINE a == Cardinality(OnPath(p, "transform"))
           b == Cardinality(OnPath(p, "camera"))
           c == Cardinality(OnPath(Append(p, n), "transform"))
           d == Cardinality(OnPath(Append(p, n), "camera"))
<1>1. a \in Nat /\ c = IF Kind[n] = "transform" THEN a + 1 ELSE a
  BY OnPathGrows
<1>2. b \in Nat /\ d = IF Kind[n] = "camera" THEN b + 1 ELSE b
  BY OnPathGrows
<1>3. Depth(p) = 1 + a + b /\ EyeDepth(p) = 1 + b /\ Depth(Append(p, n)) = 1 + c + d /\ EyeDepth(Append(p, n)) = 1 + d
  BY DEF Depth, EyeDepth
<1> HIDE DEF a, b, c, d
<1>4. CASE Kind[n] = "transform"
  BY <1>1, <1>2, <1>3, <1>4
<1>5. CASE Kind[n] # "transform"
  BY <1>1, <1>2, <1>3, <1>5
<1> QED
  BY <1>4, <1>5

LEMMA DepthOfNone == Depth(<<>>) = 1 /\ EyeDepth(<<>>) = 1
<1>1. Cardinality(OnPath(<<>>, "transform")) = 0 /\ Cardinality(OnPath(<<>>, "camera")) = 0
  BY AskedOfNone, FS_EmptySet
<1> QED
  BY <1>1 DEF Depth, EyeDepth

(* A draw is at least as deep as those it is in.                           *)
LEMMA DeeperDown ==
  ASSUME NEW s \in Draws, NEW j \in 1 .. Len(s)
  PROVE  \A i \in 1 .. j : /\ Depth(PathTo(s, i)) \in Nat /\ Depth(PathTo(s, i)) >= 1
                           /\ Depth(PathTo(s, i)) <= Depth(PathTo(s, j))
                           /\ EyeDepth(PathTo(s, i)) \in Nat /\ EyeDepth(PathTo(s, i)) >= 1
                           /\ EyeDepth(PathTo(s, i)) <= EyeDepth(PathTo(s, j))
<1> DEFINE D(i) == Depth(PathTo(s, i))
           E(i) == EyeDepth(PathTo(s, i))
           Fine(i) == D(i) \in Nat /\ D(i) >= 1 /\ E(i) \in Nat /\ E(i) >= 1
           Goes(k) == \A i \in 1 .. k + 1 : Fine(i) /\ D(i) <= D(k + 1) /\ E(i) <= E(k + 1)
           G == {k \in 0 .. Len(s) - 1 : Goes(k)}
<1>1. Len(s) \in Nat /\ j \in Nat /\ Len(s) >= 1 /\ Len(s) - 1 \in Nat
  BY DEF Draws
<1>2. Goes(0)
  <2>1. PathTo(s, 1) = <<>>
    BY EmptyPath
  <2>2. D(1) = 1 /\ E(1) = 1
    BY <2>1, DepthOfNone
  <2>3. \A i \in 1 .. 0 + 1 : i = 1
    OBVIOUS
  <2> HIDE DEF D, E
  <2> QED
    BY <2>2, <2>3
<1>3. ASSUME NEW k \in 0 .. Len(s) - 2, Goes(k)
      PROVE  Goes(k + 1)
  <2>1. /\ k + 2 \in 2 .. Len(s) /\ k + 1 \in 1 .. Len(s) /\ k + 2 - 1 = k + 1 /\ k \in Nat
        /\ s[k + 2].node \in Node
    BY <1>1 DEF Draws
  <2>2. PathTo(s, k + 1) \in Seq(Node) /\ PathTo(s, k + 2) = Append(PathTo(s, k + 1), s[k + 2].node)
    BY <2>1, PathType, PathOfChild
  <2>3. D(k + 2) \in {D(k + 1), D(k + 1) + 1} /\ E(k + 2) \in {E(k + 1), E(k + 1) + 1}
    BY <2>1, <2>2, DepthGrows
  <2> HIDE DEF D, E
  <2>4. Fine(k + 1)
    BY <1>3, <2>1
  <2>5. Fine(k + 2) /\ D(k + 1) <= D(k + 2) /\ E(k + 1) <= E(k + 2)
    BY <2>3, <2>4
  <2>6. ASSUME NEW i \in 1 .. k + 2
        PROVE  Fine(i) /\ D(i) <= D(k + 2) /\ E(i) <= E(k + 2)
    <3>1. CASE i = k + 2
      BY <2>5, <3>1
    <3>2. CASE i # k + 2
      <4>1. Fine(i) /\ D(i) <= D(k + 1) /\ E(i) <= E(k + 1)
        BY <1>3, <2>1, <3>2
      <4> QED
        BY <2>4, <2>5, <4>1
    <3> QED
      BY <3>1, <3>2
  <2>7. k + 1 + 1 = k + 2
    BY <2>1
  <2> HIDE DEF Fine
  <2> QED
    BY <2>6, <2>7
<1>4. \A k \in 0 .. Len(s) - 1 : k \in G
  <2> HIDE DEF Goes
  <2> DEFINE N == Len(s) - 1
  <2>1. N \in Nat /\ 0 \in G /\ \A k \in 0 .. N - 1 : k \in G => k + 1 \in G
    BY <1>1, <1>2, <1>3
  <2> HIDE DEF G, N
  <2>2. \A k \in 0 .. N : k \in G
    BY <2>1, CountingUp
  <2> QED
    BY <2>2 DEF N
<1>5. j - 1 \in 0 .. Len(s) - 1 /\ j - 1 + 1 = j
  BY <1>1
<1>6. Goes(j - 1)
  <2> HIDE DEF Goes
  <2> QED
    BY <1>4, <1>5
<1> HIDE DEF D, E
<1>7. \A i \in 1 .. j : Fine(i) /\ D(i) <= D(j) /\ E(i) <= E(j)
  <2> HIDE DEF Fine
  <2> QED
    BY <1>5, <1>6
<1> QED
  BY <1>7 DEF D, E

LEMMA MatricesDown ==
  ASSUME MatricesFollow, NEW n \in Node, WentDown(n), t' = t,
         modelview' = IF Kind[n] \in {"transform", "camera"} THEN Append(modelview, Looked(t, Last(modelview), n))
                      ELSE modelview,
         projection' = IF Kind[n] = "camera" THEN Append(projection, <<n>>) ELSE projection
  PROVE  MatricesFollow'
<1> DEFINE k == Len(stack)
           m == Len(modelview)
           e == Len(projection)
<1>1. /\ stack \in Draws /\ k \in Nat /\ k >= 1 /\ Len(stack') = k + 1 /\ k \in 1 .. k
      /\ \A i \in 1 .. k : PathTo(stack', i) = PathTo(stack, i)
      /\ PathTo(stack', k + 1) = Append(Here, n) /\ Here \in Seq(Node) /\ Here = PathTo(stack, k)
  BY DEF WentDown, Here
<1>2. /\ modelview \in Seq(Products(t)) /\ projection \in Seq(Seq(Node)) /\ m \in Nat /\ e \in Nat
      /\ m = Depth(Here) /\ e = EyeDepth(Here) /\ modelview[1] = <<>> /\ projection[1] = <<>>
  BY DEF MatricesFollow
<1>3. \A i \in 1 .. k : /\ Depth(PathTo(stack, i)) \in 1 .. m /\ EyeDepth(PathTo(stack, i)) \in 1 .. e
                        /\ modelview[Depth(PathTo(stack, i))] = ModelviewOn(t, PathTo(stack, i))
                        /\ projection[EyeDepth(PathTo(stack, i))] = AskedProjection(PathTo(stack, i))
  <2>1. \A i \in 1 .. k : /\ Depth(PathTo(stack, i)) \in Nat /\ Depth(PathTo(stack, i)) >= 1
                          /\ Depth(PathTo(stack, i)) <= Depth(PathTo(stack, k))
                          /\ EyeDepth(PathTo(stack, i)) \in Nat /\ EyeDepth(PathTo(stack, i)) >= 1
                          /\ EyeDepth(PathTo(stack, i)) <= EyeDepth(PathTo(stack, k))
    BY <1>1, DeeperDown
  <2>2. \A i \in 1 .. k : /\ modelview[Depth(PathTo(stack, i))] = ModelviewOn(t, PathTo(stack, i))
                          /\ projection[EyeDepth(PathTo(stack, i))] = AskedProjection(PathTo(stack, i))
    BY DEF MatricesFollow
  <2>3. ASSUME NEW i \in 1 .. k
        PROVE  Depth(PathTo(stack, i)) \in 1 .. m /\ EyeDepth(PathTo(stack, i)) \in 1 .. e
    <3> DEFINE x == Depth(PathTo(stack, i))
               y == EyeDepth(PathTo(stack, i))
    <3>1. x \in Nat /\ x >= 1 /\ x <= m /\ y \in Nat /\ y >= 1 /\ y <= e
      BY <1>1, <1>2, <2>1
    <3> HIDE DEF x, y, m, e
    <3>2. x \in 1 .. m /\ y \in 1 .. e
      BY <1>2, <3>1
    <3> QED
      BY <3>2 DEF x, y
  <2> QED
    BY <2>2, <2>3
<1>4. /\ m >= 1 /\ e >= 1 /\ Last(modelview) = ModelviewOn(t, Here) /\ Last(modelview) \in Products(t)
  <2>1. m \in 1 .. m /\ e \in 1 .. e /\ modelview[m] = ModelviewOn(t, Here)
    BY <1>1, <1>2, <1>3
  <2> QED
    BY <1>2, <2>1 DEF Last
<1>5. /\ Depth(Append(Here, n)) = IF Kind[n] \in {"transform", "camera"} THEN m + 1 ELSE m
      /\ EyeDepth(Append(Here, n)) = IF Kind[n] = "camera" THEN e + 1 ELSE e
      /\ ModelviewOn(t, Append(Here, n)) = Looked(t, Last(modelview), n)
      /\ AskedProjection(Append(Here, n)) = IF Kind[n] = "camera" THEN <<n>> ELSE AskedProjection(Here)
  BY <1>1, <1>2, <1>4, DepthGrows, ModelviewGrows, ProjectionGrows, ZenonT(60)
<1>6. Here' = Append(Here, n)
  BY <1>1 DEF Here
<1> HIDE DEF m, e
<1>7. /\ modelview' \in Seq(Products(t)) /\ Len(modelview') = Depth(Append(Here, n))
      /\ \A d \in 1 .. m : modelview'[d] = modelview[d]
      /\ modelview'[Depth(Append(Here, n))] = ModelviewOn(t, Append(Here, n))
  <2>1. CASE Kind[n] \in {"transform", "camera"}
    <3> DEFINE x == Looked(t, Last(modelview), n)
    <3>1. x \in Products(t) /\ modelview' = Append(modelview, x)
      BY <1>4, <2>1, LookedType
    <3> HIDE DEF x
    <3>2. /\ modelview' \in Seq(Products(t)) /\ Len(modelview') = m + 1
          /\ (\A d \in 1 .. m : modelview'[d] = modelview[d]) /\ modelview'[m + 1] = x
      BY <1>2, <3>1, AppendProperties DEF m
    <3> QED
      BY <1>5, <2>1, <3>2 DEF x
  <2>2. CASE Kind[n] \notin {"transform", "camera"}
    <3>1. Looked(t, Last(modelview), n) = Last(modelview) /\ modelview' = modelview /\ Last(modelview) = modelview[m]
      BY <2>2 DEF Looked, Last, m
    <3> QED
      BY <1>2, <1>5, <2>2, <3>1 DEF m
  <2> QED
    BY <2>1, <2>2
<1>8. /\ projection' \in Seq(Seq(Node)) /\ Len(projection') = EyeDepth(Append(Here, n))
      /\ \A d \in 1 .. e : projection'[d] = projection[d]
      /\ projection'[EyeDepth(Append(Here, n))] = AskedProjection(Append(Here, n))
  <2>1. CASE Kind[n] = "camera"
    <3>1. <<n>> \in Seq(Node) /\ projection' = Append(projection, <<n>>)
      BY <2>1
    <3> DEFINE x == <<n>>
    <3> HIDE DEF x
    <3>2. /\ projection' \in Seq(Seq(Node)) /\ Len(projection') = e + 1
          /\ (\A d \in 1 .. e : projection'[d] = projection[d]) /\ projection'[e + 1] = x
      BY <1>2, <3>1, AppendProperties DEF e, x
    <3> QED
      BY <1>5, <2>1, <3>2 DEF x
  <2>2. CASE Kind[n] # "camera"
    <3>1. projection' = projection /\ projection[e] = AskedProjection(Here)
      BY <1>1, <1>2, <1>3, <2>2
    <3> QED
      BY <1>2, <1>5, <2>2, <3>1 DEF e
  <2> QED
    BY <2>1, <2>2
<1>9. ASSUME NEW i \in 1 .. Len(stack')
      PROVE  /\ modelview'[Depth(PathTo(stack', i))] = ModelviewOn(t, PathTo(stack', i))
             /\ projection'[EyeDepth(PathTo(stack', i))] = AskedProjection(PathTo(stack', i))
  <2>1. CASE i = k + 1
    BY <1>1, <1>7, <1>8, <2>1
  <2>2. CASE i # k + 1
    <3>1. i \in 1 .. k
      BY <1>1, <2>2
    <3>2. PathTo(stack', i) = PathTo(stack, i)
      BY <1>1, <3>1
    <3> QED
      BY <1>3, <1>7, <1>8, <3>1, <3>2
  <2> QED
    BY <2>1, <2>2
<1>10. modelview'[1] = <<>> /\ projection'[1] = <<>>
  <2>1. 1 \in 1 .. m /\ 1 \in 1 .. e
    BY <1>2, <1>4
  <2> QED
    BY <1>2, <1>7, <1>8, <2>1
<1> QED
  BY <1>6, <1>7, <1>8, <1>9, <1>10 DEF MatricesFollow

LEMMA MatricesUp ==
  ASSUME MatricesFollow, NEW n \in Node, WentUp(n), t' = t,
         modelview' = IF Kind[n] \in {"transform", "camera"} THEN Front(modelview) ELSE modelview,
         projection' = IF Kind[n] = "camera" THEN Front(projection) ELSE projection
  PROVE  MatricesFollow'
<1> DEFINE k == Len(stack) - 1
           m == Depth(PathTo(stack, k))
           e == EyeDepth(PathTo(stack, k))
<1>1. /\ stack \in Draws /\ k \in Nat /\ k >= 1 /\ Len(stack') = k /\ k \in 1 .. k /\ k \in 1 .. Len(stack)
      /\ \A i \in 1 .. k : PathTo(stack', i) = PathTo(stack, i)
      /\ Here = Append(PathTo(stack, k), n) /\ PathTo(stack, k) \in Seq(Node)
  BY DEF WentUp, Here
<1>2. /\ modelview \in Seq(Products(t)) /\ projection \in Seq(Seq(Node))
      /\ Len(modelview) = Depth(Here) /\ Len(projection) = EyeDepth(Here)
      /\ modelview[1] = <<>> /\ projection[1] = <<>>
  BY DEF MatricesFollow
<1>3. \A i \in 1 .. k : /\ Depth(PathTo(stack, i)) \in Nat /\ Depth(PathTo(stack, i)) >= 1
                        /\ Depth(PathTo(stack, i)) <= m
                        /\ EyeDepth(PathTo(stack, i)) \in Nat /\ EyeDepth(PathTo(stack, i)) >= 1
                        /\ EyeDepth(PathTo(stack, i)) <= e
  BY <1>1, DeeperDown
<1>4. \A i \in 1 .. k : /\ modelview[Depth(PathTo(stack, i))] = ModelviewOn(t, PathTo(stack, i))
                        /\ projection[EyeDepth(PathTo(stack, i))] = AskedProjection(PathTo(stack, i))
  <2>1. \A i \in 1 .. k : i \in 1 .. Len(stack)
    BY <1>1
  <2> QED
    BY <2>1 DEF MatricesFollow
<1>5. /\ m \in Nat /\ e \in Nat /\ m >= 1 /\ e >= 1
      /\ Len(modelview) = IF Kind[n] \in {"transform", "camera"} THEN m + 1 ELSE m
      /\ Len(projection) = IF Kind[n] = "camera" THEN e + 1 ELSE e
  BY <1>1, <1>2, DepthGrows
<1>6. Here' = PathTo(stack, k)
  BY <1>1 DEF Here
<1> HIDE DEF m, e
<1>7. /\ modelview' \in Seq(Products(t)) /\ Len(modelview') = m
      /\ \A d \in 1 .. m : modelview'[d] = modelview[d]
  <2>1. CASE Kind[n] \in {"transform", "camera"}
    <3>1. modelview' = Front(modelview) /\ Len(modelview) = m + 1
      BY <1>5, <2>1
    <3> QED
      BY <1>2, <1>5, <3>1, SMTT(30) DEF Front
  <2>2. CASE Kind[n] \notin {"transform", "camera"}
    BY <1>2, <1>5, <2>2
  <2> QED
    BY <2>1, <2>2
<1>8. /\ projection' \in Seq(Seq(Node)) /\ Len(projection') = e
      /\ \A d \in 1 .. e : projection'[d] = projection[d]
  <2>1. CASE Kind[n] = "camera"
    <3>1. projection' = Front(projection) /\ Len(projection) = e + 1
      BY <1>5, <2>1
    <3> QED
      BY <1>2, <1>5, <3>1 DEF Front
  <2>2. CASE Kind[n] # "camera"
    BY <1>2, <1>5, <2>2
  <2> QED
    BY <2>1, <2>2
<1>9. ASSUME NEW i \in 1 .. k
      PROVE  /\ modelview'[Depth(PathTo(stack', i))] = ModelviewOn(t, PathTo(stack', i))
             /\ projection'[EyeDepth(PathTo(stack', i))] = AskedProjection(PathTo(stack', i))
  <2>1. /\ PathTo(stack', i) = PathTo(stack, i)
        /\ Depth(PathTo(stack, i)) \in 1 .. m /\ EyeDepth(PathTo(stack, i)) \in 1 .. e
    BY <1>1, <1>3, <1>5
  <2> QED
    BY <1>4, <1>7, <1>8, <2>1
<1>10. modelview'[1] = <<>> /\ projection'[1] = <<>>
  <2>1. 1 \in 1 .. m /\ 1 \in 1 .. e
    BY <1>5
  <2> QED
    BY <1>2, <1>7, <1>8, <2>1
<1> QED
  BY <1>1, <1>6, <1>7, <1>8, <1>9, <1>10 DEF MatricesFollow, m, e

LEMMA MatricesAlong ==
  ASSUME MatricesFollow, WentAlong, UNCHANGED <<modelview, projection, t>>
  PROVE  MatricesFollow'
<1>1. /\ Len(stack) \in Nat /\ Len(stack) >= 1 /\ Len(stack') = Len(stack)
      /\ \A i \in 1 .. Len(stack) : PathTo(stack', i) = PathTo(stack, i)
  BY DEF WentAlong
<1>2. Here' = Here
  BY <1>1 DEF Here
<1> QED
  BY <1>1, <1>2 DEF MatricesFollow


LEMMA EnteredInScene ==
  ASSUME GoesDown', NEW n \in Node, WentDown(n), phase' = "draw"
  PROVE  n \in InScene'
<1>1. /\ Len(stack') \in 2 .. Len(stack') /\ stack'[Len(stack')].node = n /\ DrawsOf(InScene, stack)'
  BY DEF WentDown, Frame, GoesDown
<1>2. Below[n] \subseteq InScene'
  BY <1>1 DEF DrawsOf
<1> QED
  BY <1>2, ChildIsBelow

LEMMA PassDownMatrices ==
  ASSUME MatricesFollow, NEW n \in Node, WentDown(n), Kind[n] \notin {"transform", "camera"},
         UNCHANGED <<modelview, projection, t>>
  PROVE  MatricesFollow'
  BY MatricesDown

LEMMA PassUpMatrices ==
  ASSUME MatricesFollow, NEW n \in Node, WentUp(n), Kind[n] \notin {"transform", "camera"},
         UNCHANGED <<modelview, projection, t>>
  PROVE  MatricesFollow'
  BY MatricesUp

LEMMA TransformMatrices ==
  ASSUME Invariant, Invariant', GoesDown, MatricesFollow, MatricesOfFrame, NEW n \in Node,
         EnterTransform(n) \/ LeaveTransform(n)
  PROVE  MatricesFollow'
<1>1. CASE EnterTransform(n)
  <2>1. WentDown(n) /\ GoesDown' /\ Kind[n] = "transform" /\ phase = "draw" /\ UNCHANGED <<scene, phase, t>>
    BY <1>1, StepDown DEF EnterTransform, Visit, Unmoved, sceneVars
  <2>2. n \in InScene /\ n \in OfKind("transform")
    BY <2>1, EnteredInScene DEF InScene, OfKind
  <2>3. matrix[n] = IF n \in Animated THEN t ELSE 0
    BY <2>1, <2>2 DEF MatricesOfFrame
  <2>4. /\ modelview' = Append(modelview, Last(modelview) \o <<<<n, matrix[n]>>>>)
        /\ projection' = projection
    BY <1>1 DEF EnterTransform
  <2>5. modelview' = Append(modelview, Looked(t, Last(modelview), n))
    BY <2>1, <2>3, <2>4 DEF Looked, Factor
  <2> QED
    BY <2>1, <2>4, <2>5, MatricesDown
<1>2. CASE LeaveTransform(n)
  <2>1. WentUp(n) /\ Kind[n] = "transform" /\ modelview' = Front(modelview) /\ projection' = projection /\ t' = t
    BY <1>2, StepUp DEF LeaveTransform, Leave, Unmoved
  <2> QED
    BY <2>1, MatricesUp
<1> QED
  BY <1>1, <1>2

LEMMA CameraMatrices ==
  ASSUME Invariant, Invariant', GoesDown, MatricesFollow, MatricesOfFrame, NEW n \in Node,
         EnterCamera(n) \/ LeaveCamera(n)
  PROVE  MatricesFollow'
<1>1. CASE EnterCamera(n)
  <2>1. WentDown(n) /\ GoesDown' /\ Kind[n] = "camera" /\ phase = "draw" /\ UNCHANGED <<scene, phase, t>>
    BY <1>1, StepDown DEF EnterCamera, Visit, Unmoved, sceneVars
  <2>2. n \in InScene /\ n \in OfKind("camera")
    BY <2>1, EnteredInScene DEF InScene, OfKind
  <2>3. camera[n] = <<<<n, EyeOn(t, n)>>>>
    BY <2>1, <2>2 DEF MatricesOfFrame
  <2>4. modelview' = Append(modelview, camera[n]) /\ projection' = Append(projection, <<n>>)
    BY <1>1 DEF EnterCamera
  <2>5. modelview' = Append(modelview, Looked(t, Last(modelview), n))
    BY <2>1, <2>3, <2>4 DEF Looked
  <2> QED
    BY <2>1, <2>4, <2>5, MatricesDown
<1>2. CASE LeaveCamera(n)
  <2>1. /\ WentUp(n) /\ Kind[n] = "camera" /\ modelview' = Front(modelview) /\ projection' = Front(projection)
        /\ t' = t
    BY <1>2, StepUp DEF LeaveCamera, Leave, Unmoved
  <2> QED
    BY <2>1, MatricesUp
<1> QED
  BY <1>1, <1>2

LEMMA DrawMatrices ==
  ASSUME Invariant, Invariant', GoesDown, MatricesFollow, MatricesOfFrame, NEW n \in Node, Draw(n)
  PROVE  MatricesFollow'
<1>1. CASE Render(n)
  BY <1>1, StepAlong, MatricesAlong DEF Render, Unmoved, stackVars
<1>2. ASSUME EnterGroup(n) \/ EnterConfig(n) \/ EnterHud(n) \/ EnterRtt(n)
      PROVE  MatricesFollow'
  <2>1. /\ Entered(n) /\ Kind[n] \in {"group", "config", "hud", "rtt"} /\ UNCHANGED <<modelview, projection, t>>
    BY <1>2 DEF Entered, EnterGroup, EnterConfig, EnterHud, EnterRtt, Visit, Unmoved, stackVars
  <2>2. WentDown(n)
    BY <2>1, StepDown DEF Entered
  <2> QED
    BY <2>1, <2>2, PassDownMatrices
<1>3. ASSUME LeaveGroup(n) \/ LeaveConfig(n) \/ LeaveHud(n) \/ LeaveRtt(n)
      PROVE  MatricesFollow'
  <2>1. /\ Left(n) /\ Kind[n] \in {"group", "config", "hud", "rtt"} /\ UNCHANGED <<modelview, projection, t>>
    BY <1>3 DEF Left, LeaveGroup, LeaveConfig, LeaveHud, LeaveRtt, Leave, Unmoved, stackVars
  <2>2. WentUp(n)
    BY <2>1, StepUp DEF Left
  <2> QED
    BY <2>1, <2>2, PassUpMatrices
<1> QED
  BY <1>1, <1>2, <1>3, TransformMatrices, CameraMatrices DEF Draw

(* Outside of the draw of the scene there is one matrix.                   *)
LEMMA AroundMatrices ==
  ASSUME MatricesFollow, Len(stack) \in {0, 1}, Len(stack') \in {0, 1}, UNCHANGED <<modelview, projection>>
  PROVE  MatricesFollow'
<1>1. PathTo(stack, Len(stack)) = <<>> /\ PathTo(stack', Len(stack')) = <<>>
  BY EmptyPath
<1>2. Here = <<>> /\ Here' = <<>>
  BY <1>1 DEF Here
<1>3. /\ modelview \in Seq(Products(t)) /\ Len(modelview) = 1 /\ modelview[1] = <<>>
      /\ projection \in Seq(Seq(Node)) /\ Len(projection) = 1 /\ projection[1] = <<>>
  BY <1>2, DepthOfNone DEF MatricesFollow
<1>4. modelview \in Seq(Products(t'))
  <2>1. <<>> \in Products(t')
    BY DEF Products
  <2>2. PICK k \in Nat : k = Len(modelview) /\ modelview \in [1 .. k -> Products(t)]
    BY <1>3
  <2>3. k = 1
    BY <1>3, <2>2
  <2>4. modelview \in [1 .. 1 -> Products(t)]
    BY <2>2, <2>3
  <2>5. modelview = [i \in 1 .. 1 |-> <<>>]
    BY <1>3, <2>4
  <2>6. [i \in 1 .. 1 |-> <<>>] \in Seq(Products(t'))
    BY <2>1
  <2> QED
    BY <2>5, <2>6
<1>5. \A i \in 1 .. Len(stack') : i = 1 /\ PathTo(stack', i) = <<>>
  <2>1. ASSUME NEW i \in 1 .. Len(stack')
        PROVE  i = 1
    <3>1. CASE Len(stack') = 0
      BY <3>1
    <3>2. CASE Len(stack') = 1
      BY <3>2
    <3> QED
      BY <3>1, <3>2
  <2>2. PathTo(stack', 1) = <<>>
    BY EmptyPath
  <2> QED
    BY <2>1, <2>2
<1>6. ModelviewOn(t', <<>>) = <<>> /\ AskedProjection(<<>>) = <<>>
  BY <1>4, AskedOfNone, ModelviewOfNone
<1> QED
  BY <1>2, <1>3, <1>4, <1>5, <1>6, DepthOfNone DEF MatricesFollow

LEMMA NextMatrices ==
  ASSUME Invariant, Invariant', GoesDown, GoesDown', MatricesFollow, MatricesOfFrame, [Next]_vars
  PROVE  MatricesFollow' /\ MatricesOfFrame'
<1>0. Len(<<>>) = 0 /\ (phase = "draw" \/ Len(stack) = 0) /\ (phase' = "draw" \/ Len(stack') = 0)
  BY DEF GoesDown
<1>1. CASE \E c \in Configs : Configure(c) \/ ConfigureFails(c)
  <2>1. phase # "draw" /\ phase' # "draw" /\ UNCHANGED <<modelview, projection>> /\ NodesReset
    BY <1>1 DEF Configure, ConfigureFails, stackVars
  <2> QED
    BY <1>0, <2>1, AroundMatrices DEF MatricesOfFrame, NodesReset
<1>2. CASE \E size \in Size : Resize(size)
  <2>1. phase # "draw" /\ phase' # "draw" /\ UNCHANGED <<modelview, projection, matrix>>
    BY <1>2 DEF Resize, stackVars, sceneVars
  <2> QED
    BY <1>0, <2>1, AroundMatrices DEF MatricesOfFrame
<1>3. CASE \E root \in Scenes \union {None} : SetScene(root)
  <2>1. phase # "draw" /\ phase' # "draw" /\ UNCHANGED <<modelview, projection>> /\ NodesReset
    BY <1>3 DEF SetScene, stackVars
  <2> QED
    BY <1>0, <2>1, AroundMatrices DEF MatricesOfFrame, NodesReset
<1>4. CASE \E time \in Time : PreDraw(time)
  <2>1. phase # "draw" /\ phase' # "draw" /\ UNCHANGED <<modelview, projection, matrix>>
    BY <1>4 DEF PreDraw, stackVars, sceneVars
  <2> QED
    BY <1>0, <2>1, AroundMatrices DEF MatricesOfFrame
<1>5. CASE Prefetch
  <2>1. phase # "draw" /\ phase' # "draw" /\ UNCHANGED <<modelview, projection, matrix>>
    BY <1>5 DEF Prefetch, stackVars, sceneVars
  <2> QED
    BY <1>0, <2>1, AroundMatrices DEF MatricesOfFrame
<1>6. CASE \E m \in Media : Convert(m)
  <2>1. phase # "draw" /\ phase' # "draw" /\ UNCHANGED <<modelview, projection, matrix>>
    BY <1>6 DEF Convert, stackVars, sceneVars
  <2> QED
    BY <1>0, <2>1, AroundMatrices DEF MatricesOfFrame
<1>7. CASE Update
  <2>1. /\ phase # "draw" /\ Len(stack') = 1 /\ UNCHANGED <<modelview, projection, scene, t>>
        /\ matrix' = [n \in OfKind("transform") |-> IF n \in InScene \intersect Animated THEN t ELSE matrix[n]]
        /\ camera' = [n \in OfKind("camera") |-> IF n \in InScene THEN <<<<n, ChainMatrix(n)>>>> ELSE camera[n]]
    BY <1>7 DEF Update, stackVars
  <2>2. MatricesFollow'
    BY <1>0, <2>1, AroundMatrices
  <2>3. \A n \in OfKind("transform") : n \notin Animated => matrix'[n] = 0
    BY <2>1 DEF MatricesOfFrame
  <2>4. InScene' = InScene /\ \A n \in InScene \intersect Animated : matrix'[n] = t
    BY <2>1, DrawStateAssumption DEF InScene
  <2>5. \A n \in InScene \intersect OfKind("camera") : camera'[n] = <<<<n, EyeOn(t, n)>>>>
    BY <2>1 DEF ChainMatrix, EyeOn
  <2> QED
    BY <2>1, <2>2, <2>3, <2>4, <2>5 DEF MatricesOfFrame
<1>8. CASE \E n \in Node : Draw(n)
  <2>1. MatricesFollow'
    BY <1>8, DrawMatrices
  <2>2. UNCHANGED <<scene, matrix, camera, t, phase>>
    BY <1>8, DrawSteps DEF Entered, Left, Render, Unmoved, sceneVars
  <2> QED
    BY <2>1, <2>2 DEF MatricesOfFrame, InScene
<1>9. CASE PostDraw
  <2>1. /\ phase \in {"failed", "draw"} /\ (phase = "draw" => Len(stack) = 1) /\ phase' = "idle"
        /\ UNCHANGED <<modelview, projection, matrix>>
    BY <1>9 DEF PostDraw, stackVars, sceneVars
  <2> QED
    BY <1>0, <2>1, AroundMatrices DEF MatricesOfFrame
<1>10. CASE UNCHANGED vars
  BY <1>10 DEF vars, stackVars, sceneVars, MatricesFollow, MatricesOfFrame, Here, InScene
<1> QED
  BY <1>1, <1>2, <1>3, <1>4, <1>5, <1>6, <1>7, <1>8, <1>9, <1>10 DEF Next

(***************************************************************************)
(* The timer follows the path                                              *)
(***************************************************************************)
TimerFollows == timer = AskedTimer(Here)

LEMMA TimerOfNone ==
  ASSUME NEW p \in Seq(Node)
  PROVE  /\ AskedTimer(p) = None <=> OnPath(p, "hud") = {}
         /\ (AskedTimer(p) = None \/ AskedTimer(p) \in {p[i] : i \in DOMAIN p})
<1> DEFINE S == OnPath(p, "hud")
<1>1. S \in SUBSET (1 .. Len(p)) /\ S \in SUBSET Nat /\ DOMAIN p = 1 .. Len(p)
  BY DEF OnPath
<1>2. AskedTimer(p) = IF S = {} THEN None ELSE p[Min(S)]
  BY DEF AskedTimer
<1> HIDE DEF S
<1>3. CASE S = {}
  BY <1>2, <1>3 DEF S
<1>4. CASE S # {}
  <2>1. Min(S) \in DOMAIN p
    BY <1>1, <1>4, MinIsIn
  <2>2. p[Min(S)] \in Node /\ p[Min(S)] # None
    BY <2>1, DrawStateAssumption
  <2> QED
    BY <1>2, <1>4, <2>1, <2>2 DEF S
<1> QED
  BY <1>3, <1>4

LEMMA EnteredTimer ==
  ASSUME TimerFollows, NEW n \in Node, WentDown(n),
         timer' = IF Kind[n] = "hud" /\ timer = None THEN n ELSE timer
  PROVE  TimerFollows'
<1>1. Here \in Seq(Node) /\ Here' = Append(Here, n)
  BY DEF WentDown, Here
<1>2. /\ AskedTimer(Append(Here, n)) = IF Kind[n] = "hud" /\ OnPath(Here, "hud") = {} THEN n ELSE AskedTimer(Here)
      /\ AskedTimer(Here) = None <=> OnPath(Here, "hud") = {}
  BY <1>1, TimerGrows, TimerOfNone
<1> QED
  BY <1>1, <1>2 DEF TimerFollows

(* The hud that is left is on the stack once.                              *)
LEMMA LeftTimer ==
  ASSUME TimerFollows, GoesDown, phase = "draw", NEW n \in Node, WentUp(n),
         timer' = IF Kind[n] = "hud" /\ timer = n THEN None ELSE timer
  PROVE  TimerFollows'
<1> DEFINE p == PathTo(stack, Len(stack) - 1)
<1>1. /\ p \in Seq(Node) /\ Here = Append(p, n) /\ stack \in Draws /\ Len(stack) \in Nat /\ Len(stack) > 1
      /\ Len(stack') = Len(stack) - 1
      /\ stack[Len(stack)].node = n /\ \A i \in 1 .. Len(stack) - 1 : PathTo(stack', i) = PathTo(stack, i)
  BY DEF WentUp, Here
<1>2. Here' = p
  <2>1. Len(stack) - 1 \in 1 .. Len(stack) - 1
    BY <1>1
  <2> QED
    BY <1>1, <2>1 DEF Here
<1>3. \A i \in DOMAIN p : p[i] # n
  <2> SUFFICES ASSUME NEW i \in 1 .. Len(stack) - 2
               PROVE  stack[i + 1].node # n
    BY <1>1 DEF PathTo
  <2>1. i + 1 \in 2 .. Len(stack) /\ Len(stack) \in 2 .. Len(stack) /\ i + 1 < Len(stack)
    BY <1>1
  <2>2. Below[n] \subseteq Below[stack[i + 1].node] \ {stack[i + 1].node}
    BY <1>1, <2>1 DEF GoesDown, DrawsOf
  <2> QED
    BY <2>2, ChildIsBelow
<1> HIDE DEF p
<1>4. /\ timer = IF Kind[n] = "hud" /\ OnPath(p, "hud") = {} THEN n ELSE AskedTimer(p)
      /\ AskedTimer(p) = None <=> OnPath(p, "hud") = {}
      /\ AskedTimer(p) = None \/ AskedTimer(p) \in {p[i] : i \in DOMAIN p}
  BY <1>1, TimerGrows, TimerOfNone DEF TimerFollows
<1>5. AskedTimer(p) # n
  <2>1. n # None
    BY DrawStateAssumption
  <2> QED
    BY <1>3, <1>4, <2>1
<1> QED
  BY <1>2, <1>4, <1>5 DEF TimerFollows

LEMMA DrawTimer ==
  ASSUME Invariant, Invariant', GoesDown, TimerFollows, NEW n \in Node, Draw(n)
  PROVE  TimerFollows'
<1>1. CASE Render(n)
  <2>1. WentAlong /\ timer' = timer
    BY <1>1, StepAlong DEF Render, stackVars
  <2>2. Here' = Here
    BY <2>1 DEF WentAlong, Here
  <2> QED
    BY <2>1, <2>2 DEF TimerFollows
<1>2. ASSUME EnterGroup(n) \/ EnterConfig(n) \/ EnterTransform(n) \/ EnterCamera(n) \/ EnterHud(n) \/ EnterRtt(n)
      PROVE  TimerFollows'
  <2>1. Entered(n) /\ timer' = IF Kind[n] = "hud" /\ timer = None THEN n ELSE timer
    BY <1>2 DEF Entered, EnterGroup, EnterConfig, EnterTransform, EnterCamera, EnterHud, EnterRtt, Visit, stackVars
  <2>2. WentDown(n)
    BY <2>1, StepDown DEF Entered
  <2> QED
    BY <2>1, <2>2, EnteredTimer
<1>3. ASSUME LeaveGroup(n) \/ LeaveConfig(n) \/ LeaveTransform(n) \/ LeaveCamera(n) \/ LeaveHud(n) \/ LeaveRtt(n)
      PROVE  TimerFollows'
  <2>1. Left(n) /\ phase = "draw" /\ timer' = IF Kind[n] = "hud" /\ timer = n THEN None ELSE timer
    BY <1>3 DEF Left, LeaveGroup, LeaveConfig, LeaveTransform, LeaveCamera, LeaveHud, LeaveRtt, Leave, stackVars
  <2>2. WentUp(n)
    BY <2>1, StepUp DEF Left
  <2> QED
    BY <2>1, <2>2, LeftTimer
<1> QED
  BY <1>1, <1>2, <1>3 DEF Draw

LEMMA NextTimer ==
  ASSUME Invariant, Invariant', GoesDown, GoesDown', TimerFollows, [Next]_vars
  PROVE  TimerFollows'
<1>1. CASE \E n \in Node : Draw(n)
  BY <1>1, DrawTimer
<1>2. CASE UNCHANGED vars
  BY <1>2 DEF vars, stackVars, TimerFollows, Here
<1>3. ASSUME Next, ~ \E n \in Node : Draw(n)
      PROVE  TimerFollows'
  <2>1. timer' = timer /\ (phase = "draw" => Len(stack) = 1) /\ (phase' = "draw" => Len(stack') = 1)
    BY <1>3
    DEF Next, Configure, ConfigureFails, Resize, SetScene, PreDraw, Prefetch, Convert, Update, PostDraw, stackVars
  <2>2. Len(stack) \in {0, 1} /\ Len(stack') \in {0, 1}
    BY <2>1 DEF GoesDown
  <2>3. Here = <<>> /\ Here' = <<>>
    <3>1. PathTo(stack, Len(stack)) = <<>> /\ PathTo(stack', Len(stack')) = <<>>
      BY <2>2, EmptyPath
    <3> QED
      BY <3>1 DEF Here
  <2> QED
    BY <2>1, <2>3 DEF TimerFollows
<1> QED
  BY <1>1, <1>2, <1>3


(***************************************************************************)
(* What GL has been told                                                   *)
(***************************************************************************)
(* Between frames no node's state is left in GL.                           *)
Settled ==
  /\ gl.state = [f \in Field |-> gl.state[f]]
  /\ phase \in {"idle", "prefetch"} => recorded.blend = 0 /\ recorded.test = FALSE

LEMMA HereType ==
  ASSUME GoesDown
  PROVE  Here \in Seq(Node) /\ (phase # "draw" => Here = <<>>) /\ (Len(stack) = 1 => Here = <<>>)
<1>1. CASE phase = "draw"
  <2>1. stack \in Draws /\ Len(stack) \in Nat \ {0}
    BY <1>1 DEF GoesDown, DrawsOf, Draws
  <2>2. Len(stack) \in 1 .. Len(stack)
    BY <2>1
  <2>3. Here \in Seq(Node)
    BY <2>1, <2>2, PathType DEF Here
  <2>4. Len(stack) = 1 => Here = <<>>
    BY EmptyPath DEF Here
  <2> QED
    BY <1>1, <2>3, <2>4
<1>2. CASE phase # "draw"
  <2>1. stack = <<>> /\ Len(stack) = 0
    BY <1>2 DEF GoesDown
  <2>2. Here = <<>>
    BY <2>1, EmptyPath DEF Here
  <2>3. <<>> \in Seq(Node)
    OBVIOUS
  <2> QED
    BY <1>2, <2>2, <2>3
<1> QED
  BY <1>1, <1>2

LEMMA PathIsHere ==
  ASSUME GoesDown
  PROVE  Path = Here
  BY DEF Path, Here, PathTo

LEMMA HonouredIsState ==
  ASSUME NEW state
  PROVE  Honoured(state) = [f \in Field |-> Honoured(state)[f]]
  BY DEF Honoured, Override

LEMMA NeutralIsState ==
  ASSUME NEW size
  PROVE  /\ Neutral(size) = [f \in Field |-> Neutral(size)[f]]
         /\ Neutral(size).blend = 0 /\ Neutral(size).test = FALSE /\ Neutral(size).box = size
  BY DEF Neutral, Field

(* Two states have the same effect if they differ in the box of a test     *)
(* that is off.                                                            *)
LEMMA SameEffect ==
  ASSUME NEW a, NEW b, a = [f \in Field |-> a[f]], b = [f \in Field |-> b[f]],
         a.blend = b.blend, a.test = b.test, b.test => a.box = b.box
  PROVE  Effective(a) = Effective(b)
<1>1. DOMAIN a = Field /\ DOMAIN b = Field
  OBVIOUS
<1>2. CASE b.test
  <2>1. \A f \in Field : a[f] = b[f]
    BY <1>2 DEF Field
  <2>2. a = b
    BY <2>1
  <2> QED
    BY <2>2
<1>3. CASE ~ b.test
  <2> DEFINE x == [a EXCEPT !.box = 0]
             y == [b EXCEPT !.box = 0]
  <2>1. x = [f \in Field |-> IF f = "box" THEN 0 ELSE a[f]] /\ y = [f \in Field |-> IF f = "box" THEN 0 ELSE b[f]]
    BY <1>1
  <2>2. \A f \in Field : f # "box" => a[f] = b[f]
    BY DEF Field
  <2>3. x = y
    BY <2>1, <2>2
  <2>4. Effective(a) = x /\ Effective(b) = y
    BY <1>3 DEF Effective
  <2> QED
    BY <2>3, <2>4
<1> QED
  BY <1>2, <1>3

LEMMA NextSettled ==
  ASSUME Invariant, GoesDown, Followed, Settled, [Next]_vars
  PROVE  Settled'
<1>1. CASE \E c \in Configs : Configure(c)
  <2>1. PICK size : gl'.state = Neutral(size) /\ recorded' = gl'.state
    BY <1>1 DEF Configure, NewGL
  <2> QED
    BY <2>1, NeutralIsState, ZenonT(60) DEF Settled
<1>2. CASE \E c \in Configs : ConfigureFails(c)
  <2>1. PICK size : gl'.state = Neutral(size) /\ phase' = "off"
    BY <1>2 DEF ConfigureFails, NewGL
  <2> QED
    BY <2>1, NeutralIsState DEF Settled
<1>3. CASE (\E size \in Size : Resize(size)) \/ (\E root \in Scenes \union {None} : SetScene(root))
           \/ (\E time \in Time : PreDraw(time)) \/ Prefetch \/ Update
  <2>1. gl'.state = gl.state /\ recorded' = recorded /\ (phase' \in {"idle", "prefetch"} => phase = "idle")
    BY <1>3 DEF Resize, SetScene, PreDraw, Prefetch, Update, Rebound, ctxVars, Invariant, TypeOK, GLType
  <2> QED
    BY <2>1 DEF Settled
<1>4. CASE \E m \in Media : Convert(m)
  <2>1. gl'.state = Honoured(gl.state) /\ phase' = "update"
    BY <1>4 DEF Convert, Rebound, Invariant, TypeOK, GLType
  <2> QED
    BY <2>1, HonouredIsState DEF Settled
<1>5. CASE \E n \in Node : Draw(n)
  <2>1. phase' = "draw" /\ (gl'.state = gl.state \/ gl'.state = Honoured(gl.state))
    <3>1. PICK n \in Node : Draw(n)
      BY <1>5
    <3>2. CASE Render(n)
      BY <3>2 DEF Render, Visit, Honour, Unmoved, Invariant, TypeOK, GLType
    <3>3. CASE EnterRtt(n) \/ LeaveRtt(n)
      BY <3>3 DEF EnterRtt, LeaveRtt, Visit, Leave, SetTarget, Rebound, Unmoved, Invariant, TypeOK, GLType
    <3>4. CASE ~ Render(n) /\ ~ EnterRtt(n) /\ ~ LeaveRtt(n)
      BY <3>1, <3>4
      DEF Draw, EnterGroup, LeaveGroup, EnterConfig, LeaveConfig, EnterTransform, LeaveTransform,
          EnterCamera, LeaveCamera, EnterHud, LeaveHud, Visit, Leave, Unmoved
    <3> QED
      BY <3>2, <3>3, <3>4
  <2> QED
    BY <2>1, HonouredIsState DEF Settled
<1>6. CASE PostDraw
  <2>1. gl'.state = Honoured(gl.state) /\ recorded' = config
    BY <1>6 DEF PostDraw, Rebound, Invariant, TypeOK, GLType
  <2>2. Here = <<>> /\ phase # "off"
    BY <1>6, HereType DEF PostDraw
  <2>3. config = Neutral(conf.size)
    BY <2>2, AskedOfNone DEF Followed
  <2> QED
    BY <2>1, <2>3, HonouredIsState, NeutralIsState DEF Settled
<1>7. CASE UNCHANGED vars
  BY <1>7 DEF vars, ctxVars, Settled
<1> QED
  BY <1>1, <1>2, <1>3, <1>4, <1>5, <1>6, <1>7 DEF Next

(***************************************************************************)
(* All of it                                                               *)
(***************************************************************************)
DrawInvariant ==
  GoesDown /\ Named /\ Followed /\ MatricesFollow /\ MatricesOfFrame /\ TimerFollows /\ Settled

LEMMA InitDraws == Init => DrawInvariant
<1> SUFFICES ASSUME Init
             PROVE  DrawInvariant
  OBVIOUS
<1>1. stack = <<>> /\ Len(stack) = 0 /\ phase = "off" /\ scene = None
  BY DEF Init
<1>2. GoesDown /\ Here = <<>>
  BY <1>1, EmptyPath DEF GoesDown, Here
<1>3. Named
  <2>1. fb = [rt \in Target |-> 0]
    BY DEF Init
  <2> QED
    BY <1>1, <2>1, TargetsApart DEF Named
<1>4. Followed
  BY <1>1 DEF Init, Followed, ConfType, KeepsLocals
<1>5. MatricesFollow
  <2>1. <<>> \in Products(t) /\ <<>> \in Seq(Node)
    BY DEF Products
  <2>2. <<<<>>>> \in Seq(Products(t)) /\ <<<<>>>> \in Seq(Seq(Node))
    BY <2>1
  <2> QED
    BY <1>1, <1>2, <2>2, DepthOfNone DEF Init, MatricesFollow
<1>6. MatricesOfFrame
  BY <1>1 DEF Init, MatricesOfFrame
<1>7. TimerFollows
  BY <1>2, AskedOfNone DEF Init, TimerFollows
<1>8. Settled
  <2>1. gl.state = Neutral(1)
    BY DEF Init, NewGL
  <2> QED
    BY <1>1, <2>1, NeutralIsState, ZenonT(60) DEF Settled
<1> QED
  BY <1>2, <1>3, <1>4, <1>5, <1>6, <1>7, <1>8 DEF DrawInvariant

LEMMA NextDraws ==
  ASSUME Invariant, Invariant', DrawInvariant, [Next]_vars
  PROVE  DrawInvariant'
<1>1. GoesDown'
  BY NextGoesDown DEF DrawInvariant
<1> QED
  BY <1>1, NextNames, NextFollowed, NextMatrices, NextTimer, NextSettled DEF DrawInvariant

LEMMA DrawInvariantHolds == Spec => []DrawInvariant
<1>1. Invariant /\ Invariant' /\ DrawInvariant /\ [Next]_vars => DrawInvariant'
  BY NextDraws
<1> QED
  BY <1>1, InitDraws, InvariantHolds, PTL DEF Spec

(* A target that stands for another has its name.                          *)
LEMMA SameName ==
  ASSUME NEW names, NEW rt, NEW asked, Stands(names, rt, asked)
  PROVE  NameOf(names, rt) = NameOf(names, asked)
  BY DEF Stands, NameOf

LEMMA AskedOnPath ==
  ASSUME NEW p
  PROVE  /\ AskedConfig(p) = ConfigOn(conf.size, p) /\ AskedTarget(p) = TargetOn(OwnOf(conf), p)
         /\ AskedViewport(p) = ViewportOn(conf.size, p) /\ AskedClear(p) = ClearOn(conf.clear, p)
         /\ AskedModelview(p) = ModelviewOn(t, p)
<1>1. AskedConfig(p) = ConfigOn(conf.size, p)
  BY DEF AskedConfig, ConfigOn
<1>2. AskedTarget(p) = TargetOn(OwnOf(conf), p)
  BY DEF AskedTarget, TargetOn, OwnOf, CtxTarget
<1>3. AskedViewport(p) = ViewportOn(conf.size, p) /\ AskedClear(p) = ClearOn(conf.clear, p)
  BY DEF AskedViewport, ViewportOn, AskedClear, ClearOn
<1>4. AskedModelview(p) = ModelviewOn(t, p)
  BY DEF AskedModelview, ModelviewOn, Looked, ChainMatrix, EyeOn
<1> QED
  BY <1>1, <1>2, <1>3, <1>4

(* PathIsFollowed: at every moment the state of a context that is          *)
(* configured is the one the nodes from the root to the one being drawn    *)
(* ask for, and the configured one between frames: whatever a node changed *)
(* on the way down is put back on the way up, for any scene without a      *)
(* cycle, any nesting of rtts, configs, transforms, cameras and huds, and  *)
(* any failure, resize or new configuration (glstate.c:302-331,            *)
(* node_rtt.c:338-384, transforms.c, node_camera.c, node_hud.c).           *)
THEOREM PathIsFollowed == Spec => []StateFollowsPath
<1>1. DrawInvariant => StateFollowsPath
  <2> SUFFICES ASSUME DrawInvariant, phase # "off"
               PROVE  StateFollowsPath
    BY DEF StateFollowsPath
  <2>1. Path = Here /\ Fits(fb, conf, target, viewport, clear, Here) /\ config = ConfigOn(conf.size, Here)
    BY PathIsHere DEF DrawInvariant, Followed
  <2>2. Stands(fb, target, TargetOn(OwnOf(conf), Here))
    BY <2>1 DEF Fits
  <2>3. NameOf(fb, target) = NameOf(fb, TargetOn(OwnOf(conf), Here))
    BY <2>2, SameName
  <2>4. /\ config = AskedConfig(Here) /\ NameOf(fb, target) = NameOf(fb, AskedTarget(Here))
        /\ viewport = AskedViewport(Here) /\ clear = AskedClear(Here)
    BY <2>1, <2>3, AskedOnPath DEF Fits
  <2>5. Len(modelview) = Depth(Here) /\ Len(projection) = EyeDepth(Here) /\ timer = AskedTimer(Here)
    BY DEF DrawInvariant, MatricesFollow, TimerFollows
  <2> QED
    BY <2>1, <2>4, <2>5 DEF StateFollowsPath, Depth, EyeDepth
<1> QED
  BY <1>1, DrawInvariantHolds, PTL

(* FramesAreWhole: a frame is cleared when it begins, and captured or      *)
(* shown when it ends, with the state of no node and in the framebuffer of *)
(* the context, after a frame that failed as well (backend_gl.c:474-524,   *)
(* api.c:350-382): no scissor of a config cuts it and no rtt receives it.  *)
THEOREM FramesAreWhole == Spec => FrameIsWhole
<1>1. ASSUME Invariant, Invariant', DrawInvariant, DrawInvariant', [Next]_vars
      PROVE  [phase' # phase /\ (phase = "idle" \/ phase' = "idle") /\ phase # "off" /\ phase' # "off" =>
                /\ Effective(gl'.state) = Effective(Neutral(conf'.size))
                /\ gl'.fbo = NameOf(fb', AskedTarget(Path))]_vars
  <2> SUFFICES ASSUME Next, phase' # phase, phase = "idle" \/ phase' = "idle", phase # "off", phase' # "off"
               PROVE  /\ Effective(gl'.state) = Effective(Neutral(conf'.size))
                      /\ gl'.fbo = NameOf(fb', AskedTarget(Path))
    BY <1>1
  <2>1. (\E time \in Time : PreDraw(time)) \/ PostDraw
    <3>1. ~ \E n \in Node : Draw(n)
      BY DrawSteps DEF Entered, Left, Render, Unmoved
    <3> QED
      BY <3>1 DEF Next, Configure, ConfigureFails, Resize, SetScene, Prefetch, Convert, Update
  <2>2. Here = <<>> /\ Path = Here /\ conf' = conf /\ fb' = fb /\ target' = target
    <3>1. CASE PostDraw
      BY <1>1, <3>1, HereType, PathIsHere DEF DrawInvariant, PostDraw
    <3>2. CASE \E time \in Time : PreDraw(time)
      BY <1>1, <3>2, HereType, PathIsHere DEF DrawInvariant, PreDraw, ctxVars
    <3> QED
      BY <2>1, <3>1, <3>2
  <2>3. Stands(fb, target, OwnOf(conf))
    BY <1>1, <2>2, AskedOfNone DEF DrawInvariant, Followed, Fits
  <2>4. NameOf(fb', target') = NameOf(fb', AskedTarget(Path))
    <3>1. AskedTarget(Path) = OwnOf(conf)
      BY <2>2, AskedOnPath, AskedOfNone
    <3> QED
      BY <2>2, <2>3, <3>1, SameName
  <2>5. /\ gl'.fbo = NameOf(fb', target')
        /\ gl'.state.blend = recorded'.blend /\ gl'.state.test = recorded'.test
    BY <1>1 DEF Invariant, ContextKnowsGL
  <2>6. recorded'.blend = 0 /\ recorded'.test = FALSE
    BY <1>1, <2>1 DEF DrawInvariant, Settled, PreDraw, PostDraw
  <2>7. gl'.state = [f \in Field |-> gl'.state[f]]
    BY <1>1 DEF DrawInvariant, Settled
  <2>8. Effective(gl'.state) = Effective(Neutral(conf'.size))
    <3> DEFINE z == Neutral(conf'.size)
               a == gl'.state
    <3>1. z = [f \in Field |-> z[f]] /\ z.blend = 0 /\ z.test = FALSE
      BY NeutralIsState
    <3>2. a = [f \in Field |-> a[f]] /\ a.blend = z.blend /\ a.test = z.test /\ (z.test => a.box = z.box)
      BY <2>5, <2>6, <2>7, <3>1
    <3> HIDE DEF z, a
    <3>3. Effective(a) = Effective(z)
      BY <3>1, <3>2, SameEffect
    <3> QED
      BY <3>3 DEF a, z
  <2> QED
    BY <2>4, <2>5, <2>8
<1> QED
  BY <1>1, InvariantHolds, DrawInvariantHolds, PTL DEF Spec, FrameIsWhole

(***************************************************************************)
(* The scissor                                                             *)
(***************************************************************************)
(* The configs that set the test or the box set both, switch the test on,  *)
(* and have a box that is not the whole of a window: without this GL may   *)
(* keep the box of another draw, since honor_state records a box it has    *)
(* not applied (glstate.c:283-287).                                        *)
ScissorsAreWhole ==
  \A n \in DOMAIN Sets : "test" \in DOMAIN Sets[n] \/ "box" \in DOMAIN Sets[n] =>
    "test" \in DOMAIN Sets[n] /\ "box" \in DOMAIN Sets[n] /\ Sets[n].test = TRUE /\ Sets[n].box \notin Size

(* The box is the one that was recorded, unless that one is the window's.  *)
BoxKnown ==
  phase # "off" =>
    conf.size \in Size /\ (gl.state.box = recorded.box \/ (recorded.test = FALSE /\ recorded.box \in Size))

LEMMA WholeScissor ==
  ASSUME ScissorsAreWhole, NEW p \in Seq(Node), NEW size \in Size
  PROVE  LET c == ConfigOn(size, p)
         IN  (c.test = TRUE /\ c.box \notin Size) \/ (c.test = FALSE /\ c.box \in Size)
<1> DEFINE setters(f) == {i \in OnPath(p, "config") : f \in DOMAIN Sets[p[i]]}
           S == setters("test")
<1>1. OnPath(p, "config") \in SUBSET (1 .. Len(p)) /\ \A i \in OnPath(p, "config") : p[i] \in DOMAIN Sets
  <2>1. DOMAIN Sets = OfKind("config")
    BY DrawStateAssumption
  <2> QED
    BY <2>1 DEF OnPath, OfKind
<1>2. setters("box") = S
  BY <1>1 DEF ScissorsAreWhole
<1>3. S \in SUBSET (1 .. Len(p)) /\ Len(p) \in Nat
  BY <1>1
<1>4. /\ ConfigOn(size, p).test = IF S = {} THEN Neutral(size).test ELSE Sets[p[Max(S)]].test
      /\ ConfigOn(size, p).box = IF S = {} THEN Neutral(size).box ELSE Sets[p[Max(S)]].box
  <2>1. ConfigOn(size, p) =
          [f \in Field |-> IF setters(f) = {} THEN Neutral(size)[f] ELSE Sets[p[Max(setters(f))]][f]]
    BY DEF ConfigOn
  <2>2. "test" \in Field /\ "box" \in Field
    BY DEF Field
  <2> HIDE DEF setters
  <2> QED
    BY <1>2, <2>1, <2>2
<1>5. CASE S = {}
  BY <1>4, <1>5, NeutralIsState
<1>6. CASE S # {}
  <2> DEFINE n == p[Max(S)]
  <2>1. Max(S) \in S
    <3> HIDE DEF S
    <3> QED
      BY <1>3, <1>6, MaxIsIn
  <2>2. n \in DOMAIN Sets /\ "test" \in DOMAIN Sets[n]
    BY <1>1, <2>1
  <2>3. Sets[n].test = TRUE /\ Sets[n].box \notin Size
    BY <2>2 DEF ScissorsAreWhole
  <2> QED
    BY <1>4, <1>6, <2>3
<1> QED
  BY <1>5, <1>6

(* What a step that applies the configuration leaves.                      *)
LEMMA BoxHonoured ==
  ASSUME ScissorsAreWhole, DrawInvariant, BoxKnown, phase # "off"
  PROVE  LET s == Honoured(gl.state)
         IN  s.box = config.box \/ (config.test = FALSE /\ config.box \in Size)
<1>1. config = ConfigOn(conf.size, Here) /\ conf.size \in Size /\ Here \in Seq(Node)
  BY HereType DEF DrawInvariant, Followed, BoxKnown
<1>2. (config.test = TRUE /\ config.box \notin Size) \/ (config.test = FALSE /\ config.box \in Size)
  BY <1>1, WholeScissor
<1>3. Honoured(gl.state).box = IF config.test /\ config.box # recorded.box THEN config.box ELSE gl.state.box
  BY DEF Honoured, Override, Field
<1> QED
  BY <1>2, <1>3 DEF BoxKnown

LEMMA NextBox ==
  ASSUME ScissorsAreWhole, Invariant, DrawInvariant, BoxKnown, [Next]_vars
  PROVE  BoxKnown'
<1>1. CASE \E c \in Configs : Configure(c)
  BY <1>1 DEF Configure, Configs, BoxKnown
<1>2. CASE \E c \in Configs : ConfigureFails(c)
  BY <1>2 DEF ConfigureFails, BoxKnown
<1>3. CASE \E size \in Size : Resize(size)
  BY <1>3 DEF Resize, BoxKnown, DrawInvariant, Followed, ConfType, Invariant, TypeOK, GLType
<1>4. CASE (\E root \in Scenes \union {None} : SetScene(root)) \/ (\E time \in Time : PreDraw(time))
           \/ Prefetch \/ Update
  <2>1. gl'.state = gl.state /\ recorded' = recorded /\ phase # "off" /\ conf' = conf
    BY <1>4 DEF SetScene, PreDraw, Prefetch, Update, Rebound, ctxVars, Invariant, TypeOK, GLType
  <2> QED
    BY <2>1 DEF BoxKnown
<1>5. ASSUME gl'.state = Honoured(gl.state), recorded' = config, phase # "off", conf' = conf
      PROVE  BoxKnown'
  BY <1>5, BoxHonoured DEF BoxKnown
<1>6. CASE (\E m \in Media : Convert(m)) \/ PostDraw
  BY <1>5, <1>6 DEF Convert, PostDraw, Rebound, Invariant, TypeOK, GLType
<1>7. CASE \E n \in Node : Draw(n)
  <2>1. PICK n \in Node : Draw(n)
    BY <1>7
  <2>2. CASE Render(n)
    BY <1>5, <2>2 DEF Render, Visit, Honour, Unmoved, Invariant, TypeOK, GLType
  <2>3. CASE EnterRtt(n) \/ LeaveRtt(n)
    <3>1. gl'.state = gl.state /\ recorded' = recorded /\ phase # "off" /\ conf' = conf
      BY <2>3 DEF EnterRtt, LeaveRtt, Visit, Leave, SetTarget, Rebound, Unmoved, Invariant, TypeOK, GLType
    <3> QED
      BY <3>1 DEF BoxKnown
  <2>4. CASE ~ Render(n) /\ ~ EnterRtt(n) /\ ~ LeaveRtt(n)
    <3>1. gl' = gl /\ recorded' = recorded /\ phase # "off" /\ conf' = conf
      BY <2>1, <2>4
      DEF Draw, EnterGroup, LeaveGroup, EnterConfig, LeaveConfig, EnterTransform, LeaveTransform,
          EnterCamera, LeaveCamera, EnterHud, LeaveHud, Visit, Leave, Unmoved, ctxVars
    <3> QED
      BY <3>1 DEF BoxKnown
  <2> QED
    BY <2>2, <2>3, <2>4
<1>8. CASE UNCHANGED vars
  BY <1>8 DEF vars, ctxVars, BoxKnown
<1> QED
  BY <1>1, <1>2, <1>3, <1>4, <1>6, <1>7, <1>8 DEF Next

(* What a draw finds asked for by the nodes above it has a framebuffer.    *)
LEMMA AskedIsReady ==
  ASSUME DrawInvariant, phase = "draw", TargetOn(OwnOf(conf), Here) # None
  PROVE  NameOf(fb, TargetOn(OwnOf(conf), Here)) # 0
<1> DEFINE S == OnPath(Here, "rtt")
<1>1. Here \in Seq(Node) /\ S \in SUBSET (1 .. Len(Here)) /\ Len(Here) \in Nat
  BY HereType DEF DrawInvariant, OnPath
<1>2. TargetOn(OwnOf(conf), Here) = IF S # {} THEN DrawTarget(Here[Max(S)]) ELSE OwnOf(conf)
  BY DEF TargetOn
<1>3. Ready(fb, InScene \intersect Rtts) /\ (conf.offscreen => fb[CtxTarget] # 0)
  BY DEF DrawInvariant, Named
<1>4. CASE S = {}
  BY <1>2, <1>3, <1>4 DEF OwnOf, NameOf
<1>5. CASE S # {}
  <2> DEFINE i == Max(S)
             n == Here[i]
  <2>1. i \in S
    <3> HIDE DEF S
    <3> QED
      BY <1>1, <1>5, MaxIsIn
  <2>2. i \in 1 .. Len(Here) /\ n \in Node /\ Kind[n] = "rtt"
    BY <1>1, <2>1 DEF OnPath
  <2>3. n \in InScene
    <3>1. /\ stack \in Draws /\ Len(stack) \in Nat /\ Len(stack) >= 1 /\ Len(Here) = Len(stack) - 1
          /\ \A j \in 2 .. Len(stack) : Below[stack[j].node] \subseteq InScene
      <4>1. DrawsOf(InScene, stack)
        BY DEF DrawInvariant, GoesDown
      <4>2. stack \in Draws /\ Len(stack) \in Nat /\ Len(stack) >= 1
        BY <4>1 DEF DrawsOf, Draws
      <4>3. Len(stack) \in 1 .. Len(stack)
        BY <4>2
      <4> QED
        BY <4>1, <4>2, <4>3, PathType DEF DrawsOf, Here
    <3> HIDE DEF i
    <3>2. i \in Nat /\ i + 1 \in 2 .. Len(stack) /\ Here[i] = stack[i + 1].node
      BY <2>2, <3>1 DEF Here, PathTo
    <3>3. Below[n] \subseteq InScene
      BY <3>1, <3>2
    <3> QED
      BY <2>2, <3>3, ChildIsBelow
  <2>4. n \in InScene \intersect Rtts
    BY <2>2, <2>3 DEF Rtts, OfKind
  <2>5. fb[DrawTarget(n)] # 0
    BY <1>3, <2>4 DEF Ready, DrawTarget
  <2> QED
    BY <1>2, <1>5, <2>5 DEF NameOf
<1> QED
  BY <1>4, <1>5

LEMMA RenderAsAsked ==
  ASSUME ScissorsAreWhole, Invariant, DrawInvariant, BoxKnown, NEW n \in Node, Render(n)
  PROVE  /\ Effective(gl'.state) = Effective(AskedConfig(Path))
         /\ gl'.fbo = NameOf(fb, AskedTarget(Path)) /\ (AskedTarget(Path) # None => gl'.fbo # 0)
         /\ gl'.viewport = AskedViewport(Path)
         /\ Last(modelview) = AskedModelview(Path) /\ Last(projection) = AskedProjection(Path)
<1>1. /\ phase = "draw" /\ gl'.state = Honoured(gl.state) /\ gl'.fbo = gl.fbo /\ gl'.viewport = gl.viewport
  BY DEF Render, Visit, Honour, Invariant, TypeOK, GLType
<1>2. /\ Path = Here /\ Fits(fb, conf, target, viewport, clear, Here) /\ config = ConfigOn(conf.size, Here)
      /\ gl.fbo = NameOf(fb, target) /\ gl.viewport = viewport
      /\ gl.state.blend = recorded.blend /\ gl.state.test = recorded.test
  BY <1>1, PathIsHere DEF DrawInvariant, Followed, Invariant, ContextKnowsGL
<1>3. Effective(gl'.state) = Effective(AskedConfig(Path))
  <2> DEFINE a == Honoured(gl.state)
  <2>1. a = [f \in Field |-> a[f]] /\ a.blend = config.blend /\ a.test = config.test
    BY <1>2, HonouredIsState, HonouredState
  <2>2. a.box = config.box \/ config.test = FALSE
    BY <1>1, BoxHonoured
  <2>3. config = [f \in Field |-> config[f]]
    BY <1>2 DEF ConfigOn
  <2> HIDE DEF a
  <2>4. Effective(a) = Effective(config)
    BY <2>1, <2>2, <2>3, SameEffect
  <2> QED
    BY <1>1, <1>2, <2>4, AskedOnPath DEF a
<1>4. gl'.fbo = NameOf(fb, AskedTarget(Path)) /\ (AskedTarget(Path) # None => gl'.fbo # 0)
  <2> DEFINE asked == TargetOn(OwnOf(conf), Here)
  <2>1. Stands(fb, target, asked)
    BY <1>2 DEF Fits
  <2>2. NameOf(fb, target) = NameOf(fb, asked)
    BY <2>1, SameName
  <2> QED
    BY <1>1, <1>2, <2>2, AskedIsReady, AskedOnPath
<1>5. gl'.viewport = AskedViewport(Path)
  BY <1>1, <1>2, AskedOnPath DEF Fits
<1>6. Last(modelview) = AskedModelview(Path) /\ Last(projection) = AskedProjection(Path)
  <2>1. /\ Len(stack) \in 1 .. Len(stack)
    BY <1>1, HereType DEF DrawInvariant, GoesDown, DrawsOf, Draws
  <2>2. /\ modelview[Depth(Here)] = ModelviewOn(t, Here) /\ projection[EyeDepth(Here)] = AskedProjection(Here)
        /\ Len(modelview) = Depth(Here) /\ Len(projection) = EyeDepth(Here)
    BY <2>1 DEF DrawInvariant, MatricesFollow, Here
  <2> QED
    BY <1>2, <2>2, AskedOnPath DEF Last
<1> QED
  BY <1>3, <1>4, <1>5, <1>6

(* DrawsAreAsAsked: every draw of a frame happens with the GL state, in    *)
(* the framebuffer, which was created, and with the viewport and matrices  *)
(* that the nodes above it ask for, whatever was drawn before it           *)
(* (ngli_honor_pending_glstate, glstate.c:290-300), if the scissors of the *)
(* scene are whole.                                                        *)
THEOREM DrawsAreAsAsked ==
  ASSUME ScissorsAreWhole
  PROVE  Spec => DrawnAsAsked
<1>1. Init => BoxKnown
  BY DEF Init, BoxKnown
<1>2. Invariant /\ DrawInvariant /\ BoxKnown /\ [Next]_vars => BoxKnown'
  BY NextBox
<1>3. ASSUME Invariant, DrawInvariant, BoxKnown
      PROVE  [\A n \in Node : Render(n) =>
                /\ Effective(gl'.state) = Effective(AskedConfig(Path))
                /\ gl'.fbo = NameOf(fb, AskedTarget(Path)) /\ (AskedTarget(Path) # None => gl'.fbo # 0)
                /\ gl'.viewport = AskedViewport(Path)
                /\ Last(modelview) = AskedModelview(Path) /\ Last(projection) = AskedProjection(Path)]_vars
  BY <1>3, RenderAsAsked
<1> QED
  BY <1>1, <1>2, <1>3, InvariantHolds, DrawInvariantHolds, PTL DEF Spec, DrawnAsAsked
=============================================================================
