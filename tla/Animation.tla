------------------------------- MODULE Animation -------------------------------
(***************************************************************************)
(* The animated nodes of libnodegl (animation.c, node_animated.c): the     *)
(* search of the key frames around a time, which starts where the last one *)
(* ended, and its two users, the update of an attached node and the public *)
(* function ngl_anim_evaluate, which works on a detached node as well.     *)
(*                                                                         *)
(* The client makes an animated node the scene of a context, draws, and    *)
(* evaluates or extends its animations in between.                         *)
(***************************************************************************)
EXTENDS Integers, Sequences, FiniteSets

CONSTANTS
  Anim,          \* the animated nodes
  NoAnim,        \* no scene
  KeyFrame,      \* the key frame nodes
  TimeOf,        \* the "time" parameter of a key frame
  InitAnimkf,    \* the key frames the animated nodes are created with
  Time,          \* the times asked for
  Evaluable,     \* the nodes the client calls ngl_anim_evaluate on
  Extensible,    \* the nodes the client adds key frames to
  MaxKeyFrames,  \* bound on the key frames of a node the client extends
  NoFrame        \* the result of no evaluation

ASSUME AnimationAssumption ==
  /\ NoAnim \notin Anim
  /\ TimeOf \in [KeyFrame -> Int]
  /\ InitAnimkf \in [Anim -> Seq(KeyFrame)]
  /\ Time \subseteq Int
  /\ Evaluable \subseteq Anim
  /\ Extensible \subseteq Anim
  /\ MaxKeyFrames \in Nat
  /\ NoFrame \notin KeyFrame

VARIABLES
  animkf,     \* the key frames of each node, its "keyframes" parameter
  anim,       \* the struct animation each node evaluates in its update
  anim_eval,  \* the one ngl_anim_evaluate uses
  function,   \* the key frames whose easing function is set
  scene,      \* the animated node that is attached
  value       \* what was evaluated last

animationVars == <<animkf, anim, anim_eval, function, scene, value>>

KeyFramesOf(kfs) == {kfs[i] : i \in DOMAIN kfs}

(* A struct animation: its list of key frames (NULL is the empty list) and *)
(* the current one, counted from 1.                                        *)
Animations == [kfs : Seq(KeyFrame), current : Nat \ {0}]
Zeroed     == [kfs |-> <<>>, current |-> 1]

(* The result is a copy of a key frame, or a mix of two of them; "crash"   *)
(* is a call through a NULL easing function, "garbage" what is read from   *)
(* a list that was freed.                                                  *)
Kind == {"none", "copy", "mix", "crash", "garbage"}
Result(kind, from, to) == [kind |-> kind, from |-> from, to |-> to]
Results == [kind : Kind, from : KeyFrame \union {NoFrame}, to : KeyFrame \union {NoFrame}]
Copy(k) == Result("copy", k, NoFrame)
Garbage == Result("garbage", NoFrame, NoFrame)

Nothing == [by |-> "none", anim |-> NoAnim, t |-> 0, out |-> Result("none", NoFrame, NoFrame)]

TypeOK ==
  /\ animkf \in [Anim -> Seq(KeyFrame)]
  /\ anim \in [Anim -> Animations]
  /\ anim_eval \in [Anim -> Animations]
  /\ function \subseteq KeyFrame
  /\ scene \in Anim \union {NoAnim}
  /\ value \in [by : {"none", "draw", "evaluate"}, anim : Anim \union {NoAnim}, t : Int,
                out : Results]

(* Mutant: a key frame is reached only after its time.                     *)
KfId_Strict(kfs, start, t) ==
  LET reached == {i \in start .. Len(kfs) : \A j \in start .. i : TimeOf[kfs[j]] < t}
  IN  IF reached = {} THEN 0 ELSE CHOOSE i \in reached : \A j \in reached : j <= i

(***************************************************************************)
(* animation.c                                                             *)
(***************************************************************************)
(* get_kf_id: the last key frame from "start" on that is reached at t.     *)
KfId(kfs, start, t) ==
  LET reached == {i \in start .. Len(kfs) : \A j \in start .. i : TimeOf[kfs[j]] <= t}
  IN  IF reached = {} THEN 0 ELSE CHOOSE i \in reached : \A j \in reached : j <= i

(* Mutant: a time before the current key frame is not looked for.          *)
CachedKfId_Forward(s, t) == KfId(s.kfs, s.current, t)

CachedKfId(s, t) ==
  LET onwards == KfId(s.kfs, s.current, t)
  IN  IF onwards # 0 THEN onwards ELSE KfId(s.kfs, 1, t)

Between(s, t) == CachedKfId(s, t) \in 1 .. Len(s.kfs) - 1

(* ngli_animation_evaluate, given the key frames that can be called.       *)
Evaluation(s, t, callable) ==
  LET id == CachedKfId(s, t)
      last == s.kfs[Len(s.kfs)]
  IN  IF Between(s, t)
      THEN Result(IF s.kfs[id + 1] \in callable THEN "mix" ELSE "crash", s.kfs[id], s.kfs[id + 1])
      ELSE Copy(IF t < TimeOf[s.kfs[1]] THEN s.kfs[1] ELSE last)

Evaluated(s, t) == IF Between(s, t) THEN [s EXCEPT !.current = CachedKfId(s, t)] ELSE s

(* ngli_animation_init refuses key frames that are not in order.           *)
InOrder(kfs) == \A i, j \in DOMAIN kfs : i <= j => TimeOf[kfs[i]] <= TimeOf[kfs[j]]

(***************************************************************************)
(* node_animated.c, node_animkeyframe.c and the context                    *)
(***************************************************************************)
AnimationInit ==
  /\ animkf = InitAnimkf
  /\ anim = [a \in Anim |-> Zeroed]
  /\ anim_eval = [a \in Anim |-> Zeroed]
  /\ function = {}
  /\ scene = NoAnim
  /\ value = Nothing

(* Mutant: an animation that was set up once is not set up again.          *)
SetScene_KeepsAnimation(a) ==
  /\ scene' = a
  /\ anim' = [b \in Anim |-> IF b = a /\ anim[b].kfs = <<>>
                             THEN [kfs |-> animkf[b], current |-> 1] ELSE anim[b]]
  /\ function' = function \union (IF a = NoAnim THEN {} ELSE KeyFramesOf(animkf[a]))
  /\ UNCHANGED <<animkf, anim_eval, value>>

(* ngl_set_scene: the old scene is detached, which resets what its nodes   *)
(* are not given as a parameter; the new one is attached, its key frames   *)
(* first; if its own init fails, it is reset and they are detached again.  *)
SetScene(a) ==
  LET refused == a # NoAnim /\ ~InOrder(animkf[a])
      reset == {scene} \union (IF refused THEN {a} ELSE {})
      attached == IF refused THEN NoAnim ELSE a
      uninit == UNION {KeyFramesOf(animkf[b]) : b \in reset \intersect Anim}
  IN
  /\ scene' = attached
  /\ anim' = [b \in Anim |-> IF b = attached THEN [kfs |-> animkf[b], current |-> 1]
                             ELSE IF b \in reset THEN Zeroed ELSE anim[b]]
  /\ anim_eval' = [b \in Anim |-> IF b \in reset THEN Zeroed ELSE anim_eval[b]]
  /\ function' = (function \ uninit)
                 \union (IF attached = NoAnim THEN {} ELSE KeyFramesOf(animkf[attached]))
  /\ UNCHANGED <<animkf, value>>

(* animation_update.                                                       *)
Draw(t) ==
  /\ scene # NoAnim
  /\ anim[scene].kfs # <<>>
  /\ anim' = [anim EXCEPT ![scene] = Evaluated(@, t)]
  /\ value' = [by |-> "draw", anim |-> scene, t |-> t, out |-> Evaluation(anim[scene], t, function)]
  /\ UNCHANGED <<animkf, anim_eval, function, scene>>

(* ngl_anim_evaluate: the animation is set up by the first call, and the   *)
(* key frames when the first of them is not; the list it was set up with   *)
(* may have been moved by a realloc since.                                 *)
SetUp(a) == IF anim_eval[a].kfs = <<>> THEN [anim_eval[a] EXCEPT !.kfs = animkf[a]] ELSE anim_eval[a]

Callable(a) ==
  IF animkf[a][1] \in function THEN function ELSE function \union KeyFramesOf(animkf[a])

Evaluate(a, t) ==
  LET s == SetUp(a) IN
  /\ animkf[a] # <<>>
  /\ anim_eval[a].kfs = <<>> => InOrder(animkf[a])
  /\ function' = Callable(a)
  /\ anim_eval' = [anim_eval EXCEPT ![a] = Evaluated(s, t)]
  /\ \E out \in {Evaluation(s, t, Callable(a))} \union (IF s.kfs = animkf[a] THEN {} ELSE {Garbage}) :
       value' = [by |-> "evaluate", anim |-> a, t |-> t, out |-> out]
  /\ UNCHANGED <<animkf, anim, scene>>

(* ngl_node_param_add, which refuses a live change.                        *)
AddKeyFrame(a, k) ==
  /\ scene # a
  /\ Len(animkf[a]) < MaxKeyFrames
  /\ animkf' = [animkf EXCEPT ![a] = Append(@, k)]
  /\ UNCHANGED <<anim, anim_eval, function, scene, value>>

AnimationNext ==
  \/ \E a \in Anim \union {NoAnim} : SetScene(a)
  \/ \E t \in Time : Draw(t) \/ \E a \in Evaluable : Evaluate(a, t)
  \/ \E a \in Extensible, k \in KeyFrame : AddKeyFrame(a, k)

AnimationSpec == AnimationInit /\ [][AnimationNext]_animationVars

(***************************************************************************)
(* Properties                                                              *)
(***************************************************************************)

(* What an animation is at a time: the key frames reached so far decide.   *)
Reached(kfs, t) == {i \in DOMAIN kfs : TimeOf[kfs[i]] <= t}

Expected(kfs, t) ==
  LET id == CHOOSE i \in Reached(kfs, t) : \A j \in Reached(kfs, t) : j <= i
  IN  IF Reached(kfs, t) = {} THEN Copy(kfs[1])
      ELSE IF id = Len(kfs) THEN Copy(kfs[id])
      ELSE Result("mix", kfs[id], kfs[id + 1])

(* DrawExact: the value a draw computes depends on its time and on the key *)
(* frames of the node only, not on the times drawn before (the search goes *)
(* on from s->current_kf, animation.c:47-49), nor on the evaluations made  *)
(* meanwhile, nor on the other nodes the key frames are shared with.       *)
DrawExact ==
  [][value'.by = "draw" /\ value' # value
       => value'.out = Expected(animkf[value'.anim], value'.t)]_animationVars

(* EvaluateExact: the same of ngl_anim_evaluate, which nodegl.h:466-477    *)
(* specifies as a function of the node and the time.                       *)
EvaluateExact ==
  [][value'.by = "evaluate" /\ value' # value
       => value'.out = Expected(animkf[value'.anim], value'.t)]_animationVars

(* RatioDefined: two key frames are mixed at a time between them, and they *)
(* are apart: t1 - t0 (animation.c:56) is never zero, although key frames  *)
(* may share a time.                                                       *)
RatioDefined ==
  value.out.kind = "mix" =>
    TimeOf[value.out.from] <= value.t /\ value.t < TimeOf[value.out.to]

(* FunctionsAreSet: no evaluation calls the easing function of a key frame *)
(* that is not initialised (animation.c:59).                               *)
FunctionsAreSet == value.out.kind # "crash"

=============================================================================
