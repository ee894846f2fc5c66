---------------------------- MODULE NodeActivity ----------------------------
(***************************************************************************)
(* One frame of a scene (libnodegl/nodes.c, node_userswitch.c,             *)
(* node_timerangefilter.c): the visit that decides which nodes are active, *)
(* the prefetch of the active nodes and the release of the others, the     *)
(* update at a given time, and the draw.                                   *)
(***************************************************************************)
EXTENDS NodeGraph

CONSTANTS
  Kind,             \* "plain", "switch" or "filter", the class of a node
  Ranges,           \* the ranges of a TimeRangeFilter, [mode, start, render]
  PrefetchTime,     \* its prefetch_time
  MaxIdleTime,      \* its max_idle_time
  PrefetchMayFail,  \* the nodes whose class prefetch callback may fail
  UpdateMayFail     \* the nodes whose class update callback may fail

ASSUME ActivityAssumption ==
  /\ Kind \in [Node -> {"plain", "switch", "filter"}]
  /\ Ranges \in [Node -> Seq([mode : {"cont", "noop", "once"}, start : Int, render : Time])]
  /\ \A n \in Node : \A i, j \in DOMAIN Ranges[n] :
        i <= j => Ranges[n][i].start <= Ranges[n][j].start
  /\ PrefetchTime \in Nat
  /\ MaxIdleTime \in Nat
  /\ PrefetchTime < MaxIdleTime
  /\ PrefetchMayFail \subseteq Prefetching
  /\ UpdateMayFail \subseteq Node

VARIABLE
  activity  \* activitycheck_nodes of each context

IsSwitch(n) == Kind[n] = "switch"
IsFilter(n) == Kind[n] = "filter"

(***************************************************************************)
(* The ranges of a TimeRangeFilter                                         *)
(***************************************************************************)
(* The last range from "first" on that has started at t, 0 for none.       *)
RangeAt(n, first, t) ==
  LET started == {i \in first .. Len(Ranges[n]) :
                    \A j \in first .. i : Ranges[n][j].start <= t}
  IN  IF started = {} THEN 0
      ELSE CHOOSE i \in started : \A j \in started : j <= i

CurrentRange(n, t) ==
  LET onwards == RangeAt(n, range[n].current, t)
  IN  IF onwards # 0 THEN onwards ELSE RangeAt(n, 1, t)

(* Mutant: what the search from the current range on returns is stored     *)
(* unchecked.                                                              *)
MovedRange_Unchecked(n, t) == [range[n] EXCEPT !.current = RangeAt(n, @, t)]

(* update_rr_state: leaving a "once" range makes it due again.             *)
MovedRange(n, t) ==
  LET id == CurrentRange(n, t)
      here == range[n].current
  IN  IF id \in {0, here} THEN range[n]
      ELSE [range[n] EXCEPT !.current = id,
              !.updated = IF Ranges[n][here].mode = "once" THEN @ \ {here} ELSE @]

Mode(n, t) == IF CurrentRange(n, t) = 0 THEN "none" ELSE Ranges[n][CurrentRange(n, t)].mode

(* A "noop" range keeps the child active when the next one is close.       *)
NeededSoon(n, t) ==
  LET id == CurrentRange(n, t) IN
  /\ id < Len(Ranges[n])
  /\ LET next_use_in == Ranges[n][id + 1].start - t
     IN  \/ next_use_in <= PrefetchTime
         \/ next_use_in <= MaxIdleTime /\ is_active[children[n][1]]

(***************************************************************************)
(* ngli_node_visit                                                         *)
(***************************************************************************)
VisitCall(n, active, t) == Call("visit", n, NoCtx, active, t)

ToQueue(n, t) == visit_time[n] # t

(* The activity the running visit asks of the children of its node.        *)
ChildActive(n, active, t) ==
  CASE IsSwitch(n) -> active /\ enabled[n]
    [] IsFilter(n) -> active /\ (Mode(n, t) = "noop" => NeededSoon(n, t))
    [] OTHER       -> active

(* Mutant: a "once" range is not due again when its child was released.    *)
VisitedRange_NotForced(n, active, t) ==
  IF ~IsFilter(n) \/ ~active THEN range[n] ELSE MovedRange(n, t)

(* timerangefilter_visit: a "once" range whose child was inactive is due.  *)
VisitedRange(n, active, t) ==
  IF ~IsFilter(n) \/ ~active THEN range[n]
  ELSE IF Mode(n, t) = "once" /\ ~is_active[children[n][1]]
       THEN [MovedRange(n, t) EXCEPT !.updated = @ \ {CurrentRange(n, t)}]
       ELSE MovedRange(n, t)

VisitSkips ==
  /\ Entering("visit")
  /\ ~Top.active
  /\ ~is_active[Top.node]
  /\ Return
  /\ UNCHANGED <<nodeVars, activity>>

(* Mutant: the last branch visited decides the activity of a shared node.  *)
VisitEnter_LastBranch ==
  LET n == Top.node IN
  /\ Entering("visit")
  /\ Top.active \/ is_active[n]
  /\ is_active' = [is_active EXCEPT ![n] = Top.active]
  /\ visit_time' = [visit_time EXCEPT ![n] = Top.t]
  /\ range' = [range EXCEPT ![n] = VisitedRange(n, Top.active, Top.t)]
  /\ stack' = <<[Top EXCEPT !.next = 1, !.queue = ToQueue(n, Top.t),
                            !.active = ChildActive(n, @, Top.t)]>> \o Tail(stack)
  /\ UNCHANGED <<paramVars, refcount, lifeVars, last_update_time, status, aborted, activity>>

VisitEnter ==
  LET n == Top.node
      queue_node == ToQueue(n, Top.t)
  IN
  /\ Entering("visit")
  /\ Top.active \/ is_active[n]
  /\ is_active' = [is_active EXCEPT ![n] = Top.active \/ (~queue_node /\ @)]
  /\ visit_time' = [visit_time EXCEPT ![n] = Top.t]
  /\ range' = [range EXCEPT ![n] = VisitedRange(n, Top.active, Top.t)]
  /\ stack' = <<[Top EXCEPT !.next = 1, !.queue = queue_node,
                            !.active = ChildActive(n, @, Top.t)]>> \o Tail(stack)
  /\ UNCHANGED <<paramVars, refcount, lifeVars, last_update_time, status, aborted, activity>>

VisitChild ==
  /\ Running("visit")
  /\ CallChild(VisitCall(NextChild, Top.active, Top.t))
  /\ UNCHANGED activity

(* A node is queued after its children, on the list of its own context.    *)
VisitLeave ==
  LET n == Top.node IN
  /\ Leaving("visit")
  /\ activity' = IF Top.queue THEN [activity EXCEPT ![ctx[n]] = Append(@, n)] ELSE activity
  /\ Return
  /\ UNCHANGED nodeVars

(***************************************************************************)
(* ngli_node_honor_release_prefetch, one node of the list at a time        *)
(***************************************************************************)
NodePrefetch(n) ==
  /\ state' = [state EXCEPT ![n] = Ready]
  /\ UNCHANGED <<ctx, ctx_refcount, activityVars>>

NodePrefetchFails(n) ==
  /\ n \in PrefetchMayFail
  /\ state[n] # Ready
  /\ visit_time' = [visit_time EXCEPT ![n] = Unset]
  /\ UNCHANGED <<lifeVars, is_active, last_update_time>>

NodeRelease(n) ==
  /\ state' = [state EXCEPT ![n] = IF @ = Ready THEN Initialized ELSE @]
  /\ last_update_time' = [last_update_time EXCEPT ![n] = IF state[n] = Ready THEN Unset ELSE @]
  /\ UNCHANGED <<ctx, ctx_refcount, is_active, visit_time>>

(* Mutant: inactive nodes are not released.                                *)
HonorNode_Prefetches(n) ==
  /\ IF is_active[n] THEN NodePrefetch(n) ELSE UNCHANGED <<lifeVars, activityVars>>
  /\ UNCHANGED <<paramVars, refcount, range, callVars>>

HonorNode(n) ==
  /\ IF is_active[n] THEN NodePrefetch(n) ELSE NodeRelease(n)
  /\ UNCHANGED <<paramVars, refcount, range, callVars>>

HonorFails(n) ==
  /\ is_active[n]
  /\ NodePrefetchFails(n)
  /\ Fail
  /\ UNCHANGED <<paramVars, refcount, range>>

(***************************************************************************)
(* ngli_node_update                                                        *)
(***************************************************************************)
UpdateCall(n, t) == Call("update", n, NoCtx, TRUE, t)

(* Mutant: a node is updated once only.                                    *)
AlreadyUpdated_Once(n, t) == last_update_time[n] # Unset

AlreadyUpdated(n, t) == last_update_time[n] = t

(* timerangefilter_update, up to the update of the child.                  *)
UpdatedRange(n, t) ==
  LET id == CurrentRange(n, t)
      moved == MovedRange(n, t)
  IN  CASE ~IsFilter(n)          -> range[n]
        [] Mode(n, t) = "noop"   -> [moved EXCEPT !.drawme = FALSE]
        [] Mode(n, t) = "once"   -> [moved EXCEPT !.drawme = id \notin moved.updated,
                                                  !.updated = @ \union {id}]
        [] OTHER                 -> [moved EXCEPT !.drawme = TRUE]

ChildrenUpdated(n, t) ==
  CASE IsSwitch(n) -> enabled[n]
    [] IsFilter(n) -> UpdatedRange(n, t).drawme
    [] OTHER       -> TRUE

(* A "once" range updates its child at its render time.                    *)
ChildTime(n, t) ==
  IF IsFilter(n) /\ Mode(n, t) = "once" THEN Ranges[n][CurrentRange(n, t)].render ELSE t

(* ngli_assert(node->state == STATE_READY) comes first.                    *)
UpdateSkips ==
  /\ Entering("update")
  /\ AlreadyUpdated(Top.node, Top.t)
  /\ IF state[Top.node] # Ready THEN Abort ELSE Return
  /\ UNCHANGED <<nodeVars, activity>>

UpdateEnter ==
  LET n == Top.node IN
  /\ Entering("update")
  /\ ~AlreadyUpdated(n, Top.t)
  /\ IF state[n] # Ready THEN Abort /\ UNCHANGED range
     ELSE /\ range' = [range EXCEPT ![n] = UpdatedRange(n, Top.t)]
          /\ IF ChildrenUpdated(n, Top.t) THEN Descend ELSE SkipChildren
  /\ UNCHANGED <<paramVars, refcount, lifeVars, activityVars, activity>>

UpdateChild ==
  /\ Running("update")
  /\ CallChild(UpdateCall(NextChild, ChildTime(Top.node, Top.t)))
  /\ UNCHANGED activity

UpdateLeave ==
  LET n == Top.node IN
  /\ Leaving("update")
  /\ last_update_time' = [last_update_time EXCEPT ![n] = Top.t]
  /\ Return
  /\ UNCHANGED <<paramVars, refcount, lifeVars, is_active, visit_time, range, activity>>

UpdateFails ==
  /\ Leaving("update")
  /\ Top.node \in UpdateMayFail
  /\ Fail
  /\ UNCHANGED <<nodeVars, activity>>

(***************************************************************************)
(* ngli_node_draw, which checks nothing                                    *)
(***************************************************************************)
DrawCall(n) == Call("draw", n, NoCtx, TRUE, Unset)

ChildrenDrawn(n) ==
  CASE IsSwitch(n) -> enabled[n]
    [] IsFilter(n) -> range[n].drawme
    [] OTHER       -> TRUE

DrawEnter ==
  /\ Entering("draw")
  /\ IF ChildrenDrawn(Top.node) THEN Descend ELSE SkipChildren
  /\ UNCHANGED <<nodeVars, activity>>

DrawChild ==
  /\ Running("draw")
  /\ CallChild(DrawCall(NextChild))
  /\ UNCHANGED activity

DrawLeave == Leaving("draw") /\ Return /\ UNCHANGED <<nodeVars, activity>>

ActivityStep ==
  \/ VisitSkips \/ VisitEnter \/ VisitChild \/ VisitLeave
  \/ UpdateSkips \/ UpdateEnter \/ UpdateChild \/ UpdateLeave \/ UpdateFails
  \/ DrawEnter \/ DrawChild \/ DrawLeave

=============================================================================
