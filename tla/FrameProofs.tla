----------------------------- MODULE FrameProofs -----------------------------
(***************************************************************************)
(* Theorems about the frames of a scene: what a visit activates, what the  *)
(* prefetches that follow it prefetch and release, and what the update and *)
(* the draw find, for every graph and every set of times.                  *)
(***************************************************************************)
EXTENDS ContextProofs

(***************************************************************************)
(* The visit of a frame                                                    *)
(*                                                                         *)
(* In what follows A are the nodes of the scene that the visit has found   *)
(* active so far, and O the nodes that let activity through to their       *)
(* children, if they have any.                                             *)
(***************************************************************************)
VisitBegins == pc = "draw_honor" /\ stack = <<VisitCall(scene[cmd.ctx], TRUE, cmd.t)>>

(* A frame is asked for at a time that no node of the scene was visited at *)
(* before: ngli_node_visit takes a node that bears the time for one that   *)
(* this frame has seen already.                                            *)
VisitsAreNew == VisitBegins => \A n \in Node : InFrame(n) => visit_time[n] # cmd.t

(* An active parent asks for the activity of n.                            *)
Reason(g, A, O, n) == \E r \in References(g, n) : r[1] \in A \intersect O

(* The walk s is about to visit n as an active node, or a call of it on r  *)
(* has yet to visit the i-th child as one.                                 *)
Asked(s, n)   == s # <<>> /\ Head(s).next = 0 /\ Head(s).active /\ Head(s).node = n
Owed(s, r, i) == \E f \in Calls(s) : f.node = r /\ f.active /\ f.next \in 1 .. i

(* The calls below the running one have called a child.                    *)
Calling(g, s) == s # <<>> => \A f \in Calls(Tail(s)) : f.next - 1 \in 1 .. Len(g[f.node])

(* The active calls have been asked for, ask their children in turn, and   *)
(* have activated those they are done with.                                *)
Justified(g, root, s, A, O) ==
  \A f \in Calls(s) : f.active =>
    /\ f.next = 0 => f.node = root \/ Reason(g, A, O, f.node)
    /\ f.next > 0 => f.node \in A \intersect O
    /\ \A i \in 1 .. Len(g[f.node]) : i < f.next => g[f.node][i] \in A \/ Asked(s, g[f.node][i])

(* A node is active for a reason, and what an active node asks for is done *)
(* or still to be done.                                                    *)
Reasoned(g, root, A, O) == \A n \in A : n = root \/ Reason(g, A, O, n)
Heeded(g, s, A, O) ==
  \A r \in A \intersect O : \A i \in 1 .. Len(g[r]) :
    g[r][i] \in A \/ Owed(s, r, i) \/ Asked(s, g[r][i])

Decides(g, root, s, A, O) ==
  Calling(g, s) /\ Justified(g, root, s, A, O) /\ Reasoned(g, root, A, O) /\ Heeded(g, s, A, O)

LEMMA VisitStarts ==
  ASSUME NEW g, NEW root, NEW e \in Frame, e.node = root, e.next = 0, NEW O
  PROVE  Decides(g, root, <<e>>, {}, O)
<1>1. Calls(<<e>>) = {e} /\ Tail(<<e>>) = <<>> /\ Calls(<<>>) = {}
  BY DEF Calls
<1> QED
  BY <1>1 DEF Decides, Calling, Justified, Reasoned, Heeded, Frame

(* Once the visit is done, the active nodes but the root are those that    *)
(* have a reason.                                                          *)
LEMMA VisitEnds ==
  ASSUME NEW g \in [Node -> Seq(Node)], NEW root, NEW A, NEW O, Decides(g, root, <<>>, A, O),
         NEW n \in Node, n # root
  PROVE  n \in A <=> Reason(g, A, O, n)
<1>1. \A r, i : ~Owed(<<>>, r, i) /\ ~Asked(<<>>, r)
  BY DEF Owed, Asked, Calls
<1>2. n \in A => Reason(g, A, O, n)
  BY DEF Decides, Reasoned
<1>3. ASSUME Reason(g, A, O, n)
      PROVE  n \in A
  <2>1. PICK r \in References(g, n) : r[1] \in A \intersect O
    BY <1>3 DEF Reason
  <2>2. PICK p \in Node : \E i \in 1 .. Len(g[p]) : r = <<p, i>> /\ g[p][i] = n
    BY <2>1, ReferenceIsChild
  <2>3. PICK i \in 1 .. Len(g[p]) : r = <<p, i>> /\ g[p][i] = n
    BY <2>2
  <2>4. p \in A \intersect O
    BY <2>1, <2>3
  <2>5. g[p][i] \in A
    BY <1>1, <2>4 DEF Decides, Heeded
  <2> QED
    BY <2>3, <2>5
<1> QED
  BY <1>2, <1>3

(* A call that is done, or skips a node that is not active, changes nothing.*)
LEMMA VisitReturns ==
  ASSUME NEW g \in [Node -> Seq(Node)], NEW root, NEW s \in Seq(Frame), s # <<>>, NEW A, NEW O,
         Decides(g, root, s, A, O),
         \/ Head(s).next = 0 /\ ~Head(s).active
         \/ Head(s).next = Len(g[Head(s).node]) + 1
  PROVE  Decides(g, root, Tail(s), A, O)
<1>1. /\ Head(s) \in Frame /\ Tail(s) \in Seq(Frame) /\ Calls(Tail(s)) \subseteq Calls(s)
      /\ Calls(s) = {Head(s)} \union Calls(Tail(s))
  BY StackTop, CallsBelow
<1>2. Head(s).node \in Node /\ Head(s).next \in Nat /\ Len(g[Head(s).node]) \in Nat
  BY <1>1 DEF Frame
<1>3. \A n : ~Asked(s, n)
  BY <1>2 DEF Asked
<1>4. Calling(g, Tail(s))
  BY <1>1, StackTop DEF Decides, Calling
<1>5. Justified(g, root, Tail(s), A, O)
  BY <1>1, <1>3 DEF Decides, Justified
<1>6. \A r : \A i \in 1 .. Len(g[r]) : Owed(s, r, i) => Owed(Tail(s), r, i)
  <2> SUFFICES ASSUME NEW r, NEW i \in 1 .. Len(g[r]), Owed(s, r, i)
               PROVE  Owed(Tail(s), r, i)
    OBVIOUS
  <2>1. PICK f \in Calls(s) : f.node = r /\ f.active /\ f.next \in 1 .. i
    BY DEF Owed
  <2>2. f # Head(s)
    <3> SUFFICES ASSUME f = Head(s)
                 PROVE  FALSE
      OBVIOUS
    <3>1. Len(g[r]) \in Nat /\ f.next = Len(g[r]) + 1
      BY <1>2, <2>1
    <3> QED
      BY <2>1, <3>1
  <2> QED
    BY <1>1, <2>1, <2>2 DEF Owed
<1>7. Heeded(g, Tail(s), A, O)
  BY <1>3, <1>6 DEF Decides, Heeded
<1> QED
  BY <1>4, <1>5, <1>7 DEF Decides

(* The running call visits its next child as it was asked to.              *)
LEMMA VisitGoesOn ==
  ASSUME NEW g \in [Node -> Seq(Node)], NEW root, NEW s \in Seq(Frame), s # <<>>, NEW A, NEW O,
         Decides(g, root, s, A, O),
         Head(s).next \in 1 .. Len(g[Head(s).node]),
         NEW e \in Frame, e.node = g[Head(s).node][Head(s).next], e.next = 0,
         e.active = Head(s).active,
         NEW h \in Frame, h.node = Head(s).node, h.next = Head(s).next + 1, h.active = Head(s).active
  PROVE  Decides(g, root, <<e, h>> \o Tail(s), A, O)
<1> DEFINE u == <<e, h>> \o Tail(s)
           f == Head(s)
           p == Head(s).node
           k == Head(s).next
<1>1. /\ f \in Frame /\ Calls(s) = {f} \union Calls(Tail(s)) /\ p \in Node
      /\ k \in Nat \ {0} /\ Len(g[p]) \in Nat /\ k <= Len(g[p])
  <2>1. f \in Frame /\ Calls(s) = {f} \union Calls(Tail(s))
    BY StackTop, CallsBelow
  <2>2. p \in Node /\ k \in Nat
    BY <2>1 DEF Frame
  <2>3. Len(g[p]) \in Nat
    BY <2>2
  <2> QED
    BY <2>1, <2>2, <2>3
<1>2. Calls(u) = {e, h} \union Calls(Tail(s)) /\ u # <<>>
  BY CallsOfStack, StackOperations
<1>3. Head(u) = e /\ Tail(u) = <<h>> \o Tail(s)
  <2>1. Tail(s) \in Seq(Frame)
    BY StackTop
  <2> QED
    BY <2>1
<1>4. Calls(Tail(u)) = {h} \union Calls(Tail(s))
  BY <1>3, CallsOfStack
<1>5. \A n : ~Asked(s, n)
  BY <1>1 DEF Asked
<1>6. \A n : Asked(u, n) <=> e.active /\ n = e.node
  BY <1>2, <1>3 DEF Asked
<1>7. Calling(g, u)
  <2>1. h.next - 1 = k
    BY <1>1
  <2>2. h.next - 1 \in 1 .. Len(g[h.node])
    BY <2>1
  <2> HIDE DEF u, f, p, k
  <2> QED
    BY <1>4, <2>2 DEF Decides, Calling
<1>8. Justified(g, root, u, A, O)
  <2> SUFFICES ASSUME NEW l \in Calls(u), l.active
               PROVE  /\ l.next = 0 => l.node = root \/ Reason(g, A, O, l.node)
                      /\ l.next > 0 => l.node \in A \intersect O
                      /\ \A i \in 1 .. Len(g[l.node]) : i < l.next =>
                           g[l.node][i] \in A \/ Asked(u, g[l.node][i])
    BY DEF Justified
  <2>1. CASE l = e
    <3>1. p \in A \intersect O
      BY <1>1, <2>1 DEF Decides, Justified
    <3>2. <<p, k>> \in References(g, e.node)
      BY <1>1, ReferenceIsChild
    <3>3. Reason(g, A, O, e.node)
      BY <3>1, <3>2 DEF Reason
    <3> QED
      BY <2>1, <3>3
  <2>2. CASE l = h
    <3>1. p \in A \intersect O /\ \A i \in 1 .. Len(g[p]) : i < k => g[p][i] \in A
      BY <1>1, <1>5, <2>2 DEF Decides, Justified
    <3>2. Asked(u, g[p][k])
      BY <1>6, <2>2
    <3>3. ASSUME NEW i \in 1 .. Len(g[p]), i < k + 1
          PROVE  i < k \/ i = k
      BY <1>1, <3>3
    <3> QED
      BY <1>1, <2>2, <3>1, <3>2, <3>3, SMTT(30)
  <2>3. CASE l \in Calls(Tail(s))
    BY <1>1, <1>5, <2>3 DEF Decides, Justified
  <2> QED
    BY <1>2, <2>1, <2>2, <2>3
<1>9. Heeded(g, u, A, O)
  <2> SUFFICES ASSUME NEW r \in A \intersect O, NEW i \in 1 .. Len(g[r]),
                      g[r][i] \notin A
               PROVE  Owed(u, r, i) \/ Asked(u, g[r][i])
    BY DEF Heeded
  <2>1. PICK l \in Calls(s) : l.node = r /\ l.active /\ l.next \in 1 .. i
    BY <1>5, ZenonT(60) DEF Decides, Heeded, Owed
  <2>2. CASE l = f /\ k = i
    BY <1>6, <2>1, <2>2
  <2>3. CASE l = f /\ k # i
    <3>1. h.next \in 1 .. i
      <4>1. r = p /\ k \in 1 .. i /\ i \in Nat /\ h.next = k + 1
        BY <1>1, <2>1, <2>3
      <4> HIDE DEF k
      <4> QED
        BY <2>3, <4>1
    <3> QED
      BY <1>2, <2>1, <2>3, <3>1 DEF Owed
  <2>4. CASE l \in Calls(Tail(s))
    BY <1>2, <2>1, <2>4 DEF Owed
  <2> QED
    BY <1>1, <2>1, <2>2, <2>3, <2>4
<1> QED
  BY <1>7, <1>8, <1>9 DEF Decides

(* A node is entered: what lets activity through may change then, at the   *)
(* parents that look at the activity of their one child.                   *)
LEMMA VisitActivates ==
  ASSUME NEW g \in [Node -> Seq(Node)], NEW root, NEW s \in Seq(Frame), s # <<>>,
         NEW A \in SUBSET Node, NEW O, NEW B, NEW Q,
         Decides(g, root, s, A, O), Head(s).next = 0,
         B = A \union (IF Head(s).active THEN {Head(s).node} ELSE {}),
         \A r \in Q \ O : \A i \in 1 .. Len(g[r]) : g[r][i] \in B,
         \A r \in O \ Q : /\ \A i \in 1 .. Len(g[r]) : g[r][i] = Head(s).node
                          /\ Head(s).node \notin B,
         NEW h \in Frame, h.node = Head(s).node, h.next = 1,
         h.active => Head(s).active /\ Head(s).node \in O,
         Head(s).active /\ Head(s).node \in O /\ g[Head(s).node] # <<>> => h.active
  PROVE  Decides(g, root, <<h>> \o Tail(s), B, Q)
<1> DEFINE u == <<h>> \o Tail(s)
           n == Head(s).node
<1>1. /\ Head(s) \in Frame /\ Calls(s) = {Head(s)} \union Calls(Tail(s)) /\ n \in Node
  BY StackTop, CallsBelow DEF Frame
<1>2. Calls(u) = {h} \union Calls(Tail(s)) /\ u # <<>> /\ Head(u) = h /\ Tail(u) = Tail(s)
  <2>1. Tail(s) \in Seq(Frame)
    BY StackTop
  <2> QED
    BY <2>1, CallsOfStack, StackOperations
<1>3. \A m : ~Asked(u, m)
  BY <1>2 DEF Asked
<1>4. A \subseteq B /\ \A m : Asked(s, m) => m \in B
  BY DEF Asked
<1>5. ASSUME NEW f \in Calls(Tail(s))
      PROVE  /\ f.next - 1 \in 1 .. Len(g[f.node]) /\ f.next \in Nat
             /\ f.next > 1 /\ f.next # 0 /\ f.next - 1 < f.next
  <2>1. f \in Frame
    <3>1. Tail(s) \in Seq(Frame)
      BY StackTop
    <3> QED
      BY <3>1 DEF Calls
  <2>2. f.next \in Nat /\ f.node \in Node
    BY <2>1 DEF Frame
  <2>3. f.next - 1 \in 1 .. Len(g[f.node]) /\ Len(g[f.node]) \in Nat
    BY <2>2 DEF Decides, Calling
  <2> QED
    BY <2>2, <2>3
<1>6. Calling(g, u)
  BY <1>2, <1>5 DEF Calling
(* A node is not left without its reason.                                  *)
<1>7. ASSUME NEW m \in Node, m \in B, Reason(g, A, O, m)
      PROVE  Reason(g, B, Q, m)
  <2>1. PICK r \in References(g, m) : r[1] \in A \intersect O
    BY <1>7 DEF Reason
  <2>2. PICK p \in Node : \E i \in 1 .. Len(g[p]) : r = <<p, i>> /\ g[p][i] = m
    BY <2>1, ReferenceIsChild
  <2>3. p \in Q
    BY <1>7, <2>1, <2>2
  <2> QED
    BY <1>4, <2>1, <2>2, <2>3 DEF Reason
<1>8. Justified(g, root, u, B, Q)
  <2> SUFFICES ASSUME NEW f \in Calls(u), f.active
               PROVE  /\ f.next = 0 => f.node = root \/ Reason(g, B, Q, f.node)
                      /\ f.next > 0 => f.node \in B \intersect Q
                      /\ \A i \in 1 .. Len(g[f.node]) : i < f.next => g[f.node][i] \in B
    BY DEF Justified
  <2>1. CASE f = h
    <3>1. n \in B /\ n \in O
      BY <2>1
    <3>2. n \in Q
      BY <3>1
    <3>3. \A i \in Nat \ {0} : ~(i < h.next)
      OBVIOUS
    <3>4. \A i \in 1 .. Len(g[n]) : i \in Nat \ {0}
      BY <1>1
    <3> QED
      BY <2>1, <3>1, <3>2, <3>3, <3>4
  <2>2. CASE f \in Calls(Tail(s))
    <3>1. /\ f.node \in A \intersect O
          /\ \A i \in 1 .. Len(g[f.node]) : i < f.next => g[f.node][i] \in B
      <4>1. f \in Calls(s) /\ f.next > 0
        BY <1>1, <1>5, <2>2
      <4>2. /\ f.node \in A \intersect O
            /\ \A i \in 1 .. Len(g[f.node]) : i < f.next => g[f.node][i] \in A \/ Asked(s, g[f.node][i])
        BY <4>1 DEF Decides, Justified
      <4> QED
        BY <1>4, <4>2
    <3>2. f.node \in Q
      <4> SUFFICES ASSUME f.node \notin Q
                   PROVE  FALSE
        OBVIOUS
      <4>1. /\ \A i \in 1 .. Len(g[f.node]) : g[f.node][i] = n
            /\ n \notin B
        BY <3>1
      <4>2. f.next - 1 \in 1 .. Len(g[f.node]) /\ f.next - 1 < f.next
        BY <1>5, <2>2
      <4> QED
        BY <3>1, <4>1, <4>2
    <3> QED
      BY <1>4, <1>5, <2>2, <3>1, <3>2
  <2> QED
    BY <1>2, <2>1, <2>2
<1>9. Reasoned(g, root, B, Q)
  <2> SUFFICES ASSUME NEW m \in B, m # root
               PROVE  Reason(g, B, Q, m)
    BY DEF Reasoned
  <2>1. Reason(g, A, O, m)
    <3>1. CASE m \in A
      BY <3>1 DEF Decides, Reasoned
    <3>2. CASE m \notin A
      <4>1. Head(s).active /\ m = n
        BY <3>2
      <4> QED
        BY <1>1, <4>1 DEF Decides, Justified
    <3> QED
      BY <3>1, <3>2
  <2>2. m \in Node
    BY <1>1
  <2> QED
    BY <1>7, <2>1, <2>2
<1>10. Heeded(g, u, B, Q)
  <2> SUFFICES ASSUME NEW r \in B \intersect Q, NEW i \in 1 .. Len(g[r]), g[r][i] \notin B
               PROVE  Owed(u, r, i)
    BY DEF Heeded
  <2>1. r \in O
    OBVIOUS
  <2>2. CASE r \in A
    <3>1. Owed(s, r, i)
      BY <1>4, <2>1, <2>2 DEF Decides, Heeded
    <3>2. PICK f \in Calls(s) : f.node = r /\ f.active /\ f.next \in 1 .. i
      BY <3>1 DEF Owed
    <3>3. f \in Calls(Tail(s))
      BY <1>1, <3>2
    <3> QED
      BY <1>2, <3>2, <3>3 DEF Owed
  <2>3. CASE r \notin A
    <3>1. r = n /\ h.active /\ h.node = r
      <4>1. r = n /\ Head(s).active /\ Len(g[n]) # 0
        BY <1>1, <2>3
      <4> QED
        BY <2>1, <4>1
    <3>2. h.next \in 1 .. i
      OBVIOUS
    <3> QED
      BY <1>2, <3>1, <3>2 DEF Owed
  <2> QED
    BY <2>2, <2>3
<1> QED
  BY <1>6, <1>8, <1>9, <1>10 DEF Decides

(* The current range is the last one that has started, wherever the search *)
(* for it begins.                                                          *)
LEMMA RangeIsLast ==
  ASSUME NEW n \in Node, NEW here \in Nat \ {0}, NEW t \in Int
  PROVE  RangeAt(n, here, t) \in {0, RangeAt(n, 1, t)}
<1> DEFINE N == Len(Ranges[n])
           start(i) == Ranges[n][i].start
           from(k) == {i \in k .. N : \A j \in k .. i : Ranges[n][j].start <= t}
           last(i, S) == i \in S /\ \A j \in S : j <= i
<1>1. /\ N \in Nat /\ DOMAIN Ranges[n] = 1 .. N
      /\ \A i \in 1 .. N : start(i) \in Int
      /\ \A i, j \in 1 .. N : i <= j => start(i) <= start(j)
  <2>1. Ranges[n] \in Seq([mode : {"cont", "noop", "once"}, start : Int, render : Time])
    BY ActivityAssumption
  <2>2. N \in Nat /\ DOMAIN Ranges[n] = 1 .. N
    BY <2>1
  <2>3. \A i \in 1 .. N : Ranges[n][i] \in [mode : {"cont", "noop", "once"}, start : Int, render : Time]
    BY <2>1, ElementOfSeq
  <2> QED
    BY <2>2, <2>3, ActivityAssumption
<1>2. \A i \in from(here) : i \in from(1)
  <2> SUFFICES ASSUME NEW i \in from(here), NEW j \in 1 .. i
               PROVE  i \in 1 .. N /\ start(j) <= t
    OBVIOUS
  <2>1. i \in 1 .. N /\ j \in 1 .. N /\ j <= i /\ i \in here .. i
    BY <1>1
  <2>2. start(i) <= t /\ start(j) <= start(i)
    BY <1>1, <2>1
  <2> QED
    BY <1>1, <2>1, <2>2
<1>3. \A i \in from(1) : i \in here .. N => i \in from(here)
  <2> SUFFICES ASSUME NEW i \in from(1), i \in here .. N, NEW j \in here .. i
               PROVE  start(j) <= t
    OBVIOUS
  <2>1. j \in 1 .. i
    BY <1>1
  <2> QED
    BY <2>1
<1>4. \A k \in Nat \ {0} : from(k) \in SUBSET (k .. N)
  OBVIOUS
<1>5. \A k \in Nat \ {0} : RangeAt(n, k, t) = IF from(k) = {} THEN 0 ELSE CHOOSE i \in from(k) : \A j \in from(k) : j <= i
  BY DEF RangeAt
<1> HIDE DEF from, N, start
<1>6. CASE from(here) = {}
  BY <1>5, <1>6
<1>7. CASE from(here) # {}
  <2> DEFINE S == from(here)
             R == from(1)
  <2>1. PICK a \in S : \A j \in S : j <= a
    <3>1. S \in SUBSET (here .. N) /\ here \in Int /\ N \in Int
      BY <1>1, <1>4
    <3> HIDE DEF S
    <3> QED
      BY <1>7, <3>1, GreatestExists DEF S
  <2>2. a \in R /\ \A j \in R : j <= a
    <3>1. a \in R /\ a \in here .. N /\ R \subseteq 1 .. N
      BY <1>2, <1>4
    <3>2. ASSUME NEW j \in R
          PROVE  j <= a
      <4>1. CASE j \in here .. N
        BY <1>3, <2>1, <4>1
      <4>2. CASE j \notin here .. N
        BY <1>1, <3>1, <4>2
      <4> QED
        BY <4>1, <4>2
    <3> QED
      BY <3>1, <3>2
  <2>3. ASSUME NEW T \in SUBSET Int, a \in T, \A j \in T : j <= a
        PROVE  (CHOOSE i \in T : \A j \in T : j <= i) = a
    <3> DEFINE b == CHOOSE i \in T : \A j \in T : j <= i
    <3>1. b \in T /\ \A j \in T : j <= b
      BY <2>3
    <3> HIDE DEF b
    <3>2. b <= a /\ a <= b /\ a \in Int /\ b \in Int
      BY <2>3, <3>1
    <3>3. a = b
      BY <3>2
    <3> QED
      BY <3>3 DEF b
  <2>4. S \in SUBSET Int /\ R \in SUBSET Int
    BY <1>1, <1>4
  <2>5. RangeAt(n, here, t) = a /\ RangeAt(n, 1, t) = a
    BY <1>5, <1>7, <2>1, <2>2, <2>3, <2>4
  <2> QED
    BY <2>5
<1> QED
  BY <1>6, <1>7

LEMMA CurrentIsLast ==
  ASSUME TypeOK, NEW n \in Node, NEW t \in Int
  PROVE  CurrentRange(n, t) = RangeAt(n, 1, t)
<1>1. range[n].current \in Nat \ {0}
  BY DEF TypeOK, RangeData
<1> QED
  BY <1>1, RangeIsLast DEF CurrentRange

(* The nodes of the scene that are active, and those that let activity     *)
(* through.                                                                *)
ActiveNodes == {n \in Node : InFrame(n) /\ ActiveNow(n)}
OpenNodes   == {n \in Node : children[n] = <<>> \/ ChildActive(n, TRUE, cmd.t)}

(* A visit changes what lets activity through at the filters alone, and    *)
(* there by the activity of their child alone.                             *)
LEMMA ActivityOpens ==
  ASSUME TypeOK, TypeOK', UNCHANGED <<children, enabled>>, NEW t \in Int, NEW r \in Node,
         ~IsFilter(r) \/ is_active'[children[r][1]] = is_active[children[r][1]]
  PROVE  ChildActive(r, TRUE, t)' <=> ChildActive(r, TRUE, t)
<1>1. CASE ~IsFilter(r)
  BY <1>1 DEF ChildActive
<1>2. CASE IsFilter(r)
  <2>1. CurrentRange(r, t) = RangeAt(r, 1, t)
    BY CurrentIsLast
  <2>2. CurrentRange(r, t)' = RangeAt(r, 1, t)
    <3>1. range'[r].current \in Nat \ {0}
      BY DEF TypeOK, RangeData
    <3> QED
      BY <3>1, RangeIsLast DEF CurrentRange
  <2>3. Mode(r, t)' = Mode(r, t)
    BY <2>1, <2>2 DEF Mode
  <2>4. NeededSoon(r, t)' <=> NeededSoon(r, t)
    BY <1>2, <2>1, <2>2 DEF NeededSoon
  <2>5. ~IsSwitch(r)
    BY <1>2 DEF IsSwitch, IsFilter
  <2> QED
    BY <1>2, <2>3, <2>4, <2>5 DEF ChildActive
<1> QED
  BY <1>1, <1>2

(* What a filter lets through grows with the activity of its child.        *)
LEMMA ActivityGrows ==
  ASSUME TypeOK, TypeOK', UNCHANGED <<children, enabled>>, NEW t \in Int, NEW r \in Node, IsFilter(r),
         is_active[children[r][1]] => is_active'[children[r][1]]
  PROVE  ChildActive(r, TRUE, t) => ChildActive(r, TRUE, t)'
<1>1. CurrentRange(r, t) = RangeAt(r, 1, t)
  BY CurrentIsLast
<1>2. CurrentRange(r, t)' = RangeAt(r, 1, t)
  <2>1. range'[r].current \in Nat \ {0}
    BY DEF TypeOK, RangeData
  <2> QED
    BY <2>1, RangeIsLast DEF CurrentRange
<1>3. Mode(r, t)' = Mode(r, t)
  BY <1>1, <1>2 DEF Mode
<1>4. NeededSoon(r, t) => NeededSoon(r, t)'
  BY <1>1, <1>2 DEF NeededSoon
<1>5. ~IsSwitch(r)
  BY DEF IsSwitch, IsFilter
<1> QED
  BY <1>3, <1>4, <1>5 DEF ChildActive

LEMMA ActivityShrinks ==
  ASSUME TypeOK, TypeOK', UNCHANGED <<children, enabled>>, NEW t \in Int, NEW r \in Node, IsFilter(r),
         is_active'[children[r][1]] => is_active[children[r][1]]
  PROVE  ChildActive(r, TRUE, t)' => ChildActive(r, TRUE, t)
<1>1. CurrentRange(r, t) = RangeAt(r, 1, t)
  BY CurrentIsLast
<1>2. CurrentRange(r, t)' = RangeAt(r, 1, t)
  <2>1. range'[r].current \in Nat \ {0}
    BY DEF TypeOK, RangeData
  <2> QED
    BY <2>1, RangeIsLast DEF CurrentRange
<1>3. Mode(r, t)' = Mode(r, t)
  BY <1>1, <1>2 DEF Mode
<1>4. NeededSoon(r, t)' => NeededSoon(r, t)
  BY <1>1, <1>2 DEF NeededSoon
<1>5. ~IsSwitch(r)
  BY DEF IsSwitch, IsFilter
<1> QED
  BY <1>3, <1>4, <1>5 DEF ChildActive

(* A TimeRangeFilter has one child, as long as it lives.                   *)
OneChild == \A n \in Node : IsFilter(n) => Len(children[n]) \in {0, 1}

LEMMA OneChildPreserved == TypeOK /\ OneChild /\ [Next]_vars => OneChild'
<1> SUFFICES ASSUME TypeOK, OneChild, [Next]_vars
             PROVE  OneChild'
  OBVIOUS
<1>1. CASE UNCHANGED children
  BY <1>1 DEF OneChild
<1>2. ASSUME NEW n \in Node, NEW child \in Node, AddChild(n, child)
      PROVE  OneChild'
  <2>1. ~IsFilter(n) /\ \A m \in Node \ {n} : children'[m] = children[m]
    BY <1>2 DEF AddChild, IsFilter, TypeOK
  <2> QED
    BY <2>1 DEF OneChild
<1>3. CASE UnrefLeave
  <2>1. \A m \in Node : children'[m] \in {children[m], <<>>}
    BY <1>3 DEF UnrefLeave, TypeOK
  <2> QED
    BY <2>1 DEF OneChild
<1>4. CASE UNCHANGED vars
  BY <1>1, <1>4 DEF vars, nodeVars, paramVars
<1>5. CASE Client /\ ~(\E n, child \in Node : AddChild(n, child))
  <2>1. UNCHANGED children
    BY <1>5 DEF Client, Create, Configure, SetScene, Draw, Free, NodeUnref, Toggle,
       nodesUnchanged, nodeVars, paramVars
  <2> QED
    BY <1>1, <2>1
<1>6. CASE Command
  <2>1. UNCHANGED children
    BY <1>6 DEF Command, BackendConfigured, BackendFails, SceneReattached, UnrefScene, AttachScene,
       SceneAttached, SceneRefused, HonorNext, UpdateScene, DrawScene, FreeContext, HonorNode,
       HonorFails, nodesUnchanged, nodeVars, paramVars
  <2> QED
    BY <1>1, <2>1
<1>7. CASE GraphWalk /\ ~UnrefLeave
  <2>1. UNCHANGED children
    BY <1>7 DEF GraphWalk, GraphStep, AttachEnter, AttachChild, AttachSucceeds, AttachFails,
       DetachSkipsOther, DetachEnter, DetachEnterUninit, DetachChild, DetachLeave, UnrefEnter,
       UnrefChild, CallChild, nodeVars, paramVars
  <2> QED
    BY <1>1, <2>1
<1>8. CASE ActivityWalk
  <2>1. UNCHANGED children
    BY <1>8 DEF ActivityWalk, ActivityStep, VisitSkips, VisitEnter, VisitChild, VisitLeave,
       UpdateSkips, UpdateEnter, UpdateChild, UpdateLeave, UpdateFails, DrawEnter, DrawChild,
       DrawLeave, CallChild, nodeVars, paramVars
  <2> QED
    BY <1>1, <2>1
<1> QED
  BY <1>2, <1>3, <1>4, <1>5, <1>6, <1>7, <1>8 DEF Next

LEMMA OneChildInitially == Init => OneChild
  BY ContextAssumption DEF Init, OneChild, IsFilter

Visiting ==
  pc = "draw_honor" =>
    /\ \A f \in Calls(stack) : f.fn = "visit" /\ f.t = cmd.t
    /\ Decides(children, scene[cmd.ctx], stack, ActiveNodes, OpenNodes)

(* Where the nodes and the command stay as they are, so does what the      *)
(* visit has decided.                                                      *)
LEMMA DecisionsStay ==
  UNCHANGED <<children, enabled, ctx, is_active, visit_time, range, cmd>> =>
    UNCHANGED <<ActiveNodes, OpenNodes>>
<1> SUFFICES ASSUME UNCHANGED <<children, enabled, ctx, is_active, visit_time, range, cmd>>
             PROVE  ActiveNodes' = ActiveNodes /\ OpenNodes' = OpenNodes
  OBVIOUS
<1>1. ActiveNodes' = ActiveNodes
  BY DEF ActiveNodes, InFrame, ActiveNow
<1>2. \A n : CurrentRange(n, cmd.t)' = CurrentRange(n, cmd.t)
  BY DEF CurrentRange
<1>3. \A n : ChildActive(n, TRUE, cmd.t)' = ChildActive(n, TRUE, cmd.t)
  BY <1>2 DEF ChildActive, Mode, NeededSoon
<1> QED
  BY <1>1, <1>3 DEF OpenNodes

(* The node that is entered is active if the visit asks for it, and is     *)
(* left as it was if the visit of another branch has asked for it already. *)
LEMMA NodeEntered ==
  ASSUME Invariant, Tracked, Visiting, pc = "draw_honor", VisitEnter, UNCHANGED cmd
  PROVE  /\ Top \in Calls(stack) /\ Top.node \in Node /\ Top.t = cmd.t /\ ctx[Top.node] = cmd.ctx
         /\ ActiveNodes' = ActiveNodes \union (IF Top.active THEN {Top.node} ELSE {})
<1> USE DEF Invariant
<1> DEFINE n == Top.node
<1>1. /\ stack # <<>> /\ stack \in Seq(Frame) /\ Top.fn = "visit" /\ UNCHANGED ctx
      /\ is_active' = [is_active EXCEPT ![n] = Top.active \/ (~ToQueue(n, Top.t) /\ @)]
      /\ visit_time' = [visit_time EXCEPT ![n] = Top.t]
      /\ is_active \in [Node -> BOOLEAN] /\ visit_time \in [Node -> Time \union {Unset}]
  BY DEF VisitEnter, Entering, Running, lifeVars, TypeOK
<1>2. /\ Top \in Frame /\ Top \in Calls(stack) /\ n \in Node /\ Top.active \in BOOLEAN
  BY <1>1, RunningCall
<1>3. Top.t = cmd.t /\ ctx[n] = cmd.ctx
  BY <1>1, <1>2 DEF Visiting, Tracked
<1>4. PICK t : t = cmd.t /\ t = cmd'.t
  OBVIOUS
<1>5. ActiveNodes' = ActiveNodes \union (IF Top.active THEN {n} ELSE {})
  <2>1. \A m \in Node \ {n} : is_active'[m] = is_active[m] /\ visit_time'[m] = visit_time[m]
    BY <1>1, <1>2
  <2>2. visit_time'[n] = t
    BY <1>1, <1>2, <1>3, <1>4
  <2>3. is_active'[n] <=> Top.active \/ (visit_time[n] = t /\ is_active[n])
    BY <1>1, <1>2, <1>3, <1>4, ZenonT(30) DEF ToQueue
  <2>4. \A m \in Node : m \in ActiveNodes <=> ctx[m] = cmd.ctx /\ is_active[m] /\ visit_time[m] = t
    BY <1>4 DEF ActiveNodes, InFrame, ActiveNow
  <2>5. \A m \in Node : m \in ActiveNodes' <=> ctx[m] = cmd.ctx /\ is_active'[m] /\ visit_time'[m] = t
    BY <1>1, <1>4 DEF ActiveNodes, InFrame, ActiveNow
  <2>6. ActiveNodes \subseteq Node /\ ActiveNodes' \subseteq Node
    BY DEF ActiveNodes
  <2> QED
    BY <1>2, <1>3, <2>1, <2>2, <2>3, <2>4, <2>5, <2>6
<1> QED
  BY <1>2, <1>3, <1>5

LEMMA VisitEntered ==
  ASSUME Invariant, Invariant', Tracked, OneChild, Visiting, pc = "draw_honor", VisitEnter,
         UNCHANGED <<scene, pc, cmd>>
  PROVE  Visiting'
<1> USE DEF Invariant
<1> DEFINE n == Top.node
           h == [Top EXCEPT !.next = 1, !.queue = ToQueue(n, Top.t),
                            !.active = ChildActive(n, @, Top.t)]
<1>1. /\ stack # <<>> /\ stack \in Seq(Frame) /\ Top = Head(stack) /\ Top.fn = "visit" /\ Top.next = 0
      /\ UNCHANGED <<children, enabled, ctx>>
      /\ is_active' = [is_active EXCEPT ![n] = Top.active \/ (~ToQueue(n, Top.t) /\ @)]
      /\ visit_time' = [visit_time EXCEPT ![n] = Top.t]
      /\ stack' = <<h>> \o Tail(stack)
      /\ is_active \in [Node -> BOOLEAN] /\ children \in [Node -> Seq(Node)]
      /\ visit_time \in [Node -> Time \union {Unset}]
  BY DEF VisitEnter, Entering, Running, paramVars, lifeVars, TypeOK, Top
<1>2. /\ Top \in Frame /\ Top \in Calls(stack) /\ n \in Node /\ Top.active \in BOOLEAN
  BY <1>1, RunningCall
<1>3. /\ \A f \in Calls(stack) : f.fn = "visit" /\ f.t = cmd.t
      /\ Decides(children, scene[cmd.ctx], stack, ActiveNodes, OpenNodes)
      /\ Top.t = cmd.t /\ ctx[n] = cmd.ctx
  BY <1>1, <1>2 DEF Visiting, Tracked
<1>4. PICK t \in Int : t = cmd.t /\ t = cmd'.t
  <2>1. cmd \in CmdData /\ cmd' = cmd
    BY DEF TypeOK
  <2>2. cmd.t \in Time \union {Unset} /\ Unset \in Int
    BY <2>1 DEF CmdData, Unset
  <2>3. cmd.t \in Int
    BY <2>2, NodeAssumption
  <2> QED
    BY <2>1, <2>3
<1>5. ActiveNodes' = ActiveNodes \union (IF Top.active THEN {n} ELSE {})
  BY NodeEntered
<1>6. \A r \in Node : r \in OpenNodes <=> children[r] = <<>> \/ ChildActive(r, TRUE, t)
  BY <1>4 DEF OpenNodes
<1>7. \A r \in Node : r \in OpenNodes' <=> children[r] = <<>> \/ ChildActive(r, TRUE, t)'
  BY <1>1, <1>4 DEF OpenNodes
<1>8. OpenNodes \subseteq Node /\ OpenNodes' \subseteq Node /\ ActiveNodes \subseteq Node
  BY DEF OpenNodes, ActiveNodes
(* What changes there is at the parents of the node that is entered.       *)
<1>9. ASSUME NEW r \in Node, ~(r \in OpenNodes <=> r \in OpenNodes')
      PROVE  /\ IsFilter(r) /\ \A i \in 1 .. Len(children[r]) : children[r][i] = n
             /\ children[r][1] = n
             /\ is_active'[n] # is_active[n]
             /\ r \in OpenNodes' => is_active'[n]
             /\ r \in OpenNodes => is_active[n]
  <2>1. IsFilter(r) /\ is_active'[children[r][1]] # is_active[children[r][1]]
    <3> SUFFICES ASSUME ~IsFilter(r) \/ is_active'[children[r][1]] = is_active[children[r][1]]
                 PROVE  FALSE
      OBVIOUS
    <3>1. ChildActive(r, TRUE, t)' <=> ChildActive(r, TRUE, t)
      BY <1>1, ActivityOpens
    <3> QED
      BY <1>6, <1>7, <1>9, <3>1
  <2>2. children[r] # <<>> /\ children[r] \in Seq(Node) /\ Len(children[r]) = 1
    <3>1. children[r] # <<>>
      BY <1>6, <1>7, <1>9
    <3>2. Len(children[r]) \in {0, 1} /\ children[r] \in Seq(Node)
      BY <1>1, <2>1 DEF OneChild
    <3> QED
      BY <3>1, <3>2, EmptySeq
  <2>3. children[r][1] \in Node
    BY <2>2, ElementOfSeq
  <2>4. children[r][1] = n
    BY <1>1, <1>2, <2>1, <2>3
  <2>5. \A i \in 1 .. Len(children[r]) : children[r][i] = n
    BY <2>2, <2>4
  <2>6. r \in OpenNodes' => is_active'[n]
    <3> SUFFICES ASSUME r \in OpenNodes', ~is_active'[n]
                 PROVE  FALSE
      OBVIOUS
    <3>1. ChildActive(r, TRUE, t)' => ChildActive(r, TRUE, t)
      BY <1>1, <2>1, <2>4, ActivityShrinks
    <3> QED
      BY <1>6, <1>7, <1>9, <3>1
  <2>7. r \in OpenNodes => is_active[n]
    <3> SUFFICES ASSUME r \in OpenNodes, ~is_active[n]
                 PROVE  FALSE
      OBVIOUS
    <3>1. ChildActive(r, TRUE, t) => ChildActive(r, TRUE, t)'
      BY <1>1, <2>1, <2>4, ActivityGrows
    <3> QED
      BY <1>6, <1>7, <1>9, <3>1
  <2> QED
    BY <2>1, <2>4, <2>5, <2>6, <2>7
<1>10. ASSUME NEW r \in OpenNodes' \ OpenNodes
       PROVE  \A i \in 1 .. Len(children[r]) : children[r][i] \in ActiveNodes'
  <2>1. is_active'[n] /\ ~is_active[n] /\ \A i \in 1 .. Len(children[r]) : children[r][i] = n
    <3>1. r \in Node
      BY <1>8
    <3> QED
      BY <1>1, <1>2, <1>9, <3>1
  <2>2. Top.active
    BY <1>1, <1>2, <2>1
  <2> QED
    BY <1>5, <2>1, <2>2
<1>11. ASSUME NEW r \in OpenNodes \ OpenNodes'
       PROVE  /\ \A i \in 1 .. Len(children[r]) : children[r][i] = n
              /\ n \notin ActiveNodes'
  <2>1. /\ is_active[n] /\ is_active'[n] # is_active[n]
        /\ \A i \in 1 .. Len(children[r]) : children[r][i] = n
    <3>1. r \in Node
      BY <1>8
    <3> QED
      BY <1>9, <3>1
  <2>2. n \notin ActiveNodes'
    <3>1. ~is_active'[n]
      BY <1>1, <1>2, <2>1
    <3> QED
      BY <3>1 DEF ActiveNodes, ActiveNow
  <2> QED
    BY <2>1, <2>2
<1>12. /\ h \in Frame /\ h.node = n /\ h.next = 1 /\ h.fn = "visit" /\ h.t = cmd.t
       /\ h.active = ChildActive(n, Top.active, Top.t)
  <2>1. ChildActive(n, Top.active, Top.t) \in BOOLEAN /\ ToQueue(n, Top.t) \in BOOLEAN
    BY <1>2 DEF ChildActive, ToQueue, TypeOK
  <2> QED
    BY <1>2, <1>3, <2>1 DEF Frame
<1>13. Decides(children, scene[cmd.ctx], <<h>> \o Tail(stack), ActiveNodes', OpenNodes')
  <2>1. h.active <=> Top.active /\ ChildActive(n, TRUE, t)
    <3>1. h.active <=> ChildActive(n, Top.active, t)
      BY <1>3, <1>4, <1>12
    <3>2. ChildActive(n, Top.active, t) <=> Top.active /\ ChildActive(n, TRUE, t)
      BY <1>2 DEF ChildActive
    <3> QED
      BY <3>1, <3>2
  <2>2. /\ h.active => Top.active /\ n \in OpenNodes
        /\ Top.active /\ n \in OpenNodes /\ children[n] # <<>> => h.active
    BY <1>2, <1>6, <2>1
  <2> DEFINE B == ActiveNodes'
             Q == OpenNodes'
             f == Head(stack)
  <2>3. /\ f.next = 0 /\ B = ActiveNodes \union (IF f.active THEN {f.node} ELSE {})
        /\ h.node = f.node
        /\ h.active => f.active /\ f.node \in OpenNodes
        /\ f.active /\ f.node \in OpenNodes /\ children[f.node] # <<>> => h.active
    <3> HIDE DEF h
    <3> QED
      BY <1>1, <1>5, <1>12, <2>2
  <2>4. \A r \in OpenNodes \ Q : /\ \A i \in 1 .. Len(children[r]) : children[r][i] = f.node
                                 /\ f.node \notin B
    BY <1>1, <1>11
  <2>5. /\ h \in Frame /\ h.next = 1 /\ stack \in Seq(Frame) /\ stack # <<>>
        /\ children \in [Node -> Seq(Node)] /\ ActiveNodes \in SUBSET Node
        /\ Decides(children, scene[cmd.ctx], stack, ActiveNodes, OpenNodes)
        /\ \A r \in Q \ OpenNodes : \A i \in 1 .. Len(children[r]) : children[r][i] \in B
    BY <1>1, <1>3, <1>8, <1>10, <1>12
  <2> HIDE DEF h, f, B, Q
  <2> QED
    BY <2>3, <2>4, <2>5, VisitActivates, ZenonT(60) DEF f, B, Q
<1>14. \A f \in Calls(stack') : f.fn = "visit" /\ f.t = cmd.t
  <2> HIDE DEF h
  <2>1. Calls(stack') \subseteq {h} \union Calls(stack)
    BY <1>1, <1>2, <1>12, StackOperations
  <2> QED
    BY <1>3, <1>12, <2>1
<1> QED
  BY <1>1, <1>13, <1>14 DEF Visiting

LEMMA VisitWalks ==
  ASSUME Invariant, Invariant', Tracked, OneChild, Visiting, pc = "draw_honor", ActivityWalk
  PROVE  Visiting'
<1> USE DEF Invariant
<1>1. /\ stack # <<>> /\ stack \in Seq(Frame) /\ Top = Head(stack)
      /\ UNCHANGED <<scene, pc, cmd>> /\ children \in [Node -> Seq(Node)]
  BY WalkGoes DEF TypeOK, Top
<1>2. /\ Top \in Frame /\ Top \in Calls(stack) /\ Top.node \in Node /\ Top.active \in BOOLEAN
      /\ Top.next \in 1 .. Len(children[Top.node]) => NextChild \in Node
      /\ Top.t \in Time \union {Unset}
  BY <1>1, RunningCall
<1>3. /\ \A f \in Calls(stack) : f.fn = "visit" /\ f.t = cmd.t
      /\ Decides(children, scene[cmd.ctx], stack, ActiveNodes, OpenNodes)
      /\ Top.fn = "visit"
  BY <1>2 DEF Visiting
<1>4. ASSUME UNCHANGED nodeVars, stack' \in Seq(Frame),
             \A f \in Calls(stack') : f.fn = "visit" /\ f.t = cmd.t,
             Decides(children, scene[cmd.ctx], stack', ActiveNodes, OpenNodes)
      PROVE  Visiting'
  <2>1. UNCHANGED <<children, ActiveNodes, OpenNodes>>
    BY <1>1, <1>4, DecisionsStay DEF nodeVars, paramVars, lifeVars, activityVars
  <2> QED
    BY <1>1, <1>4, <2>1 DEF Visiting
<1>5. CASE VisitEnter
  BY <1>1, <1>5, VisitEntered
<1>6. CASE VisitSkips \/ VisitLeave
  <2>1. /\ stack' = Tail(stack) /\ UNCHANGED nodeVars
        /\ \/ Head(stack).next = 0 /\ ~Head(stack).active
           \/ Head(stack).next = Len(children[Head(stack).node]) + 1
    BY <1>1, <1>6 DEF VisitSkips, VisitLeave, Entering, Leaving, Running, Return
  <2>2. Decides(children, scene[cmd.ctx], stack', ActiveNodes, OpenNodes)
    BY <1>1, <1>3, <2>1, VisitReturns
  <2>3. stack' \in Seq(Frame) /\ Calls(stack') \subseteq Calls(stack)
    BY <1>1, <2>1, StackTop
  <2> QED
    BY <1>3, <1>4, <2>1, <2>2, <2>3
<1>7. CASE VisitChild
  <2> DEFINE e == VisitCall(NextChild, Top.active, Top.t)
             h == [Top EXCEPT !.next = @ + 1]
  <2>1. /\ Top.next \in 1 .. Len(children[Top.node]) /\ stack' = <<e, h>> \o Tail(stack)
        /\ UNCHANGED nodeVars
    BY <1>7 DEF VisitChild, CallChild
  <2>2. /\ e \in Frame /\ e.node = NextChild /\ e.next = 0 /\ e.active = Top.active
        /\ e.fn = "visit" /\ e.t = Top.t
    BY <1>1, <1>2, <2>1, CallType, ZenonT(60) DEF VisitCall, Call
  <2>3. /\ h \in Frame /\ h.node = Top.node /\ h.next = Top.next + 1 /\ h.active = Top.active
        /\ h.fn = "visit" /\ h.t = Top.t
    BY <1>2, <1>3 DEF Frame
  <2> HIDE DEF e, h
  <2>4. Decides(children, scene[cmd.ctx], stack', ActiveNodes, OpenNodes)
    BY <1>1, <1>3, <2>1, <2>2, <2>3, VisitGoesOn DEF NextChild
  <2>5. stack' \in Seq(Frame) /\ Calls(stack') \subseteq {e, h} \union Calls(stack)
    BY <1>1, <2>1, <2>2, <2>3, StackOperations
  <2>6. \A f \in Calls(stack') : f.fn = "visit" /\ f.t = cmd.t
    BY <1>2, <1>3, <2>2, <2>3, <2>5
  <2> QED
    BY <1>4, <2>1, <2>4, <2>5, <2>6
<1>8. VisitSkips \/ VisitEnter \/ VisitChild \/ VisitLeave
  BY <1>3 DEF ActivityWalk, ActivityStep, VisitSkips, VisitEnter, VisitChild, VisitLeave,
     UpdateSkips, UpdateEnter, UpdateChild, UpdateLeave, UpdateFails, DrawEnter, DrawChild,
     DrawLeave, Entering, Leaving, Running
<1> QED
  BY <1>5, <1>6, <1>7, <1>8

LEMMA VisitingPreserved ==
  Invariant /\ Attachment /\ OneChild /\ Visiting /\ VisitsAreNew' /\ [Next]_vars => Visiting'
<1> SUFFICES ASSUME Invariant, Attachment, OneChild, Visiting, VisitsAreNew', [Next]_vars
             PROVE  Visiting'
  OBVIOUS
<1>1. Invariant'
  BY NextPreserves
<1>2. CASE UNCHANGED vars
  <2>1. UNCHANGED <<children, enabled, ctx, is_active, visit_time, range, cmd, stack, scene, pc>>
    BY <1>2 DEF vars, nodeVars, paramVars, lifeVars, activityVars, callVars, ctxVars
  <2> QED
    BY <2>1, DecisionsStay DEF Visiting
<1>3. CASE Client
  <2>1. ASSUME NEW c \in Ctx, NEW t \in Time, NEW op \in {"draw", "prepare_draw"}, Draw(op, c, t)
        PROVE  Visiting'
    <3> DEFINE n == scene[c]
    <3>1. /\ stack' = <<VisitCall(n, TRUE, t)>> /\ pc' = "draw_honor" /\ scene' = scene /\ n # NoNode
          /\ cmd' = [op |-> op, ctx |-> c, node |-> NoNode, t |-> t]
      BY <2>1 DEF Draw, Start, Begin, Cmd, ctxVars
    <3>2. n \in Node /\ cmd'.ctx = c /\ cmd'.t = t
      BY <3>1 DEF Invariant, TypeOK
    <3>3. /\ VisitCall(n, TRUE, t) \in Frame /\ VisitCall(n, TRUE, t).next = 0
          /\ VisitCall(n, TRUE, t).fn = "visit" /\ VisitCall(n, TRUE, t).node = n
          /\ VisitCall(n, TRUE, t).t = t
      BY <3>2, CallType DEF VisitCall, Call
    <3>4. ActiveNodes' = {}
      BY <3>1, <3>2 DEF VisitsAreNew, VisitBegins, ActiveNodes, ActiveNow
    <3> DEFINE e == VisitCall(n, TRUE, t)
    <3>5. stack' = <<e>> /\ scene'[cmd'.ctx] = n
      BY <3>1, <3>2
    <3> HIDE DEF e, n
    <3>6. Decides(children', n, stack', ActiveNodes', OpenNodes')
      BY <3>3, <3>4, <3>5, VisitStarts DEF e
    <3>7. \A f \in Calls(stack') : f = e
      BY <3>5 DEF Calls
    <3> QED
      BY <3>2, <3>3, <3>5, <3>6, <3>7 DEF Visiting, e
  <2>2. CASE ~(\E c \in Ctx, t \in Time, op \in {"draw", "prepare_draw"} : Draw(op, c, t))
    <3>1. pc' # "draw_honor"
      BY <1>3, <2>2 DEF Client, Create, Configure, SetScene, Free, NodeUnref, Toggle, AddChild,
         Idle, Start
    <3> QED
      BY <3>1 DEF Visiting
  <2> QED
    BY <2>1, <2>2
<1>4. CASE Command
  <2>1. CASE HonorNext
    <3>1. /\ stack = <<>> /\ pc = "draw_honor"
          /\ pc' = "draw_honor" => /\ UNCHANGED <<children, enabled, ctx, is_active, visit_time, range, cmd>>
                                   /\ stack' = stack /\ scene' = scene
      BY <2>1 DEF HonorNext, At, HonorNode, HonorFails, NodePrefetch, NodeRelease, Finish,
         lifeVars, activityVars, paramVars, callVars, ctxVars
    <3> QED
      BY <3>1, DecisionsStay DEF Visiting
  <2>2. CASE ~HonorNext
    <3>1. pc' # "draw_honor"
      BY <1>4, <2>2 DEF Command, BackendConfigured, BackendFails, SceneReattached, UnrefScene, AttachScene,
         SceneAttached, SceneRefused, UpdateScene, DrawScene, FreeContext, At, Start, Finish
    <3> QED
      BY <3>1 DEF Visiting
  <2> QED
    BY <2>1, <2>2
<1>5. CASE GraphWalk
  <2>1. /\ stack # <<>> /\ Top.fn # "visit" /\ pc' = pc
    BY <1>5 DEF GraphWalk, GraphStep, AttachEnter, AttachChild, AttachSucceeds, AttachFails,
       DetachSkipsOther, DetachEnter, DetachEnterUninit, DetachChild, DetachLeave,
       UnrefEnter, UnrefChild, UnrefLeave, Entering, Leaving, Running
  <2>2. Top \in Calls(stack)
    BY <2>1, RunningCall DEF Invariant
  <2> QED
    BY <2>1, <2>2 DEF Visiting
<1>6. CASE ActivityWalk
  <2>1. CASE pc = "draw_honor"
    BY <1>1, <1>6, <2>1, VisitWalks DEF Attachment
  <2>2. CASE pc # "draw_honor"
    BY <1>6, <2>2 DEF ActivityWalk, Visiting
  <2> QED
    BY <2>1, <2>2
<1> QED
  BY <1>2, <1>3, <1>4, <1>5, <1>6 DEF Next

LEMMA VisitingHolds ==
  Spec /\ []Reattaches /\ []VisitsAreNew =>
    [](Invariant /\ Ordered /\ Attachment /\ OneChild /\ Visiting)
<1>1. Init => OneChild /\ Visiting
  BY OneChildInitially DEF Init, Visiting
<1>2. Invariant => TypeOK
  BY DEF Invariant
<1> QED
  BY <1>1, <1>2, AttachmentHolds, OneChildPreserved, VisitingPreserved, PTL DEF Spec

(* ActivityFollowsParents: once a frame is visited, a node below the scene *)
(* is active exactly when an active parent lets activity through at its    *)
(* time, on any graph and in whatever order its branches meet, shared      *)
(* nodes, switches and filters included (nodes.c:406-458), as long as no   *)
(* node of the scene was already visited at the time of the frame.         *)
THEOREM ActivityComesDown == Spec /\ []Reattaches /\ []VisitsAreNew => []ActivityFollowsParents
<1>1. Invariant /\ Visiting => ActivityFollowsParents
  <2> SUFFICES ASSUME Invariant, Visiting, At("draw_honor"), NEW n \in Node, InFrame(n), n # scene[cmd.ctx]
               PROVE  ActiveNow(n) <=> \E r \in References(children, n) :
                                         /\ InFrame(r[1])
                                         /\ ActiveNow(r[1])
                                         /\ ChildActive(r[1], TRUE, cmd.t)
    BY DEF ActivityFollowsParents
  <2>1. /\ Decides(children, scene[cmd.ctx], <<>>, ActiveNodes, OpenNodes)
        /\ children \in [Node -> Seq(Node)]
    BY DEF Visiting, At, Invariant, TypeOK
  <2>2. n \in ActiveNodes <=> Reason(children, ActiveNodes, OpenNodes, n)
    BY <2>1, VisitEnds
  <2>3. ASSUME NEW r \in References(children, n)
        PROVE  /\ r[1] \in ActiveNodes <=> InFrame(r[1]) /\ ActiveNow(r[1])
               /\ r[1] \in OpenNodes <=> ChildActive(r[1], TRUE, cmd.t)
    <3>1. PICK p \in Node : \E i \in 1 .. Len(children[p]) : r = <<p, i>>
      BY <2>1, ReferenceIsChild
    <3>2. r[1] = p /\ children[p] # <<>>
      BY <3>1
    <3> QED
      BY <3>2 DEF ActiveNodes, OpenNodes
  <2> QED
    BY <2>2, <2>3 DEF Reason, ActiveNodes
<1> QED
  BY <1>1, VisitingHolds, PTL

(***************************************************************************)
(* The update and the draw of a frame                                      *)
(***************************************************************************)

(* Each walk of a frame runs at its own point of the command.              *)
FramesStand ==
  stack # <<>> =>
    /\ Top.fn = "visit" => pc = "draw_honor"
    /\ Top.fn = "update" => pc = "draw_draw"
    /\ Top.fn = "draw" => pc = "idle"

LEMMA FramesStandOn ==
  ASSUME Invariant, Ordered, FramesStand, [Next]_vars
  PROVE  FramesStand'
<1>1. CASE UNCHANGED vars
  <2>1. UNCHANGED <<stack, pc>>
    BY <1>1 DEF vars, callVars
  <2> QED
    BY <2>1 DEF FramesStand, Top
<1>2. CASE GraphWalk \/ ActivityWalk
  <2>1. /\ stack # <<>> /\ stack \in Seq(Frame) /\ Goes(stack, stack') /\ pc' = pc /\ OneWalk(stack)
    BY <1>2, WalkGoes DEF Invariant, TypeOK, Ordered
  <2>2. stack' # <<>> => Top'.fn = Top.fn
    BY <2>1, WalkGoesOn DEF Alike, Top
  <2> QED
    BY <2>1, <2>2 DEF FramesStand
<1>3. ASSUME NEW e, e.fn \in {"attach", "detach", "unref"}, stack' = <<e>>
      PROVE  FramesStand'
  <2>1. Top' = e
    BY <1>3 DEF Top
  <2> QED
    BY <1>3, <2>1 DEF FramesStand
<1>4. CASE Client
  <2>1. ASSUME NEW c \in Ctx, NEW t \in Time, NEW op \in {"draw", "prepare_draw"}, Draw(op, c, t)
        PROVE  FramesStand'
    <3>1. stack' = <<VisitCall(scene[c], TRUE, t)>> /\ pc' = "draw_honor"
      BY <2>1 DEF Draw, Start
    <3>2. Top'.fn = "visit"
      BY <3>1 DEF Top, VisitCall, Call
    <3> QED
      BY <3>1, <3>2 DEF FramesStand
  <2>2. CASE ~(\E c \in Ctx, t \in Time, op \in {"draw", "prepare_draw"} : Draw(op, c, t))
    <3>1. \/ stack' = <<>>
          \/ \E c, n : stack' \in {<<DetachCall(n, c)>>, <<UnrefCall(n)>>}
      BY <1>4, <2>2 DEF Client, Create, Configure, SetScene, Free, NodeUnref, Toggle, AddChild,
         Idle, Start, callVars
    <3>2. \A c, n : DetachCall(n, c).fn = "detach" /\ UnrefCall(n).fn = "unref"
      BY DEF DetachCall, UnrefCall, Call
    <3>3. stack' = <<>> => FramesStand'
      BY DEF FramesStand
    <3> QED
      BY <1>3, <3>1, <3>2, <3>3
  <2> QED
    BY <2>1, <2>2
<1>5. CASE Command
  <2>1. CASE UpdateScene
    <3>1. stack' = <<UpdateCall(scene[cmd.ctx], cmd.t)>> /\ pc' = "draw_draw"
      BY <2>1 DEF UpdateScene, Start
    <3>2. Top'.fn = "update"
      BY <3>1 DEF Top, UpdateCall, Call
    <3> QED
      BY <3>1, <3>2 DEF FramesStand
  <2>2. CASE DrawScene
    <3>1. stack' \in {<<>>, <<DrawCall(scene[cmd.ctx])>>} /\ pc' = "idle"
      BY <2>2 DEF DrawScene, Finish, At
    <3>2. stack' # <<>> => Top'.fn = "draw"
      BY <3>1 DEF Top, DrawCall, Call
    <3> QED
      BY <3>1, <3>2 DEF FramesStand
  <2>3. CASE ~UpdateScene /\ ~DrawScene
    <3>1. \/ stack' = <<>>
          \/ \E c, n : stack' \in {<<AttachCall(n, c)>>, <<DetachCall(n, c)>>, <<UnrefCall(n)>>}
      BY <1>5, <2>3 DEF Command, BackendConfigured, BackendFails, SceneReattached, UnrefScene, AttachScene,
         SceneAttached, SceneRefused, HonorNext, HonorNode, HonorFails, FreeContext, At, Start, Fail,
         callVars
    <3>2. \A c, n : /\ AttachCall(n, c).fn = "attach" /\ DetachCall(n, c).fn = "detach"
                    /\ UnrefCall(n).fn = "unref"
      BY DEF AttachCall, DetachCall, UnrefCall, Call
    <3>3. stack' = <<>> => FramesStand'
      BY DEF FramesStand
    <3> QED
      BY <1>3, <3>1, <3>2, <3>3
  <2> QED
    BY <2>1, <2>2, <2>3
<1> QED
  BY <1>1, <1>2, <1>4, <1>5 DEF Next

(* Once a node is visited it waits on the list of the context, is to be    *)
(* put there by the call that entered it, or has had its turn: an active   *)
(* node is prefetched then, another one released.                          *)
Queued(s, n) == \E f \in Calls(s) : f.node = n /\ f.queue
Listed(n)    == n \in {activity[cmd.ctx][i] : i \in DOMAIN activity[cmd.ctx]}

Queueing ==
  pc = "draw_honor" =>
    /\ scene[cmd.ctx] \in ActiveNodes \/ Asked(stack, scene[cmd.ctx])
    /\ \A f \in Calls(stack) : f.next = 0 => ~f.queue
    /\ \A n \in Node : InFrame(n) /\ visit_time[n] = cmd.t =>
         Listed(n) \/ Queued(stack, n) \/ (stack = <<>> /\ (is_active[n] <=> state[n] = Ready))

LEMMA QueueingWalks ==
  ASSUME Invariant, Tracked, Visiting, Queueing, pc = "draw_honor", ActivityWalk
  PROVE  Queueing'
<1> USE DEF Invariant
<1>1. /\ stack # <<>> /\ stack \in Seq(Frame) /\ Top = Head(stack)
      /\ UNCHANGED <<scene, pc, cmd>> /\ children \in [Node -> Seq(Node)] /\ cmd.ctx \in Ctx
  BY WalkGoes DEF TypeOK, Top, CommandOK
<1>2. /\ Top \in Frame /\ Top \in Calls(stack) /\ Top.node \in Node /\ Top.active \in BOOLEAN
      /\ Top.next \in Nat /\ Len(children[Top.node]) \in Nat
      /\ Top.next \in 1 .. Len(children[Top.node]) => NextChild \in Node
      /\ Top.t \in Time \union {Unset}
  BY <1>1, RunningCall
<1>3. /\ Top.fn = "visit"
      /\ scene[cmd.ctx] \in ActiveNodes \/ Asked(stack, scene[cmd.ctx])
      /\ \A f \in Calls(stack) : f.next = 0 => ~f.queue
      /\ \A n \in Node : InFrame(n) /\ visit_time[n] = cmd.t => Listed(n) \/ Queued(stack, n)
  BY <1>1, <1>2 DEF Visiting, Queueing
<1>4. Calls(stack) = {Top} \union Calls(Tail(stack)) /\ Calls(Tail(stack)) \subseteq Calls(stack)
  BY <1>1, CallsBelow
<1>5. CASE VisitEnter
  <2> DEFINE n == Top.node
             h == [Top EXCEPT !.next = 1, !.queue = ToQueue(n, Top.t),
                              !.active = ChildActive(n, @, Top.t)]
  <2>1. /\ Top.next = 0 /\ UNCHANGED <<ctx, activity>>
        /\ visit_time' = [visit_time EXCEPT ![n] = Top.t]
        /\ stack' = <<h>> \o Tail(stack)
        /\ visit_time \in [Node -> Time \union {Unset}]
    BY <1>5 DEF VisitEnter, Entering, lifeVars, TypeOK
  <2>2. h \in Frame /\ h.next = 1 /\ h.node = n /\ (h.queue <=> visit_time[n] # Top.t)
    <3>1. ChildActive(n, Top.active, Top.t) \in BOOLEAN /\ ToQueue(n, Top.t) \in BOOLEAN
      BY <1>2 DEF ChildActive, ToQueue, TypeOK
    <3> QED
      BY <1>2, <3>1 DEF Frame, ToQueue
  <2>3. Calls(stack') = {h} \union Calls(Tail(stack))
    <3> HIDE DEF h
    <3> QED
      BY <1>1, <2>1, <2>2, CallsOfStack
  <2>4. /\ Top.t = cmd.t
        /\ ActiveNodes' = ActiveNodes \union (IF Top.active THEN {n} ELSE {})
    BY <1>1, <1>5, NodeEntered
  <2> HIDE DEF h
  <2>5. scene[cmd.ctx] \in ActiveNodes'
    BY <1>1, <1>3, <2>4 DEF Asked
  <2>6. \A f \in Calls(stack') : f.next = 0 => ~f.queue
    BY <1>3, <1>4, <2>2, <2>3
  <2>7. ASSUME NEW m \in Node, InFrame(m)', visit_time'[m] = cmd'.t
        PROVE  Listed(m)' \/ Queued(stack', m)
    <3>1. InFrame(m) /\ (Listed(m)' <=> Listed(m))
      BY <1>1, <2>1, <2>7 DEF InFrame, Listed
    <3>2. CASE visit_time[m] # cmd.t
      <4>1. m = n
        BY <1>1, <1>2, <2>1, <2>7, <3>2
      <4> QED
        BY <2>2, <2>3, <2>4, <3>2, <4>1 DEF Queued
    <3>3. CASE visit_time[m] = cmd.t
      <4>1. Queued(stack, m) => Queued(stack', m)
        BY <1>3, <1>4, <2>1, <2>3 DEF Queued
      <4> QED
        BY <1>3, <3>1, <3>3, <4>1
    <3> QED
      BY <3>2, <3>3
  <2> QED
    BY <1>1, <2>5, <2>6, <2>7 DEF Queueing
<1>6. CASE VisitSkips
  <2>1. /\ Top.next = 0 /\ ~Top.active /\ stack' = Tail(stack) /\ UNCHANGED <<nodeVars, activity>>
    BY <1>6 DEF VisitSkips, Entering, Return
  <2>2. UNCHANGED <<children, enabled, ctx, is_active, visit_time, range, state>>
    BY <2>1 DEF nodeVars, paramVars, lifeVars, activityVars
  <2>3. scene[cmd.ctx] \in ActiveNodes'
    BY <1>1, <1>3, <2>1, <2>2, DecisionsStay DEF Asked
  <2>4. ASSUME NEW m \in Node, InFrame(m)', visit_time'[m] = cmd'.t
        PROVE  Listed(m)' \/ Queued(stack', m)
    <3>1. InFrame(m) /\ (Listed(m)' <=> Listed(m)) /\ visit_time[m] = cmd.t
      BY <1>1, <2>1, <2>2, <2>4 DEF InFrame, Listed
    <3>2. Queued(stack, m) => Queued(stack', m)
      BY <1>3, <1>4, <2>1 DEF Queued
    <3> QED
      BY <1>3, <3>1, <3>2
  <2> QED
    BY <1>1, <1>3, <1>4, <2>1, <2>3, <2>4 DEF Queueing
<1>7. CASE VisitLeave
  <2>1. /\ Top.next = Len(children[Top.node]) + 1 /\ stack' = Tail(stack) /\ UNCHANGED nodeVars
        /\ activity' = IF Top.queue THEN [activity EXCEPT ![ctx[Top.node]] = Append(@, Top.node)] ELSE activity
        /\ activity \in [Ctx -> Seq(Node)]
    BY <1>7 DEF VisitLeave, Leaving, Return, TypeOK
  <2>2. UNCHANGED <<children, enabled, ctx, is_active, visit_time, range, state>>
    BY <2>1 DEF nodeVars, paramVars, lifeVars, activityVars
  <2>3. scene[cmd.ctx] \in ActiveNodes'
    <3>1. Top.next # 0
      BY <1>2, <2>1
    <3> QED
      BY <1>1, <1>3, <2>2, <3>1, DecisionsStay DEF Asked
  <2>4. ctx[Top.node] = cmd.ctx
    BY <1>2, <1>3 DEF Tracked
  <2>5. \A m : (Listed(m) \/ (Top.queue /\ m = Top.node)) => Listed(m)'
    <3>1. CASE ~Top.queue
      BY <1>1, <2>1, <3>1 DEF Listed
    <3>2. CASE Top.queue
      <4> DEFINE q == activity[cmd.ctx]
      <4>1. q \in Seq(Node)
        BY <1>1, <2>1
      <4>2. activity'[cmd'.ctx] = Append(q, Top.node)
        BY <1>1, <2>1, <2>4, <3>2
      <4> HIDE DEF q
      <4>3. /\ DOMAIN q = 1 .. Len(q) /\ Len(q) \in Nat
            /\ DOMAIN Append(q, Top.node) = 1 .. Len(q) + 1
            /\ \A i \in 1 .. Len(q) : Append(q, Top.node)[i] = q[i] /\ i \in 1 .. Len(q) + 1
            /\ Append(q, Top.node)[Len(q) + 1] = Top.node /\ Len(q) + 1 \in 1 .. Len(q) + 1
        <5>1. Len(q) \in Nat /\ DOMAIN q = 1 .. Len(q)
          BY <4>1
        <5>2. \A i \in 1 .. Len(q) : i \in 1 .. Len(q) + 1
          BY <5>1
        <5> QED
          BY <1>2, <4>1, <5>1, <5>2, AppendProperties
      <4> QED
        BY <4>2, <4>3 DEF Listed, q
    <3> QED
      BY <3>1, <3>2
  <2>6. ASSUME NEW m \in Node, InFrame(m)', visit_time'[m] = cmd'.t
        PROVE  Listed(m)' \/ Queued(stack', m)
    <3>1. InFrame(m) /\ visit_time[m] = cmd.t
      BY <1>1, <2>2, <2>6 DEF InFrame
    <3>2. Queued(stack, m) => Queued(stack', m) \/ (Top.queue /\ m = Top.node)
      BY <1>4, <2>1 DEF Queued
    <3> QED
      BY <1>3, <2>5, <3>1, <3>2
  <2> QED
    BY <1>1, <1>3, <1>4, <2>1, <2>3, <2>6 DEF Queueing
<1>8. CASE VisitChild
  <2> DEFINE e == VisitCall(NextChild, Top.active, Top.t)
             h == [Top EXCEPT !.next = @ + 1]
  <2>1. /\ Top.next \in 1 .. Len(children[Top.node]) /\ stack' = <<e, h>> \o Tail(stack)
        /\ UNCHANGED <<nodeVars, activity>>
    BY <1>8 DEF VisitChild, CallChild
  <2>2. UNCHANGED <<children, enabled, ctx, is_active, visit_time, range, state>>
    BY <2>1 DEF nodeVars, paramVars, lifeVars, activityVars
  <2>3. e \in Frame /\ ~e.queue
    BY <1>2, <2>1, CallType, ZenonT(60) DEF VisitCall, Call
  <2>4. h \in Frame /\ h.node = Top.node /\ h.next > 0 /\ h.next # 0 /\ h.queue = Top.queue
    BY <1>2 DEF Frame
  <2> HIDE DEF e, h
  <2>5. Calls(stack') = {e, h} \union Calls(Tail(stack))
    BY <1>1, <2>1, <2>3, <2>4, CallsOfStack
  <2>6. scene[cmd.ctx] \in ActiveNodes'
    <3>1. Top.next # 0
      BY <1>2, <2>1
    <3> QED
      BY <1>1, <1>3, <2>2, <3>1, DecisionsStay DEF Asked
  <2>7. ASSUME NEW m \in Node, InFrame(m)', visit_time'[m] = cmd'.t
        PROVE  Listed(m)' \/ Queued(stack', m)
    <3>1. InFrame(m) /\ visit_time[m] = cmd.t /\ (Listed(m)' <=> Listed(m))
      BY <1>1, <2>1, <2>2, <2>7 DEF InFrame, Listed
    <3>2. Queued(stack, m) => Queued(stack', m)
      BY <1>4, <2>4, <2>5 DEF Queued
    <3> QED
      BY <1>3, <3>1, <3>2
  <2> QED
    BY <1>1, <1>3, <1>4, <2>3, <2>4, <2>5, <2>6, <2>7 DEF Queueing
<1>9. VisitSkips \/ VisitEnter \/ VisitChild \/ VisitLeave
  BY <1>3 DEF ActivityWalk, ActivityStep, VisitSkips, VisitEnter, VisitChild, VisitLeave,
     UpdateSkips, UpdateEnter, UpdateChild, UpdateLeave, UpdateFails, DrawEnter, DrawChild,
     DrawLeave, Entering, Leaving, Running
<1> QED
  BY <1>5, <1>6, <1>7, <1>8, <1>9

LEMMA QueueingHonors ==
  ASSUME Invariant, Queueing, HonorNext
  PROVE  Queueing'
<1> USE DEF Invariant
<1> DEFINE q == activity[cmd.ctx]
           n == Head(q)
<1>1. /\ stack = <<>> /\ pc = "draw_honor" /\ q # <<>> /\ UNCHANGED scene
      /\ \/ HonorNode(n) /\ activity' = [activity EXCEPT ![cmd.ctx] = Tail(@)] /\ UNCHANGED <<pc, cmd>>
         \/ pc' = "idle"
  BY DEF HonorNext, At, Finish, ctxVars
<1>2. cmd.ctx \in Ctx /\ q \in Seq(Node) /\ activity \in [Ctx -> Seq(Node)]
  BY <1>1 DEF TypeOK, CommandOK
<1>3. /\ n \in Node /\ Len(q) \in Nat /\ DOMAIN q = 1 .. Len(q) /\ n = q[1]
      /\ DOMAIN Tail(q) = 1 .. Len(q) - 1
      /\ \A i \in 1 .. Len(q) - 1 : Tail(q)[i] = q[i + 1]
  BY <1>1, <1>2, HeadTailProperties, EmptySeq
<1>4. CASE pc' = "idle"
  BY <1>4 DEF Queueing
<1>5. CASE HonorNode(n) /\ activity' = [activity EXCEPT ![cmd.ctx] = Tail(@)] /\ UNCHANGED <<pc, cmd>>
  <2>1. /\ UNCHANGED <<children, enabled, ctx, is_active, visit_time, range, stack>>
        /\ is_active[n] <=> state'[n] = Ready
    BY <1>3, <1>5 DEF HonorNode, NodePrefetch, NodeRelease, paramVars, activityVars, callVars, TypeOK,
       Ready, Initialized, State, Uninitialized
  <2>2. \A m \in Node \ {n} : state'[m] = state[m]
    BY <1>3, <1>5 DEF HonorNode, NodePrefetch, NodeRelease, TypeOK
  <2>3. activity'[cmd'.ctx] = Tail(q)
    BY <1>2, <1>5
  <2>4. ASSUME NEW m, Listed(m), m # n
        PROVE  Listed(m)'
    <3>1. PICK i \in 1 .. Len(q) : m = q[i]
      BY <1>3, <2>4 DEF Listed
    <3>2. i - 1 \in 1 .. Len(q) - 1 /\ (i - 1) + 1 = i
      <4>1. i # 1
        BY <1>3, <2>4, <3>1
      <4> QED
        BY <1>3, <4>1
    <3>3. i - 1 \in DOMAIN Tail(q) /\ m = Tail(q)[i - 1]
      BY <1>3, <3>1, <3>2
    <3> QED
      BY <2>3, <3>3, Zenon DEF Listed
  <2>5. ASSUME NEW m \in Node, InFrame(m)', visit_time'[m] = cmd'.t
        PROVE  Listed(m)' \/ (is_active'[m] <=> state'[m] = Ready)
    <3>1. Listed(m) \/ Queued(stack, m) \/ (is_active[m] <=> state[m] = Ready)
      BY <1>1, <1>5, <2>1, <2>5 DEF Queueing, InFrame
    <3>2. ~Queued(stack, m)
      BY <1>1 DEF Queued, Calls
    <3> QED
      BY <2>1, <2>2, <2>4, <3>1, <3>2
  <2>6. scene'[cmd'.ctx] \in ActiveNodes' \/ Asked(stack', scene'[cmd'.ctx])
    BY <1>1, <1>5, <2>1, DecisionsStay DEF Queueing
  <2>7. stack' = <<>> /\ Calls(stack') = {}
    BY <1>1, <2>1 DEF Calls
  <2> QED
    BY <2>5, <2>6, <2>7 DEF Queueing
<1> QED
  BY <1>1, <1>4, <1>5

LEMMA QueueingPreserved ==
  Invariant /\ Tracked /\ Visiting /\ Queueing /\ VisitsAreNew' /\ [Next]_vars => Queueing'
<1> SUFFICES ASSUME Invariant, Tracked, Visiting, Queueing, VisitsAreNew', [Next]_vars
             PROVE  Queueing'
  OBVIOUS
<1>1. CASE UNCHANGED vars
  <2>1. /\ UNCHANGED <<children, enabled, ctx, is_active, visit_time, range, cmd, stack, scene, pc>>
        /\ UNCHANGED <<activity, state>>
    BY <1>1 DEF vars, nodeVars, paramVars, lifeVars, activityVars, callVars, ctxVars
  <2>2. ActiveNodes' = ActiveNodes
    BY <2>1, DecisionsStay
  <2> QED
    BY <2>1, <2>2 DEF Queueing, InFrame, Listed
<1>2. CASE Client
  <2>1. ASSUME NEW c \in Ctx, NEW t \in Time, NEW op \in {"draw", "prepare_draw"}, Draw(op, c, t)
        PROVE  Queueing'
    <3> DEFINE e == VisitCall(scene[c], TRUE, t)
    <3>1. /\ stack' = <<e>> /\ pc' = "draw_honor" /\ scene' = scene /\ scene[c] # NoNode
          /\ cmd' = [op |-> op, ctx |-> c, node |-> NoNode, t |-> t]
      BY <2>1 DEF Draw, Start, Begin, Cmd, ctxVars
    <3>2. cmd'.ctx = c /\ cmd'.t = t
      BY <3>1
    <3>3. e.next = 0 /\ ~e.queue /\ e.active /\ e.node = scene[c]
      BY DEF VisitCall, Call
    <3>4. \A m \in Node : InFrame(m)' => visit_time'[m] # cmd'.t
      BY <3>1, <3>2 DEF VisitsAreNew, VisitBegins
    <3> HIDE DEF e
    <3>5. \A f \in Calls(stack') : f = e
      BY <3>1 DEF Calls
    <3>6. Asked(stack', scene'[cmd'.ctx])
      BY <3>1, <3>2, <3>3 DEF Asked
    <3> QED
      BY <3>3, <3>4, <3>5, <3>6 DEF Queueing
  <2>2. CASE ~(\E c \in Ctx, t \in Time, op \in {"draw", "prepare_draw"} : Draw(op, c, t))
    <3>1. pc' # "draw_honor"
      BY <1>2, <2>2 DEF Client, Create, Configure, SetScene, Free, NodeUnref, Toggle, AddChild,
         Idle, Start
    <3> QED
      BY <3>1 DEF Queueing
  <2> QED
    BY <2>1, <2>2
<1>3. CASE Command
  <2>1. CASE HonorNext
    BY <2>1, QueueingHonors
  <2>2. CASE ~HonorNext
    <3>1. pc' # "draw_honor"
      BY <1>3, <2>2 DEF Command, BackendConfigured, BackendFails, SceneReattached, UnrefScene, AttachScene,
         SceneAttached, SceneRefused, UpdateScene, DrawScene, FreeContext, At, Start, Finish
    <3> QED
      BY <3>1 DEF Queueing
  <2> QED
    BY <2>1, <2>2
<1>4. CASE GraphWalk
  <2>1. /\ stack # <<>> /\ Top.fn # "visit" /\ pc' = pc
    BY <1>4 DEF GraphWalk, GraphStep, AttachEnter, AttachChild, AttachSucceeds, AttachFails,
       DetachSkipsOther, DetachEnter, DetachEnterUninit, DetachChild, DetachLeave,
       UnrefEnter, UnrefChild, UnrefLeave, Entering, Leaving, Running
  <2>2. Top \in Calls(stack)
    BY <2>1, RunningCall DEF Invariant
  <2> QED
    BY <2>1, <2>2 DEF Visiting, Queueing
<1>5. CASE ActivityWalk
  <2>1. CASE pc = "draw_honor"
    BY <1>5, <2>1, QueueingWalks
  <2>2. CASE pc # "draw_honor"
    BY <1>5, <2>2 DEF ActivityWalk, Queueing
  <2> QED
    BY <2>1, <2>2
<1> QED
  BY <1>1, <1>2, <1>3, <1>4, <1>5 DEF Next

(***************************************************************************)
(* The update                                                              *)
(***************************************************************************)

(* No TimeRangeFilter is reached from the node n.                          *)
FilterFree(g, n) ==
  \E S \in SUBSET Node : /\ n \in S
                         /\ \A m \in S : ~IsFilter(m) /\ \A i \in 1 .. Len(g[m]) : g[m][i] \in S
FreeNodes == {n \in Node : FilterFree(children, n)}

(* A filter with a "once" range, which updates its child for another time  *)
(* than the one of the frame, has no filter below it: that one would look  *)
(* up its ranges at the other time.                                        *)
HasOnce(n) == \E i \in DOMAIN Ranges[n] : Ranges[n][i].mode = "once"
NotNested ==
  \A n \in Node : IsFilter(n) /\ HasOnce(n) =>
    \A i \in 1 .. Len(children[n]) : children[n][i] \in FreeNodes

LEMMA FreeBelow ==
  ASSUME NEW n \in FreeNodes
  PROVE  n \in Node /\ ~IsFilter(n) /\ \A i \in 1 .. Len(children[n]) : children[n][i] \in FreeNodes
<1>1. PICK S \in SUBSET Node :
        n \in S /\ \A m \in S : ~IsFilter(m) /\ \A i \in 1 .. Len(children[m]) : children[m][i] \in S
  BY DEF FreeNodes, FilterFree
<1>2. \A m \in S : m \in FreeNodes
  BY <1>1 DEF FreeNodes, FilterFree
<1> QED
  BY <1>1, <1>2

(* The calls of an update are of active nodes, which are prefetched, and   *)
(* go down where the visit let activity through, for the time of the frame *)
(* as long as there is a filter to look at it.                             *)
Updating ==
  pc = "draw_draw" =>
    /\ scene[cmd.ctx] \in ActiveNodes
    /\ \A n \in ActiveNodes : state[n] = Ready
    /\ \A r \in ActiveNodes \intersect OpenNodes :
         \A i \in 1 .. Len(children[r]) : children[r][i] \in ActiveNodes
    /\ \A f \in Calls(stack) :
         /\ f.fn = "update" /\ f.node \in ActiveNodes
         /\ f.t = cmd.t \/ f.node \in FreeNodes
         /\ f.next \in 1 .. Len(children[f.node]) => f.node \in OpenNodes

(* The update starts where the visit and the prefetches have ended.        *)
LEMMA UpdateStarts ==
  ASSUME Invariant, Visiting, Queueing, UpdateScene
  PROVE  Updating'
<1> DEFINE e == UpdateCall(scene[cmd.ctx], cmd.t)
<1>1. /\ pc = "draw_honor" /\ stack = <<>> /\ activity[cmd.ctx] = <<>> /\ stack' = <<e>>
      /\ pc' = "draw_draw" /\ UNCHANGED <<nodeVars, scene, cmd>>
  BY DEF UpdateScene, At, Start, nodesUnchanged, ctxVars
<1>2. UNCHANGED <<children, enabled, ctx, is_active, visit_time, range, state>>
  BY <1>1 DEF nodeVars, paramVars, lifeVars, activityVars
<1>3. UNCHANGED <<ActiveNodes, OpenNodes>>
  BY <1>1, <1>2, DecisionsStay
<1>4. Calls(stack) = {}
  BY <1>1 DEF Calls
<1>5. scene[cmd.ctx] \in ActiveNodes
  BY <1>1 DEF Queueing, Asked
<1>6. ASSUME NEW n \in ActiveNodes
      PROVE  state[n] = Ready
  <2>1. n \in Node /\ InFrame(n) /\ is_active[n] /\ visit_time[n] = cmd.t
    BY DEF ActiveNodes, ActiveNow
  <2>2. ~Listed(n) /\ ~Queued(stack, n)
    BY <1>1, <1>4 DEF Listed, Queued
  <2> QED
    BY <1>1, <2>1, <2>2 DEF Queueing
<1>7. ASSUME NEW r \in ActiveNodes \intersect OpenNodes, NEW i \in 1 .. Len(children[r])
      PROVE  children[r][i] \in ActiveNodes
  <2>1. ~Owed(stack, r, i) /\ ~Asked(stack, children[r][i])
    BY <1>1, <1>4 DEF Owed, Asked
  <2> QED
    BY <1>1, <2>1 DEF Visiting, Decides, Heeded
<1>8. e.fn = "update" /\ e.node = scene[cmd.ctx] /\ e.t = cmd.t /\ e.next = 0
  BY DEF UpdateCall, Call
<1> HIDE DEF e
<1>9. \A f \in Calls(stack') : f = e
  BY <1>1 DEF Calls
<1>10. \A k : 0 \notin 1 .. k
  OBVIOUS
<1> QED
  BY <1>1, <1>2, <1>3, <1>5, <1>6, <1>7, <1>8, <1>9, <1>10 DEF Updating

(* A node whose children are updated lets activity through at the time of  *)
(* the frame.                                                              *)
LEMMA UpdateOpens ==
  ASSUME NEW n \in Node, ChildrenUpdated(n, cmd.t)
  PROVE  n \in OpenNodes
<1>1. IsFilter(n) => Mode(n, cmd.t) # "noop"
  <2> SUFFICES ASSUME IsFilter(n), Mode(n, cmd.t) = "noop"
               PROVE  FALSE
    OBVIOUS
  <2>1. UpdatedRange(n, cmd.t) = [MovedRange(n, cmd.t) EXCEPT !.drawme = FALSE]
    BY DEF UpdatedRange
  <2>2. ~UpdatedRange(n, cmd.t).drawme
    BY <2>1
  <2> QED
    BY <2>2 DEF ChildrenUpdated, IsSwitch, IsFilter
<1> QED
  BY <1>1 DEF OpenNodes, ChildActive, ChildrenUpdated

LEMMA UpdateOpensRightly ==
  ASSUME NEW n \in Node, NEW t, t = cmd.t \/ n \in FreeNodes, ChildrenUpdated(n, t)
  PROVE  n \in OpenNodes
<1>1. CASE t = cmd.t
  BY <1>1, UpdateOpens
<1>2. CASE n \in FreeNodes
  <2>1. ~IsFilter(n)
    BY <1>2, FreeBelow
  <2> QED
    BY <2>1 DEF OpenNodes, ChildActive, ChildrenUpdated
<1> QED
  BY <1>1, <1>2

(* The steps of an update, which change no activity.                       *)
LEMMA UpdateSteps ==
  ASSUME Invariant, Invariant', Updating, pc = "draw_draw", GraphWalk \/ ActivityWalk
  PROVE  /\ stack # <<>> /\ stack \in Seq(Frame) /\ Top = Head(stack)
         /\ UNCHANGED <<scene, pc, cmd>> /\ children \in [Node -> Seq(Node)]
         /\ Top.fn = "update" /\ Top.node \in ActiveNodes
         /\ Top.t = cmd.t \/ Top.node \in FreeNodes
         /\ Top.next \in 1 .. Len(children[Top.node]) => Top.node \in OpenNodes
         /\ UpdateSkips \/ UpdateEnter \/ UpdateChild \/ UpdateLeave \/ UpdateFails
         /\ UNCHANGED <<children, enabled, ctx, is_active, visit_time, state>>
         /\ UNCHANGED <<ActiveNodes, OpenNodes, FreeNodes>>
<1> USE DEF Invariant
<1>1. /\ stack # <<>> /\ stack \in Seq(Frame) /\ Top = Head(stack)
      /\ UNCHANGED <<scene, pc, cmd>> /\ children \in [Node -> Seq(Node)]
  BY WalkGoes DEF TypeOK, Top
<1>2. Top \in Calls(stack)
  BY <1>1, RunningCall
<1>3. /\ Top.fn = "update" /\ Top.node \in ActiveNodes
      /\ Top.t = cmd.t \/ Top.node \in FreeNodes
      /\ Top.next \in 1 .. Len(children[Top.node]) => Top.node \in OpenNodes
  BY <1>2 DEF Updating
<1>4. UpdateSkips \/ UpdateEnter \/ UpdateChild \/ UpdateLeave \/ UpdateFails
  BY <1>3 DEF ActivityWalk, ActivityStep, VisitSkips, VisitEnter, VisitChild, VisitLeave,
     GraphWalk, GraphStep, AttachEnter, AttachChild, AttachSucceeds, AttachFails,
     DetachSkipsOther, DetachEnter, DetachEnterUninit, DetachChild, DetachLeave,
     UnrefEnter, UnrefChild, UnrefLeave,
     UpdateSkips, UpdateEnter, UpdateChild, UpdateLeave, UpdateFails, DrawEnter, DrawChild,
     DrawLeave, Entering, Leaving, Running
<1>5. UNCHANGED <<children, enabled, ctx, is_active, visit_time, state>>
  BY <1>4 DEF UpdateSkips, UpdateEnter, UpdateChild, UpdateLeave, UpdateFails, CallChild,
     nodeVars, paramVars, lifeVars, activityVars
<1>6. UNCHANGED <<ActiveNodes, OpenNodes, FreeNodes>>
  <2>1. PICK t \in Int : t = cmd.t /\ t = cmd'.t
    <3>1. cmd \in CmdData /\ cmd' = cmd
      BY <1>1 DEF TypeOK
    <3>2. cmd.t \in Time \union {Unset} /\ Unset \in Int
      BY <3>1 DEF CmdData, Unset
    <3>3. cmd.t \in Int
      BY <3>2, NodeAssumption
    <3> QED
      BY <3>1, <3>3
  <2>2. \A r \in Node : ChildActive(r, TRUE, t)' <=> ChildActive(r, TRUE, t)
    BY <1>5, ActivityOpens
  <2>3. OpenNodes' = OpenNodes
    BY <1>5, <2>1, <2>2 DEF OpenNodes
  <2>4. ActiveNodes' = ActiveNodes
    BY <1>1, <1>5 DEF ActiveNodes, InFrame, ActiveNow
  <2>5. FreeNodes' = FreeNodes
    BY <1>5 DEF FreeNodes
  <2> QED
    BY <2>3, <2>4, <2>5
<1> QED
  BY <1>1, <1>3, <1>4, <1>5, <1>6

LEMMA UpdatingWalks ==
  ASSUME Invariant, Invariant', NotNested, Updating, pc = "draw_draw", GraphWalk \/ ActivityWalk
  PROVE  Updating'
<1> USE DEF Invariant
<1>1. /\ stack # <<>> /\ stack \in Seq(Frame) /\ Top = Head(stack)
      /\ UNCHANGED <<scene, pc, cmd>> /\ children \in [Node -> Seq(Node)]
  BY UpdateSteps
<1>2. /\ Top \in Frame /\ Top \in Calls(stack) /\ Top.node \in Node
      /\ Top.next \in Nat /\ Len(children[Top.node]) \in Nat
      /\ Top.next \in 1 .. Len(children[Top.node]) => NextChild \in Node
      /\ Top.t \in Time \union {Unset}
  BY <1>1, RunningCall
<1>3. /\ Top.fn = "update" /\ Top.node \in ActiveNodes
      /\ Top.t = cmd.t \/ Top.node \in FreeNodes
      /\ Top.next \in 1 .. Len(children[Top.node]) => Top.node \in OpenNodes
  BY UpdateSteps
<1>4. UpdateSkips \/ UpdateEnter \/ UpdateChild \/ UpdateLeave \/ UpdateFails
  BY UpdateSteps
<1>5. UNCHANGED <<children, enabled, ctx, is_active, visit_time, state>>
  BY UpdateSteps
<1>6. UNCHANGED <<ActiveNodes, OpenNodes, FreeNodes>>
  BY UpdateSteps
<1>7. ASSUME \A f \in Calls(stack') :
               \/ f \in Calls(stack)
               \/ /\ f.fn = "update" /\ f.node \in ActiveNodes
                  /\ f.t = cmd.t \/ f.node \in FreeNodes
                  /\ f.next \in 1 .. Len(children[f.node]) => f.node \in OpenNodes
      PROVE  Updating'
  BY <1>1, <1>5, <1>6, <1>7 DEF Updating
<1>8. CASE UpdateSkips \/ UpdateLeave \/ UpdateFails
  <2>1. stack' \in {Tail(stack), stack, <<>>}
    BY <1>8 DEF UpdateSkips, UpdateLeave, UpdateFails, Return, Fail, Abort
  <2>2. Calls(stack') \subseteq Calls(stack)
    BY <1>1, <2>1, StackTop DEF Calls
  <2> QED
    BY <1>7, <2>2
<1>9. CASE UpdateEnter
  <2>1. CASE Abort
    BY <1>7, <2>1 DEF Abort
  <2>2. ASSUME NEW k \in Nat, stack' = <<[Top EXCEPT !.next = k]>> \o Tail(stack),
               k \in 1 .. Len(children[Top.node]) => Top.node \in OpenNodes
        PROVE  Updating'
    <3> DEFINE h == [Top EXCEPT !.next = k]
    <3>1. h \in Frame /\ h.fn = "update" /\ h.node = Top.node /\ h.t = Top.t /\ h.next = k
      BY <1>2, <1>3 DEF Frame
    <3> HIDE DEF h
    <3>2. Calls(stack') \subseteq {h} \union Calls(stack)
      BY <1>1, <2>2, <3>1, StackOperations DEF h
    <3> QED
      BY <1>3, <1>7, <2>2, <3>1, <3>2
  <2>3. CASE Descend /\ ChildrenUpdated(Top.node, Top.t)
    <3>1. Top.node \in OpenNodes
      BY <1>2, <1>3, <2>3, UpdateOpensRightly
    <3> QED
      BY <2>2, <2>3, <3>1 DEF Descend
  <2>4. CASE SkipChildren
    <3>1. Len(children[Top.node]) + 1 \notin 1 .. Len(children[Top.node])
      BY <1>2
    <3>2. Len(children[Top.node]) + 1 \in Nat
      BY <1>2
    <3> QED
      BY <2>2, <2>4, <3>1, <3>2 DEF SkipChildren
  <2> QED
    BY <1>9, <2>1, <2>3, <2>4 DEF UpdateEnter
<1>10. CASE UpdateChild
  <2> DEFINE e == UpdateCall(NextChild, ChildTime(Top.node, Top.t))
             h == [Top EXCEPT !.next = @ + 1]
  <2>1. Top.next \in 1 .. Len(children[Top.node]) /\ stack' = <<e, h>> \o Tail(stack)
    BY <1>10 DEF UpdateChild, CallChild
  <2>2. /\ e \in Frame /\ e.node = NextChild /\ e.next = 0 /\ e.fn = "update"
        /\ e.t = ChildTime(Top.node, Top.t)
    <3>1. ChildTime(Top.node, Top.t) \in Time \union {Unset}
      BY <1>2, ChildTimeType
    <3> QED
      BY <1>2, <2>1, <3>1, CallType DEF UpdateCall, Call
  <2>3. h \in Frame /\ h.node = Top.node /\ h.fn = "update" /\ h.t = Top.t
    BY <1>2, <1>3 DEF Frame
  <2>4. NextChild \in ActiveNodes
    BY <1>1, <1>3, <2>1 DEF Updating, NextChild
  <2>5. ChildTime(Top.node, Top.t) = cmd.t \/ NextChild \in FreeNodes
    <3>1. CASE Top.node \in FreeNodes
      BY <2>1, <3>1, FreeBelow DEF NextChild
    <3>2. CASE Top.t = cmd.t
      <4>1. CASE ~(IsFilter(Top.node) /\ Mode(Top.node, Top.t) = "once")
        BY <3>2, <4>1 DEF ChildTime
      <4>2. CASE IsFilter(Top.node) /\ Mode(Top.node, Top.t) = "once"
        <5> DEFINE i == CurrentRange(Top.node, Top.t)
        <5>1. i \in {0} \union (1 .. Len(Ranges[Top.node]))
          BY <1>2, CurrentRangeType
        <5>2. i # 0 /\ Ranges[Top.node][i].mode = "once"
          BY <4>2 DEF Mode
        <5>3. DOMAIN Ranges[Top.node] = 1 .. Len(Ranges[Top.node])
          BY <1>2, ActivityAssumption
        <5> HIDE DEF i
        <5>4. HasOnce(Top.node)
          BY <5>1, <5>2, <5>3 DEF HasOnce
        <5> QED
          BY <1>2, <2>1, <4>2, <5>4 DEF NotNested, NextChild
      <4> QED
        BY <4>1, <4>2
    <3> QED
      BY <1>3, <3>1, <3>2
  <2>6. Top.node \in OpenNodes /\ e.next \notin 1 .. Len(children[e.node])
    BY <1>3, <2>1, <2>2
  <2> HIDE DEF e, h
  <2>7. Calls(stack') \subseteq {e, h} \union Calls(stack)
    BY <1>1, <2>1, <2>2, <2>3, StackOperations
  <2> QED
    BY <1>3, <1>7, <2>2, <2>3, <2>4, <2>5, <2>6, <2>7
<1> QED
  BY <1>4, <1>8, <1>9, <1>10

LEMMA UpdatingPreserved ==
  Invariant /\ Visiting /\ Queueing /\ NotNested /\ Updating /\ [Next]_vars => Updating'
<1> SUFFICES ASSUME Invariant, Visiting, Queueing, NotNested, Updating, [Next]_vars
             PROVE  Updating'
  OBVIOUS
<1>1. Invariant'
  BY NextPreserves
<1>2. CASE UNCHANGED vars
  <2>1. /\ UNCHANGED <<children, enabled, ctx, is_active, visit_time, range, cmd, stack, scene, pc>>
        /\ UNCHANGED state
    BY <1>2 DEF vars, nodeVars, paramVars, lifeVars, activityVars, callVars, ctxVars
  <2>2. UNCHANGED <<ActiveNodes, OpenNodes, FreeNodes>>
    BY <2>1, DecisionsStay DEF FreeNodes
  <2> QED
    BY <2>1, <2>2 DEF Updating
<1>3. CASE Client
  <2>1. pc' # "draw_draw"
    BY <1>3 DEF Client, Create, Configure, SetScene, Draw, Free, NodeUnref, Toggle, AddChild,
       Idle, Start
  <2> QED
    BY <2>1 DEF Updating
<1>4. CASE Command
  <2>1. CASE UpdateScene
    BY <2>1, UpdateStarts
  <2>2. CASE ~UpdateScene
    <3>1. pc' # "draw_draw"
      BY <1>4, <2>2 DEF Command, BackendConfigured, BackendFails, SceneReattached, UnrefScene, AttachScene,
         SceneAttached, SceneRefused, HonorNext, DrawScene, FreeContext, At, Start, Finish
    <3> QED
      BY <3>1 DEF Updating
  <2> QED
    BY <2>1, <2>2
<1>5. CASE GraphWalk \/ ActivityWalk
  <2>1. stack # <<>> /\ pc' = pc
    BY <1>5, WalkGoes DEF Invariant
  <2>2. CASE pc = "draw_draw"
    BY <1>1, <1>5, <2>1, <2>2, UpdatingWalks
  <2>3. CASE pc # "draw_draw"
    BY <2>1, <2>3 DEF Updating
  <2> QED
    BY <2>2, <2>3
<1> QED
  BY <1>2, <1>3, <1>4, <1>5 DEF Next

LEMMA UpdatingHolds ==
  Spec /\ []Reattaches /\ []VisitsAreNew /\ []NotNested =>
    [](Invariant /\ Ordered /\ FramesStand /\ Visiting /\ Queueing /\ Updating)
<1>1. Init => FramesStand /\ Queueing /\ Updating
  BY DEF Init, FramesStand, Queueing, Updating
<1>2. Invariant /\ Ordered /\ FramesStand /\ [Next]_vars => FramesStand'
  BY FramesStandOn
<1>3. Attachment => Tracked
  BY DEF Attachment
<1> QED
  BY <1>1, <1>2, <1>3, VisitingHolds, QueueingPreserved, UpdatingPreserved, PTL DEF Spec

(* UpdatesAreReady: ngli_node_update finds every node it enters prefetched,*)
(* as its assertion asks (nodes.c:502): the visit has queued it, active,   *)
(* and no other context or branch has had it released since; on any graph  *)
(* where no filter stands below one with a "once" range.                   *)
LEMMA UpdatesAreReady ==
  Spec /\ []Reattaches /\ []VisitsAreNew /\ []NotNested => []UpdatesReady
<1>1. Invariant /\ FramesStand /\ Updating => UpdatesReady
  <2> SUFFICES ASSUME Invariant, FramesStand, Updating, Entering("update")
               PROVE  state[Top.node] = Ready
    BY DEF UpdatesReady
  <2>1. stack # <<>> /\ pc = "draw_draw"
    BY DEF Entering, Running, FramesStand
  <2>2. Top \in Calls(stack)
    BY <2>1, RunningCall DEF Invariant
  <2> QED
    BY <2>1, <2>2 DEF Updating
<1> QED
  BY <1>1, UpdatingHolds, PTL

(* FramesCountExactly: CountsAreExact without anything said of the updates *)
(* but what the client asks for: no assertion of nodes.c fails, and both   *)
(* counts of every node are exact.                                         *)
THEOREM FramesCountExactly ==
  Spec /\ []Reattaches /\ []FreesNoScene /\ []VisitsAreNew /\ []NotNested => []CountsAreExact
BY UpdatesAreReady, CountsStayExact, PTL

(* What an update has done so far.  F are the nodes below which there is   *)
(* no filter, D those that are updated for the time of the frame, and T    *)
(* those whose children a draw would go on with.                           *)
Settled(s, F, D, n) == n \in F \/ n \in D \/ \E f \in Calls(s) : f.node = n
Begun(s, n) == \E f \in Calls(s) : f.node = n /\ f.next > 0

(* The root and the children the calls have come to are updated, or on the *)
(* stack; so are those below a node that is done, if it is drawn through,  *)
(* and it is only if the visit let activity through.                       *)
Settles(g, root, s, A, O, F, D, T) ==
  /\ Settled(s, F, D, root)
  /\ \A r \in A \intersect T : r \in F \/ r \in D \/ Begun(s, r) => r \in O
  /\ \A r \in A \intersect D \intersect T : r \notin F =>
       \A i \in 1 .. Len(g[r]) : Settled(s, F, D, g[r][i])
  /\ s # <<>> => \A f \in Calls(Tail(s)) : f.node \notin F =>
       \A i \in 1 .. Len(g[f.node]) : i < f.next => Settled(s, F, D, g[f.node][i])
  /\ s # <<>> /\ Head(s).node \notin F =>
       \A i \in 1 .. Len(g[Head(s).node]) :
         i < Head(s).next /\ (Head(s).next <= Len(g[Head(s).node]) \/ Head(s).node \in T)
           => Settled(s, F, D, g[Head(s).node][i])

(* A call that is done, or that finds its node up to date: E are the nodes *)
(* that are updated then.                                                  *)
LEMMA UpdateReturns ==
  ASSUME NEW g \in [Node -> Seq(Node)], NEW root, NEW s \in Seq(Frame), s # <<>>,
         NEW A, NEW O, NEW F, NEW D, NEW T, NEW E,
         Settles(g, root, s, A, O, F, D, T),
         D \subseteq E \union F, E \subseteq D \union {Head(s).node}, Head(s).node \in E \union F,
         Head(s).node \in D \union F \/ Head(s).next = Len(g[Head(s).node]) + 1
  PROVE  Settles(g, root, Tail(s), A, O, F, E, T)
<1> DEFINE n == Head(s).node
           u == Tail(s)
<1>1. /\ Head(s) \in Frame /\ u \in Seq(Frame) /\ Calls(s) = {Head(s)} \union Calls(u)
      /\ n \in Node /\ Len(g[n]) \in Nat
  <2>1. Head(s) \in Frame /\ u \in Seq(Frame) /\ Calls(s) = {Head(s)} \union Calls(u)
    BY StackTop, CallsBelow
  <2>2. n \in Node
    BY <2>1 DEF Frame
  <2> QED
    BY <2>1, <2>2
<1>2. \A m : Settled(s, F, D, m) => Settled(u, F, E, m)
  BY <1>1 DEF Settled
<1>3. ASSUME NEW r \in A \intersect T, r \in F \/ r \in E \/ Begun(u, r)
      PROVE  r \in O
  <2>1. CASE r \in F \/ r \in D \/ Begun(u, r)
    <3>1. r \in F \/ r \in D \/ Begun(s, r)
      BY <1>1, <2>1 DEF Begun
    <3> QED
      BY <3>1 DEF Settles
  <2>2. CASE r \notin F /\ r \notin D /\ ~Begun(u, r)
    <3>1. r = n /\ Head(s).next = Len(g[n]) + 1
      BY <1>3, <2>2
    <3>2. Head(s).next > 0
      BY <1>1, <3>1
    <3>3. Begun(s, r)
      BY <1>1, <3>1, <3>2 DEF Begun
    <3> QED
      BY <3>3 DEF Settles
  <2> QED
    BY <2>1, <2>2
<1>4. ASSUME NEW r \in A \intersect E \intersect T, r \notin F, NEW i \in 1 .. Len(g[r])
      PROVE  Settled(s, F, D, g[r][i])
  <2>1. CASE r \in D
    BY <1>4, <2>1 DEF Settles
  <2>2. CASE r \notin D
    <3>1. r = n /\ Head(s).next = Len(g[n]) + 1
      BY <1>4, <2>2
    <3>2. i < Head(s).next
      BY <1>1, <1>4, <3>1
    <3> QED
      BY <1>4, <3>1, <3>2 DEF Settles
  <2> QED
    BY <2>1, <2>2
<1>5. ASSUME NEW f \in Calls(u), f.node \notin F, NEW i \in 1 .. Len(g[f.node]), i < f.next
      PROVE  Settled(s, F, D, g[f.node][i])
  BY <1>5 DEF Settles
<1>6. u # <<>> => Head(u) \in Calls(u) /\ Calls(Tail(u)) \subseteq Calls(u)
  BY <1>1, StackTop
<1>7. Settled(s, F, D, root)
  BY DEF Settles
<1> HIDE DEF u, n
<1> QED
  BY <1>2, <1>3, <1>4, <1>5, <1>6, <1>7 DEF Settles, u

(* The running call goes on with its next child.                           *)
LEMMA UpdateGoesOn ==
  ASSUME NEW g \in [Node -> Seq(Node)], NEW root, NEW s \in Seq(Frame), s # <<>>,
         NEW A, NEW O, NEW F, NEW D, NEW T,
         Settles(g, root, s, A, O, F, D, T),
         Head(s).next \in 1 .. Len(g[Head(s).node]),
         NEW e \in Frame, e.node = g[Head(s).node][Head(s).next], e.next = 0,
         NEW h \in Frame, h.node = Head(s).node, h.next = Head(s).next + 1
  PROVE  Settles(g, root, <<e, h>> \o Tail(s), A, O, F, D, T)
<1> DEFINE n == Head(s).node
           k == Head(s).next
           u == <<e, h>> \o Tail(s)
<1>1. /\ Head(s) \in Frame /\ Calls(s) = {Head(s)} \union Calls(Tail(s)) /\ n \in Node
      /\ Len(g[n]) \in Nat /\ k \in Nat \ {0} /\ k <= Len(g[n])
  <2>1. Head(s) \in Frame /\ Calls(s) = {Head(s)} \union Calls(Tail(s))
    BY StackTop, CallsBelow
  <2>2. n \in Node
    BY <2>1 DEF Frame
  <2>3. Len(g[n]) \in Nat
    BY <2>2
  <2> QED
    BY <2>1, <2>2, <2>3
<1>2. Calls(u) = {e, h} \union Calls(Tail(s)) /\ u # <<>>
  BY CallsOfStack, StackOperations
<1>3. Head(u) = e /\ Tail(u) = <<h>> \o Tail(s)
  <2>1. Tail(s) \in Seq(Frame)
    BY StackTop
  <2> QED
    BY <2>1
<1>4. Calls(Tail(u)) = {h} \union Calls(Tail(s))
  BY <1>3, CallsOfStack
<1>5. \A m : Settled(s, F, D, m) => Settled(u, F, D, m)
  BY <1>1, <1>2 DEF Settled
<1>6. ASSUME NEW m, Begun(u, m)
      PROVE  Begun(s, m)
  <2>1. PICK f \in Calls(u) : f.node = m /\ f.next > 0
    BY <1>6 DEF Begun
  <2>2. CASE f = h
    <3>1. Head(s) \in Calls(s) /\ Head(s).next > 0 /\ Head(s).node = m
      BY <1>1, <2>1, <2>2
    <3> QED
      BY <3>1 DEF Begun
  <2>3. CASE f # h
    <3>1. f # e
      BY <2>1
    <3>2. f \in Calls(Tail(s))
      <4> HIDE DEF u
      <4> QED
        BY <1>2, <2>3, <3>1
    <3> QED
      BY <1>1, <2>1, <3>2 DEF Begun
  <2> QED
    BY <2>2, <2>3
<1>7. ASSUME n \notin F, NEW i \in 1 .. Len(g[n]), i < h.next
      PROVE  Settled(u, F, D, g[n][i])
  <2>1. i < k \/ i = k
    BY <1>1, <1>7
  <2>2. CASE i = k
    BY <1>2, <2>2 DEF Settled
  <2>3. CASE i < k
    <3>1. Settled(s, F, D, g[n][i])
      BY <1>1, <1>7, <2>3 DEF Settles
    <3> QED
      BY <1>5, <3>1
  <2> QED
    BY <2>1, <2>2, <2>3
<1>8. ASSUME NEW f \in Calls(Tail(u)), f.node \notin F, NEW i \in 1 .. Len(g[f.node]), i < f.next
      PROVE  Settled(u, F, D, g[f.node][i])
  <2>1. CASE f = h
    BY <1>7, <1>8, <2>1
  <2>2. CASE f \in Calls(Tail(s))
    <3>1. Settled(s, F, D, g[f.node][i])
      BY <1>8, <2>2 DEF Settles
    <3> QED
      BY <1>5, <3>1
  <2> QED
    BY <1>4, <1>8, <2>1, <2>2
<1>9. \A i \in 1 .. Len(g[e.node]) : ~(i < e.next)
  <2>1. e.node \in Node
    BY DEF Frame
  <2> QED
    BY <2>1
<1>10. Settled(s, F, D, root)
  BY DEF Settles
<1>11. ASSUME NEW r \in A \intersect T, r \in F \/ r \in D \/ Begun(u, r)
       PROVE  r \in O
  BY <1>6, <1>11 DEF Settles
<1>12. ASSUME NEW r \in A \intersect D \intersect T, r \notin F, NEW i \in 1 .. Len(g[r])
       PROVE  Settled(s, F, D, g[r][i])
  BY <1>12 DEF Settles
<1>13. Settles(g, root, u, A, O, F, D, T)
  <2> HIDE DEF u, n, k
  <2> QED
    BY <1>2, <1>3, <1>5, <1>8, <1>9, <1>10, <1>11, <1>12 DEF Settles
<1> QED
  BY <1>13

(* The running call starts: what is drawn through changes at its node.     *)
LEMMA UpdateEnters ==
  ASSUME NEW g \in [Node -> Seq(Node)], NEW root, NEW s \in Seq(Frame), s # <<>>,
         NEW A, NEW O, NEW F, NEW D, NEW T, NEW Q,
         Settles(g, root, s, A, O, F, D, T),
         Head(s).node \notin F => Head(s).node \notin D,
         \A r \in Q \ T : r = Head(s).node,
         Head(s).node \in Q => Head(s).node \in O,
         NEW h \in Frame, h.node = Head(s).node,
         h.next = 1 \/ (h.next = Len(g[h.node]) + 1 /\ (h.node \in Q => g[h.node] = <<>>))
  PROVE  Settles(g, root, <<h>> \o Tail(s), A, O, F, D, Q)
<1> DEFINE n == Head(s).node
           u == <<h>> \o Tail(s)
<1>1. /\ Head(s) \in Frame /\ Calls(s) = {Head(s)} \union Calls(Tail(s)) /\ n \in Node
      /\ Len(g[n]) \in Nat
  <2>1. Head(s) \in Frame /\ Calls(s) = {Head(s)} \union Calls(Tail(s))
    BY StackTop, CallsBelow
  <2>2. n \in Node
    BY <2>1 DEF Frame
  <2> QED
    BY <2>1, <2>2
<1>2. Calls(u) = {h} \union Calls(Tail(s)) /\ u # <<>> /\ Head(u) = h /\ Tail(u) = Tail(s)
  <2>1. Tail(s) \in Seq(Frame)
    BY StackTop
  <2> QED
    BY <2>1, CallsOfStack, StackOperations
<1>3. \A m : Settled(s, F, D, m) => Settled(u, F, D, m)
  BY <1>1, <1>2 DEF Settled
<1>4. ASSUME NEW r \in A \intersect Q, r \in F \/ r \in D \/ Begun(u, r)
      PROVE  r \in O
  <2>1. CASE r = n
    BY <2>1
  <2>2. CASE r # n
    <3>1. Begun(u, r) => Begun(s, r)
      BY <1>1, <1>2, <2>2 DEF Begun
    <3> QED
      BY <1>4, <2>2, <3>1 DEF Settles
  <2> QED
    BY <2>1, <2>2
<1>5. ASSUME NEW r \in A \intersect D \intersect Q, r \notin F, NEW i \in 1 .. Len(g[r])
      PROVE  Settled(s, F, D, g[r][i])
  BY <1>5 DEF Settles
<1>6. ASSUME n \notin F, NEW i \in 1 .. Len(g[n]), i < h.next, h.next <= Len(g[n]) \/ n \in Q
      PROVE  FALSE
  <2>1. h.next # 1
    BY <1>1, <1>6
  <2>2. h.next = Len(g[n]) + 1 /\ (n \in Q => g[n] = <<>>)
    BY <2>1
  <2>3. ~(h.next <= Len(g[n]))
    BY <1>1, <2>2
  <2> QED
    BY <1>6, <2>2, <2>3
<1>7. ASSUME NEW f \in Calls(Tail(s)), f.node \notin F, NEW i \in 1 .. Len(g[f.node]), i < f.next
      PROVE  Settled(s, F, D, g[f.node][i])
  BY <1>7 DEF Settles
<1>8. Settled(s, F, D, root)
  BY DEF Settles
<1>9. Head(u).node \notin F =>
        \A i \in 1 .. Len(g[Head(u).node]) :
          ~(i < Head(u).next /\ (Head(u).next <= Len(g[Head(u).node]) \/ Head(u).node \in Q))
  <2> HIDE DEF u
  <2> QED
    BY <1>2, <1>6
<1>10. Settles(g, root, u, A, O, F, D, Q)
  <2> HIDE DEF u, n
  <2> QED
    BY <1>2, <1>3, <1>4, <1>5, <1>7, <1>8, <1>9 DEF Settles
<1> QED
  BY <1>10

LEMMA SettlesAtFirst ==
  ASSUME NEW g \in [Node -> Seq(Node)], NEW root, NEW e \in Frame, e.node = root, e.next = 0,
         NEW A, NEW O, NEW F, NEW D, NEW T,
         A \intersect D \subseteq F, A \intersect F \intersect T \subseteq O
  PROVE  Settles(g, root, <<e>>, A, O, F, D, T)
<1>1. Calls(<<e>>) = {e} /\ Tail(<<e>>) = <<>> /\ Calls(<<>>) = {} /\ Head(<<e>>) = e /\ e.node \in Node
  BY DEF Calls, Frame
<1>2. Settled(<<e>>, F, D, root)
  BY <1>1 DEF Settled
<1>3. \A r : ~Begun(<<e>>, r)
  BY <1>1 DEF Begun
<1>4. \A i \in 1 .. Len(g[e.node]) : ~(i < e.next)
  BY <1>1
<1> DEFINE s == <<e>>
<1>5. Settles(g, root, s, A, O, F, D, T)
  <2>1. Head(s) = e /\ Calls(Tail(s)) = {}
    BY <1>1
  <2> HIDE DEF s
  <2> QED
    BY <1>2, <1>3, <1>4, <2>1 DEF Settles, s
<1> QED
  BY <1>5

DoneNodes    == {n \in Node : last_update_time[n] = cmd.t}
DrawnThrough == {n \in Node : ChildrenDrawn(n)}

Settling ==
  pc = "draw_draw" /\ ~Failed =>
    Settles(children, scene[cmd.ctx], stack, ActiveNodes, OpenNodes, FreeNodes, DoneNodes, DrawnThrough)

(* No node of the scene above a filter was updated yet for the time a      *)
(* frame is to be updated for: ngli_node_update skips a node that was.     *)
UpdateBegins == pc = "draw_draw" /\ stack = <<UpdateCall(scene[cmd.ctx], cmd.t)>>
UpdatesAreNew ==
  UpdateBegins => \A n \in Node \ FreeNodes : InFrame(n) => last_update_time[n] # cmd.t

(* Below a node that is drawn through, and that has no filter below, or is *)
(* none, activity goes down.                                               *)
LEMMA DrawnIsOpen ==
  ASSUME NEW n \in Node, ~IsFilter(n), ChildrenDrawn(n)
  PROVE  n \in OpenNodes
  BY DEF ChildrenDrawn, OpenNodes, ChildActive

LEMMA FreeAreOpen == FreeNodes \intersect DrawnThrough \subseteq OpenNodes
  BY FreeBelow, DrawnIsOpen DEF DrawnThrough

LEMMA SettlingStarts ==
  ASSUME Invariant, Invariant', UpdatesAreNew', UpdateScene
  PROVE  Settling'
<1> DEFINE e == UpdateCall(scene[cmd.ctx], cmd.t)
<1>1. /\ stack' = <<e>> /\ pc' = "draw_draw" /\ UNCHANGED <<nodeVars, scene, cmd>> /\ pc = "draw_honor"
  BY DEF UpdateScene, At, Start, nodesUnchanged, ctxVars
<1>2. UNCHANGED <<children, enabled, ctx, is_active, visit_time, range, last_update_time>>
  BY <1>1 DEF nodeVars, paramVars, lifeVars, activityVars
<1>3. UNCHANGED <<ActiveNodes, OpenNodes>>
  BY <1>1, <1>2, DecisionsStay
<1>4. UNCHANGED <<FreeNodes, DoneNodes, DrawnThrough>>
  BY <1>1, <1>2 DEF FreeNodes, DoneNodes, DrawnThrough, ChildrenDrawn
<1>5. e \in Frame /\ e.node = scene[cmd.ctx] /\ e.next = 0
  <2>1. scene[cmd.ctx] \in Node /\ cmd.t \in Time \union {Unset}
    BY <1>1 DEF Invariant, CommandOK, TypeOK, CmdData
  <2> QED
    BY <2>1, CallType DEF UpdateCall, Call
<1>6. ActiveNodes \intersect DoneNodes \subseteq FreeNodes
  <2>1. \A n \in Node \ FreeNodes : InFrame(n)' => last_update_time[n] # cmd.t
    BY <1>1, <1>2, <1>4 DEF UpdatesAreNew, UpdateBegins
  <2>2. \A n \in ActiveNodes : n \in Node /\ InFrame(n)'
    BY <1>1, <1>2 DEF ActiveNodes, InFrame
  <2> QED
    BY <2>1, <2>2 DEF DoneNodes
<1>7. children \in [Node -> Seq(Node)]
  BY DEF Invariant, TypeOK
<1> HIDE DEF e
<1>8. Settles(children, scene[cmd.ctx], <<e>>, ActiveNodes, OpenNodes, FreeNodes, DoneNodes, DrawnThrough)
  BY <1>5, <1>6, <1>7, FreeAreOpen, SettlesAtFirst
<1> QED
  BY <1>1, <1>2, <1>3, <1>4, <1>8 DEF Settling

LEMMA SettlingWalks ==
  ASSUME Invariant, Invariant', Updating, Settling, pc = "draw_draw", GraphWalk \/ ActivityWalk
  PROVE  Settling'
<1> USE DEF Invariant
<1>1. /\ stack # <<>> /\ stack \in Seq(Frame) /\ Top = Head(stack)
      /\ UNCHANGED <<scene, pc, cmd>> /\ children \in [Node -> Seq(Node)]
      /\ Top.t = cmd.t \/ Top.node \in FreeNodes
      /\ UpdateSkips \/ UpdateEnter \/ UpdateChild \/ UpdateLeave \/ UpdateFails
      /\ UNCHANGED <<children, enabled>>
      /\ UNCHANGED <<ActiveNodes, OpenNodes, FreeNodes>>
  BY UpdateSteps
<1>2. /\ Top \in Frame /\ Top \in Calls(stack) /\ Top.node \in Node
      /\ Top.next \in Nat /\ Len(children[Top.node]) \in Nat
      /\ Top.next \in 1 .. Len(children[Top.node]) => NextChild \in Node
      /\ Top.t \in Time \union {Unset}
  BY <1>1, RunningCall
<1> DEFINE g == children
           n == Top.node
           S(u, D, T) == Settles(g, scene[cmd.ctx], u, ActiveNodes, OpenNodes, FreeNodes, D, T)
<1>3. SUFFICES ASSUME ~Failed', ~Failed, S(stack, DoneNodes, DrawnThrough)
               PROVE  S(stack', DoneNodes', DrawnThrough')
  <2>1. ~Failed' => ~Failed
    BY <1>1 DEF UpdateSkips, UpdateEnter, UpdateChild, UpdateLeave, UpdateFails, CallChild, Return,
       Fail, Abort, Descend, SkipChildren, Failed
  <2> QED
    BY <1>1, <2>1, <1>3 DEF Settling
<1>4. ASSUME UNCHANGED <<last_update_time, range>>
      PROVE  UNCHANGED <<DoneNodes, DrawnThrough>>
  BY <1>1, <1>4 DEF DoneNodes, DrawnThrough, ChildrenDrawn
<1>5. CASE UpdateSkips
  <2>1. /\ last_update_time[n] = Top.t /\ stack' \in {stack, Tail(stack)}
        /\ UNCHANGED <<last_update_time, range>>
    BY <1>5 DEF UpdateSkips, AlreadyUpdated, Abort, Return, nodeVars, activityVars
  <2>2. n \in DoneNodes \union FreeNodes
    BY <1>1, <1>2, <2>1 DEF DoneNodes
  <2>3. S(Tail(stack), DoneNodes, DrawnThrough)
    BY <1>1, <1>3, <2>2, UpdateReturns
  <2> HIDE DEF S
  <2> QED
    BY <1>3, <1>4, <2>1, <2>3
<1>6. CASE UpdateLeave
  <2>1. /\ Top.next = Len(children[n]) + 1 /\ stack' = Tail(stack)
        /\ last_update_time' = [last_update_time EXCEPT ![n] = Top.t] /\ UNCHANGED range
        /\ last_update_time \in [Node -> Time \union {Unset}]
    BY <1>6 DEF UpdateLeave, Leaving, Return, TypeOK
  <2>2. /\ DoneNodes \subseteq DoneNodes' \union FreeNodes
        /\ DoneNodes' \subseteq DoneNodes \union {n}
        /\ n \in DoneNodes' \union FreeNodes
    BY <1>1, <1>2, <2>1 DEF DoneNodes
  <2>3. DrawnThrough' = DrawnThrough
    BY <1>1, <2>1 DEF DrawnThrough, ChildrenDrawn
  <2> DEFINE E == DoneNodes'
  <2>4. S(Tail(stack), E, DrawnThrough)
    <3>1. /\ DoneNodes \subseteq E \union FreeNodes /\ E \subseteq DoneNodes \union {Head(stack).node}
          /\ Head(stack).node \in E \union FreeNodes
          /\ Head(stack).next = Len(g[Head(stack).node]) + 1
      BY <1>1, <2>1, <2>2
    <3> HIDE DEF E
    <3> QED
      BY <1>1, <1>3, <3>1, UpdateReturns
  <2> HIDE DEF S
  <2> QED
    BY <2>1, <2>3, <2>4
<1>7. CASE UpdateChild
  <2> DEFINE e == UpdateCall(NextChild, ChildTime(Top.node, Top.t))
             h == [Top EXCEPT !.next = @ + 1]
  <2>1. /\ Top.next \in 1 .. Len(children[Top.node]) /\ stack' = <<e, h>> \o Tail(stack)
        /\ UNCHANGED <<last_update_time, range>>
    BY <1>7 DEF UpdateChild, CallChild, nodeVars, activityVars
  <2>2. e \in Frame /\ e.node = NextChild /\ e.next = 0
    <3>1. ChildTime(Top.node, Top.t) \in Time \union {Unset}
      BY <1>2, ChildTimeType
    <3> QED
      BY <1>2, <2>1, <3>1, CallType DEF UpdateCall, Call
  <2>3. h \in Frame /\ h.node = Top.node /\ h.next = Top.next + 1
    BY <1>2 DEF Frame
  <2> HIDE DEF e, h
  <2>4. S(<<e, h>> \o Tail(stack), DoneNodes, DrawnThrough)
    BY <1>1, <1>3, <2>1, <2>2, <2>3, UpdateGoesOn DEF NextChild
  <2> HIDE DEF S
  <2> QED
    BY <1>4, <2>1, <2>4
<1>8. CASE UpdateEnter
  <2>1. /\ last_update_time[n] # Top.t /\ UNCHANGED last_update_time
        /\ \/ Abort /\ UNCHANGED range
           \/ /\ range' = [range EXCEPT ![n] = UpdatedRange(n, Top.t)]
              /\ IF ChildrenUpdated(n, Top.t) THEN Descend ELSE SkipChildren
    BY <1>8 DEF UpdateEnter, AlreadyUpdated, activityVars
  <2>2. CASE Abort /\ UNCHANGED range
    <3>1. stack' = stack
      BY <2>2 DEF Abort
    <3> HIDE DEF S
    <3> QED
      BY <1>3, <1>4, <2>1, <2>2, <3>1
  <2>3. CASE /\ range' = [range EXCEPT ![n] = UpdatedRange(n, Top.t)]
             /\ IF ChildrenUpdated(n, Top.t) THEN Descend ELSE SkipChildren
    <3> DEFINE k == IF ChildrenUpdated(n, Top.t) THEN 1 ELSE Len(children[n]) + 1
               h == [Top EXCEPT !.next = k]
    <3>1. k \in Nat /\ stack' = <<h>> \o Tail(stack)
      BY <1>2, <2>3 DEF Descend, SkipChildren
    <3>2. h \in Frame /\ h.node = n /\ h.next = k
      BY <1>2, <3>1 DEF Frame
    <3>3. n \notin FreeNodes => n \notin DoneNodes
      BY <1>1, <2>1 DEF DoneNodes
    <3>4. range \in [Node -> RangeData] /\ \A r \in Node \ {n} : range'[r] = range[r]
      BY <2>3 DEF TypeOK
    <3>5. \A r \in DrawnThrough' \ DrawnThrough : r = n
      BY <1>1, <3>4 DEF DrawnThrough, ChildrenDrawn
(* It is drawn through exactly when its children are to be updated.        *)
    <3>6. n \in DrawnThrough' <=> ChildrenUpdated(n, Top.t)
      <4>1. range'[n] = UpdatedRange(n, Top.t)
        BY <1>2, <2>3, <3>4
      <4> QED
        BY <1>1, <1>2, <4>1 DEF DrawnThrough, ChildrenDrawn, ChildrenUpdated
    <3>7. n \in DrawnThrough' => n \in OpenNodes
      BY <1>1, <1>2, <3>6, UpdateOpensRightly
    <3>8. h.next = 1 \/ (h.next = Len(g[h.node]) + 1 /\ (h.node \in DrawnThrough' => g[h.node] = <<>>))
      <4> HIDE DEF h
      <4> QED
        BY <3>2, <3>6
    <3>9. UNCHANGED DoneNodes
      BY <1>1, <2>1 DEF DoneNodes
    <3> DEFINE Q == DrawnThrough'
    <3>10. S(<<h>> \o Tail(stack), DoneNodes, Q)
      <4>1. /\ Head(stack).node \notin FreeNodes => Head(stack).node \notin DoneNodes
            /\ \A r \in Q \ DrawnThrough : r = Head(stack).node
            /\ Head(stack).node \in Q => Head(stack).node \in OpenNodes
            /\ h \in Frame /\ h.node = Head(stack).node
        <5> HIDE DEF h
        <5> QED
          BY <1>1, <3>2, <3>3, <3>5, <3>7
      <4>2. h.next = 1 \/ (h.next = Len(g[h.node]) + 1 /\ (h.node \in Q => g[h.node] = <<>>))
        BY <3>8
      <4> HIDE DEF h, Q
      <4> QED
        BY <1>1, <1>3, <4>1, <4>2, UpdateEnters
    <3> HIDE DEF S, h
    <3> QED
      BY <3>1, <3>9, <3>10
  <2> QED
    BY <2>1, <2>2, <2>3
<1>9. CASE UpdateFails
  BY <1>3, <1>9 DEF UpdateFails, Fail, Failed
<1> HIDE DEF S
<1> QED
  BY <1>1, <1>5, <1>6, <1>7, <1>8, <1>9

LEMMA SettlingPreserved ==
  Invariant /\ Updating /\ Settling /\ UpdatesAreNew' /\ [Next]_vars => Settling'
<1> SUFFICES ASSUME Invariant, Updating, Settling, UpdatesAreNew', [Next]_vars
             PROVE  Settling'
  OBVIOUS
<1>1. Invariant'
  BY NextPreserves
<1>2. CASE UNCHANGED vars
  <2>1. /\ UNCHANGED <<children, enabled, ctx, is_active, visit_time, range, cmd, stack, scene, pc>>
        /\ UNCHANGED <<last_update_time, status>>
    BY <1>2 DEF vars, nodeVars, paramVars, lifeVars, activityVars, callVars, ctxVars
  <2>2. UNCHANGED <<ActiveNodes, OpenNodes>>
    BY <2>1, DecisionsStay
  <2>3. UNCHANGED <<FreeNodes, DoneNodes, DrawnThrough>>
    BY <2>1 DEF FreeNodes, DoneNodes, DrawnThrough, ChildrenDrawn
  <2> QED
    BY <2>1, <2>2, <2>3 DEF Settling, Failed
<1>3. CASE Client
  <2>1. pc' # "draw_draw"
    BY <1>3 DEF Client, Create, Configure, SetScene, Draw, Free, NodeUnref, Toggle, AddChild,
       Idle, Start
  <2> QED
    BY <2>1 DEF Settling
<1>4. CASE Command
  <2>1. CASE UpdateScene
    BY <1>1, <2>1, SettlingStarts
  <2>2. CASE ~UpdateScene
    <3>1. pc' # "draw_draw"
      BY <1>4, <2>2 DEF Command, BackendConfigured, BackendFails, SceneReattached, UnrefScene, AttachScene,
         SceneAttached, SceneRefused, HonorNext, DrawScene, FreeContext, At, Start, Finish
    <3> QED
      BY <3>1 DEF Settling
  <2> QED
    BY <2>1, <2>2
<1>5. CASE GraphWalk \/ ActivityWalk
  <2>1. stack # <<>> /\ pc' = pc
    BY <1>5, WalkGoes DEF Invariant
  <2>2. CASE pc = "draw_draw"
    BY <1>1, <1>5, <2>2, SettlingWalks
  <2>3. CASE pc # "draw_draw"
    BY <2>1, <2>3 DEF Settling
  <2> QED
    BY <2>2, <2>3
<1> QED
  BY <1>2, <1>3, <1>4, <1>5 DEF Next

(***************************************************************************)
(* The draw                                                                *)
(***************************************************************************)

(* The draw stays among nodes R that are prefetched, and leads out of them *)
(* nowhere.                                                                *)
Drawable(R) ==
  \A r \in R : /\ state[r] = Ready
               /\ ChildrenDrawn(r) => \A i \in 1 .. Len(children[r]) : children[r][i] \in R
Drawing ==
  stack # <<>> /\ Top.fn = "draw" =>
    \E R \in SUBSET Node :
      /\ Drawable(R)
      /\ \A f \in Calls(stack) :
           f.node \in R /\ (f.next \in 1 .. Len(children[f.node]) => ChildrenDrawn(f.node))

(* What an update that succeeded leaves can be drawn.                      *)
LEMMA DrawingStarts ==
  ASSUME Invariant, Updating, Settling, DrawScene
  PROVE  Drawing'
<1> USE DEF Invariant
<1>1. CASE stack' = <<>>
  BY <1>1 DEF Drawing
<1>2. CASE stack' # <<>>
  <2> DEFINE e == DrawCall(scene[cmd.ctx])
  <2>1. /\ pc = "draw_draw" /\ stack = <<>> /\ ~Failed /\ stack' = <<e>>
        /\ UNCHANGED nodeVars
    BY <1>2 DEF DrawScene, At, nodesUnchanged
  <2>2. UNCHANGED <<children, enabled, range, state>>
    BY <2>1 DEF nodeVars, paramVars, lifeVars
  <2>3. \A s, n : s = <<>> => (Settled(s, FreeNodes, DoneNodes, n) <=> n \in FreeNodes \/ n \in DoneNodes)
    BY DEF Settled, Calls
  <2>4. Settles(children, scene[cmd.ctx], stack, ActiveNodes, OpenNodes, FreeNodes, DoneNodes, DrawnThrough)
    BY <2>1 DEF Settling
  <2> PICK R : R = {n \in ActiveNodes : n \in FreeNodes \/ n \in DoneNodes}
    OBVIOUS
  <2>5. scene[cmd.ctx] \in R
    BY <2>1, <2>3, <2>4 DEF Updating, Settles
  <2>6. ASSUME NEW r \in R
        PROVE  /\ state[r] = Ready /\ r \in Node
               /\ ChildrenDrawn(r) => \A i \in 1 .. Len(children[r]) : children[r][i] \in R
    <3>1. r \in Node /\ state[r] = Ready
      BY <2>1 DEF Updating, ActiveNodes
    <3>2. ASSUME ChildrenDrawn(r), NEW i \in 1 .. Len(children[r])
          PROVE  children[r][i] \in R
      <4>1. r \in DrawnThrough
        BY <3>1, <3>2 DEF DrawnThrough
      <4>2. r \in OpenNodes
        BY <2>4, <4>1 DEF Settles
      <4>3. children[r][i] \in ActiveNodes
        BY <2>1, <4>2 DEF Updating
      <4>4. CASE r \in FreeNodes
        BY <4>3, <4>4, FreeBelow
      <4>5. CASE r \notin FreeNodes
        <5>1. r \in ActiveNodes \intersect DoneNodes \intersect DrawnThrough
          BY <4>1, <4>5
        <5>2. Settled(stack, FreeNodes, DoneNodes, children[r][i])
          BY <2>4, <4>5, <5>1 DEF Settles
        <5> QED
          BY <2>1, <2>3, <4>3, <5>2
      <4> QED
        BY <4>4, <4>5
    <3> QED
      BY <3>1, <3>2
  <2>7. e.node = scene[cmd.ctx] /\ e.next = 0
    BY DEF DrawCall, Call
  <2> HIDE DEF e
  <2>8. Drawable(R)'
    BY <2>2, <2>6 DEF Drawable, ChildrenDrawn
  <2>9. \A f \in Calls(stack') : f = e
    BY <2>1 DEF Calls
  <2>10. \A k : 0 \notin 1 .. k
    OBVIOUS
  <2>11. R \in SUBSET Node
    BY <2>6
  <2> QED
    BY <2>5, <2>7, <2>8, <2>9, <2>10, <2>11 DEF Drawing
<1> QED
  BY <1>1, <1>2

LEMMA DrawingWalks ==
  ASSUME Invariant, Ordered, Drawing, GraphWalk \/ ActivityWalk
  PROVE  Drawing'
<1> USE DEF Invariant
<1>1. /\ stack # <<>> /\ stack \in Seq(Frame) /\ Top = Head(stack) /\ Goes(stack, stack') /\ OneWalk(stack)
      /\ children \in [Node -> Seq(Node)]
  BY WalkGoes DEF TypeOK, Top, Ordered
<1>2. /\ Top \in Frame /\ Top \in Calls(stack) /\ Top.node \in Node
      /\ Top.next \in Nat /\ Len(children[Top.node]) \in Nat
      /\ Top.next \in 1 .. Len(children[Top.node]) => NextChild \in Node
  BY <1>1, RunningCall
<1>3. stack' # <<>> => Top'.fn = Top.fn
  BY <1>1, WalkGoesOn DEF Alike, Top
<1>4. CASE Top.fn # "draw"
  BY <1>3, <1>4 DEF Drawing
<1>5. CASE Top.fn = "draw"
  <2>1. DrawEnter \/ DrawChild \/ DrawLeave
    BY <1>5 DEF ActivityWalk, ActivityStep, VisitSkips, VisitEnter, VisitChild, VisitLeave,
       GraphWalk, GraphStep, AttachEnter, AttachChild, AttachSucceeds, AttachFails,
       DetachSkipsOther, DetachEnter, DetachEnterUninit, DetachChild, DetachLeave,
       UnrefEnter, UnrefChild, UnrefLeave,
       UpdateSkips, UpdateEnter, UpdateChild, UpdateLeave, UpdateFails, Entering, Leaving, Running
  <2>2. UNCHANGED <<children, enabled, range, state>>
    BY <2>1 DEF DrawEnter, DrawChild, DrawLeave, CallChild, nodeVars, paramVars, lifeVars
  <2>3. PICK R \in SUBSET Node :
          /\ Drawable(R)
          /\ \A f \in Calls(stack) :
               f.node \in R /\ (f.next \in 1 .. Len(children[f.node]) => ChildrenDrawn(f.node))
    BY <1>1, <1>5 DEF Drawing
  <2>4. Drawable(R)'
    BY <2>2, <2>3 DEF Drawable, ChildrenDrawn
  <2>5. \A m : ChildrenDrawn(m)' <=> ChildrenDrawn(m)
    BY <2>2 DEF ChildrenDrawn
  <2>6. ASSUME \A f \in Calls(stack') :
                 \/ f \in Calls(stack)
                 \/ f.node \in R /\ (f.next \in 1 .. Len(children[f.node]) => ChildrenDrawn(f.node))
        PROVE  Drawing'
    BY <2>2, <2>3, <2>4, <2>5, <2>6 DEF Drawing
  <2>7. CASE DrawLeave
    <3>1. Calls(stack') \subseteq Calls(stack)
      BY <1>1, <2>7, StackTop DEF DrawLeave, Return
    <3> QED
      BY <2>6, <3>1
  <2>8. CASE DrawEnter
    <3> DEFINE k == IF ChildrenDrawn(Top.node) THEN 1 ELSE Len(children[Top.node]) + 1
               h == [Top EXCEPT !.next = k]
    <3>1. k \in Nat /\ stack' = <<h>> \o Tail(stack)
      BY <1>2, <2>8 DEF DrawEnter, Descend, SkipChildren
    <3>2. h \in Frame /\ h.node = Top.node /\ h.next = k
      BY <1>2, <3>1 DEF Frame
    <3>3. k \in 1 .. Len(children[Top.node]) => ChildrenDrawn(Top.node)
      BY <1>2
    <3> HIDE DEF h, k
    <3>4. Calls(stack') \subseteq {h} \union Calls(stack)
      BY <1>1, <3>1, <3>2, StackOperations
    <3> QED
      BY <1>2, <2>3, <2>6, <3>2, <3>3, <3>4
  <2>9. CASE DrawChild
    <3> DEFINE e == DrawCall(NextChild)
               h == [Top EXCEPT !.next = @ + 1]
    <3>1. Top.next \in 1 .. Len(children[Top.node]) /\ stack' = <<e, h>> \o Tail(stack)
      BY <2>9 DEF DrawChild, CallChild
    <3>2. e \in Frame /\ e.node = NextChild /\ e.next = 0
      BY <1>2, <3>1, CallType, NodeAssumption DEF DrawCall, Call, Frame, Walk
    <3>3. h \in Frame /\ h.node = Top.node
      BY <1>2 DEF Frame
    <3>4. Top.node \in R /\ ChildrenDrawn(Top.node)
      BY <1>2, <2>3, <3>1
    <3>5. NextChild \in R
      BY <2>3, <3>1, <3>4 DEF Drawable, NextChild
    <3>6. \A m : 0 \notin 1 .. m
      OBVIOUS
    <3> HIDE DEF e, h
    <3>7. Calls(stack') \subseteq {e, h} \union Calls(stack)
      BY <1>1, <3>1, <3>2, <3>3, StackOperations
    <3> QED
      BY <2>6, <3>2, <3>3, <3>4, <3>5, <3>6, <3>7
  <2> QED
    BY <2>1, <2>7, <2>8, <2>9
<1> QED
  BY <1>4, <1>5

LEMMA DrawingPreserved ==
  Invariant /\ Ordered /\ Updating /\ Settling /\ Drawing /\ [Next]_vars => Drawing'
<1> SUFFICES ASSUME Invariant, Ordered, Updating, Settling, Drawing, [Next]_vars
             PROVE  Drawing'
  OBVIOUS
<1>1. CASE UNCHANGED vars
  <2>1. UNCHANGED <<children, enabled, range, state, stack>>
    BY <1>1 DEF vars, nodeVars, paramVars, lifeVars, callVars
  <2> QED
    BY <2>1 DEF Drawing, Drawable, ChildrenDrawn, Top
<1>2. ASSUME NEW e, e.fn # "draw", stack' = <<e>>
      PROVE  Drawing'
  <2>1. Top' = e
    BY <1>2 DEF Top
  <2> QED
    BY <1>2, <2>1 DEF Drawing
<1>3. stack' = <<>> => Drawing'
  BY DEF Drawing
<1>4. /\ \A c, n : /\ AttachCall(n, c).fn # "draw" /\ DetachCall(n, c).fn # "draw"
                   /\ UnrefCall(n).fn # "draw"
      /\ \A n, t : VisitCall(n, TRUE, t).fn # "draw" /\ UpdateCall(n, t).fn # "draw"
  BY DEF AttachCall, DetachCall, UnrefCall, VisitCall, UpdateCall, Call
<1>5. CASE Client
  <2>1. \/ stack' = <<>>
        \/ \E c, n, t : stack' \in {<<DetachCall(n, c)>>, <<UnrefCall(n)>>, <<VisitCall(n, TRUE, t)>>}
    BY <1>5 DEF Client, Create, Configure, SetScene, Draw, Free, NodeUnref, Toggle, AddChild,
       Idle, Start, callVars
  <2> QED
    BY <1>2, <1>3, <1>4, <2>1
<1>6. CASE Command
  <2>1. CASE DrawScene
    BY <2>1, DrawingStarts
  <2>2. CASE ~DrawScene
    <3>1. \/ stack' = <<>>
          \/ \E c, n, t : stack' \in {<<AttachCall(n, c)>>, <<DetachCall(n, c)>>, <<UnrefCall(n)>>,
                                      <<UpdateCall(n, t)>>}
      BY <1>6, <2>2 DEF Command, BackendConfigured, BackendFails, SceneReattached, UnrefScene, AttachScene,
         SceneAttached, SceneRefused, HonorNext, HonorNode, HonorFails, UpdateScene, FreeContext, At,
         Start, Fail, callVars
    <3> QED
      BY <1>2, <1>3, <1>4, <3>1
  <2> QED
    BY <2>1, <2>2
<1>7. CASE GraphWalk \/ ActivityWalk
  BY <1>7, DrawingWalks
<1> QED
  BY <1>1, <1>5, <1>6, <1>7 DEF Next

(* DrawsAreReady: ngli_node_draw, which checks nothing, finds every node   *)
(* it enters prefetched: the visit, the prefetches, the update and the     *)
(* draw each choose the children they go on with, and agree.               *)
THEOREM DrawsAreReady ==
  Spec /\ []Reattaches /\ []VisitsAreNew /\ []NotNested /\ []UpdatesAreNew => []DrawReady
<1>1. Init => Settling /\ Drawing
  BY DEF Init, Settling, Drawing
<1>2. Invariant /\ Drawing => DrawReady
  <2> SUFFICES ASSUME Invariant, Drawing, Entering("draw")
               PROVE  state[Top.node] = Ready
    BY DEF DrawReady
  <2>1. stack # <<>> /\ Top.fn = "draw" /\ Top \in Calls(stack)
    BY RunningCall DEF Entering, Running, Invariant
  <2> QED
    BY <2>1 DEF Drawing, Drawable
<1> QED
  BY <1>1, <1>2, UpdatingHolds, SettlingPreserved, DrawingPreserved, PTL DEF Spec

(***************************************************************************)
(* What a frame leaves prefetched                                          *)
(***************************************************************************)

(* The nodes of the scene that the visit in progress has entered, and      *)
(* those that it finds in the scene c if it goes down to the active ones.  *)
Seen       == {n \in Node : InFrame(n) /\ visit_time[n] = cmd.t}
Active     == {n \in Node : is_active[n]}
Stirred(c) == IF pc = "draw_honor" /\ c = cmd.ctx THEN Active \union Seen ELSE Active

(* The nodes of c that hold resources can be found: active nodes lead to   *)
(* them from the scene.                                                    *)
Holding(c)  == {n \in Prefetching : ctx[n] = c /\ state[n] = Ready}
FoundFor(c) == \A n \in Holding(c) : scene[c] \in Node /\ ReachedIn(children, scene[c], Stirred(c), n)
Found       == \A c \in Ctx : FoundFor(c)

(* A visit finds them, and leaves active nodes that lead to one another.   *)
Searching ==
  pc = "draw_honor" =>
    /\ \A f \in Calls(stack) : f.next > 0 => f.node \in Seen
    /\ \A n \in Node : Listed(n) => n \in Seen
    /\ Looks(children, stack, Seen, Active)
    /\ \A n \in ActiveNodes : ReachedIn(children, scene[cmd.ctx], ActiveNodes, n)

Released ==
  pc = "draw_draw" /\ ~Failed =>
    \A n \in Prefetching : InFrame(n) => (state[n] = Ready <=> ActiveNow(n))

(* The steps that begin a frame, and those up to the end of its prefetches.*)
LEMMA HonorSteps ==
  ASSUME Invariant, Visiting, [Next]_vars, pc' = "draw_honor"
  PROVE  \/ \E c \in Ctx, t \in Time, op \in {"draw", "prepare_draw"} : Draw(op, c, t)
         \/ pc = "draw_honor" /\ (UNCHANGED vars \/ HonorNext \/ ActivityWalk)
<1>1. CASE Client
  BY <1>1 DEF Client, Create, Configure, SetScene, Free, NodeUnref, Toggle, AddChild, Idle, Start
<1>2. CASE Command
  BY <1>2 DEF Command, BackendConfigured, BackendFails, SceneReattached, UnrefScene, AttachScene,
     SceneAttached, SceneRefused, HonorNext, UpdateScene, DrawScene, FreeContext, At, Start, Finish
<1>3. CASE GraphWalk
  <2>1. /\ stack # <<>> /\ Top.fn # "visit" /\ pc' = pc
    BY <1>3 DEF GraphWalk, GraphStep, AttachEnter, AttachChild, AttachSucceeds, AttachFails,
       DetachSkipsOther, DetachEnter, DetachEnterUninit, DetachChild, DetachLeave,
       UnrefEnter, UnrefChild, UnrefLeave, Entering, Leaving, Running
  <2>2. Top \in Calls(stack)
    BY <2>1, RunningCall DEF Invariant
  <2> QED
    BY <2>1, <2>2 DEF Visiting
<1>4. CASE ActivityWalk \/ UNCHANGED vars
  BY <1>4 DEF ActivityWalk, vars
<1> QED
  BY <1>1, <1>2, <1>3, <1>4 DEF Next

(* The running call of a visit.                                            *)
LEMMA VisitSteps ==
  ASSUME Invariant, Tracked, Visiting, pc = "draw_honor", ActivityWalk
  PROVE  /\ stack # <<>> /\ stack \in Seq(Frame) /\ Top = Head(stack) /\ Top \in Frame
         /\ Top \in Calls(stack) /\ Top.node \in Node /\ Top.next \in Nat
         /\ Top.t = cmd.t /\ ctx[Top.node] = cmd.ctx /\ cmd.ctx \in Ctx
         /\ children \in [Node -> Seq(Node)] /\ Len(children[Top.node]) \in Nat
         /\ UNCHANGED <<children, ctx, state, scene, pc, cmd>>
         /\ VisitSkips \/ VisitEnter \/ VisitChild \/ VisitLeave
         /\ ~VisitEnter => UNCHANGED <<is_active, visit_time>>
<1> USE DEF Invariant
<1>1. /\ stack # <<>> /\ stack \in Seq(Frame) /\ Top = Head(stack)
      /\ UNCHANGED <<scene, pc, cmd>> /\ children \in [Node -> Seq(Node)] /\ cmd.ctx \in Ctx
  BY WalkGoes DEF TypeOK, Top, CommandOK
<1>2. /\ Top \in Frame /\ Top \in Calls(stack) /\ Top.node \in Node /\ Top.next \in Nat
      /\ Len(children[Top.node]) \in Nat
  BY <1>1, RunningCall
<1>3. Top.fn = "visit" /\ Top.t = cmd.t /\ ctx[Top.node] = cmd.ctx
  BY <1>1, <1>2 DEF Visiting, Tracked
<1>4. VisitSkips \/ VisitEnter \/ VisitChild \/ VisitLeave
  BY <1>3 DEF ActivityWalk, ActivityStep, VisitSkips, VisitEnter, VisitChild, VisitLeave,
     UpdateSkips, UpdateEnter, UpdateChild, UpdateLeave, UpdateFails, DrawEnter, DrawChild,
     DrawLeave, Entering, Leaving, Running
<1>5. UNCHANGED <<children, ctx, state>> /\ (~VisitEnter => UNCHANGED <<is_active, visit_time>>)
  BY <1>4 DEF VisitSkips, VisitEnter, VisitChild, VisitLeave, CallChild, nodeVars, paramVars, lifeVars,
     activityVars
<1> QED
  BY <1>1, <1>2, <1>3, <1>4, <1>5

LEMMA ReasonIsParent ==
  ASSUME NEW g \in [Node -> Seq(Node)], NEW A, NEW O, NEW n, Reason(g, A, O, n)
  PROVE  \E p \in Node \intersect A \intersect O : \E i \in 1 .. Len(g[p]) : g[p][i] = n
<1>1. PICK r \in References(g, n) : r[1] \in A \intersect O
  BY DEF Reason
<1>2. PICK p \in Node : \E i \in 1 .. Len(g[p]) : r = <<p, i>> /\ g[p][i] = n
  BY <1>1, ReferenceIsChild
<1> QED
  BY <1>1, <1>2

LEMMA SearchingEnters ==
  ASSUME Invariant, Tracked, Visiting, Searching, pc = "draw_honor", ActivityWalk, VisitEnter
  PROVE  Searching'
<1> DEFINE n == Top.node
           h == [Top EXCEPT !.next = 1, !.queue = ToQueue(n, Top.t),
                            !.active = ChildActive(n, @, Top.t)]
<1>1. /\ stack # <<>> /\ stack \in Seq(Frame) /\ Top = Head(stack) /\ Top \in Frame
      /\ Top \in Calls(stack) /\ n \in Node /\ Top.t = cmd.t /\ ctx[n] = cmd.ctx
      /\ children \in [Node -> Seq(Node)] /\ UNCHANGED <<children, ctx, scene, pc, cmd>>
  BY VisitSteps
<1>2. /\ Top.next = 0 /\ UNCHANGED activity /\ stack' = <<h>> \o Tail(stack)
      /\ is_active' = [is_active EXCEPT ![n] = Top.active \/ (~ToQueue(n, Top.t) /\ @)]
      /\ visit_time' = [visit_time EXCEPT ![n] = Top.t]
      /\ visit_time \in [Node -> Time \union {Unset}] /\ is_active \in [Node -> BOOLEAN]
  BY DEF VisitEnter, Entering, TypeOK, Invariant
<1>3. h \in Frame /\ h.next = 1 /\ h.node = n
  <2>1. ChildActive(n, Top.active, Top.t) \in BOOLEAN /\ ToQueue(n, Top.t) \in BOOLEAN
    BY <1>1 DEF ChildActive, ToQueue, TypeOK, Invariant, Frame
  <2> QED
    BY <1>1, <2>1 DEF Frame
<1>4. ActiveNodes' = ActiveNodes \union (IF Top.active THEN {n} ELSE {})
  BY <1>1, NodeEntered
<1> HIDE DEF h
<1>5. Calls(stack) = {Top} \union Calls(Tail(stack)) /\ Calls(stack') = {h} \union Calls(Tail(stack))
  BY <1>1, <1>2, <1>3, CallsOnTop
<1>6. Seen' = Seen \union {n} /\ Seen \subseteq Node
  <2>1. \A m \in Node : visit_time'[m] = cmd'.t <=> visit_time[m] = cmd.t \/ m = n
    BY <1>1, <1>2
  <2> QED
    BY <1>1, <2>1 DEF Seen, InFrame
<1>7. \A m \in Active' : m = n \/ m \in Active
  BY <1>2 DEF Active
<1>8. Looks(children', stack', Seen', Active')
  <2>1. Looks(children, <<h>> \o Tail(stack), Seen \union {n}, Active')
    BY <1>1, <1>2, <1>3, <1>7, LooksBelow DEF Searching
  <2> QED
    BY <1>1, <1>2, <1>6, <2>1
<1>9. \A f \in Calls(stack') : f.next > 0 => f.node \in Seen'
  BY <1>1, <1>3, <1>5, <1>6 DEF Searching
<1>10. \A m \in Node : Listed(m)' => m \in Seen'
  BY <1>1, <1>2, <1>6 DEF Searching, Listed
<1>11. ASSUME NEW m \in ActiveNodes'
       PROVE  ReachedIn(children', scene'[cmd'.ctx], ActiveNodes', m)
  <2> DEFINE root == scene[cmd.ctx]
  <2> SUFFICES ReachedIn(children, root, ActiveNodes', m)
    BY <1>1
  <2>1. ActiveNodes \subseteq ActiveNodes' /\ ActiveNodes \subseteq Node
    BY <1>4 DEF ActiveNodes
  <2> HIDE DEF root
  <2>2. \A r \in ActiveNodes : ReachedIn(children, root, ActiveNodes', r)
    BY <1>1, <2>1, ReachedMore DEF Searching, root
  <2>3. CASE m = n /\ Top.active
    <3>1. n = root \/ Reason(children, ActiveNodes, OpenNodes, n)
      BY <1>1, <1>2, <2>3 DEF Visiting, Decides, Justified, root
    <3>2. CASE n = root
      BY <2>3, <3>2 DEF ReachedIn
    <3>3. CASE Reason(children, ActiveNodes, OpenNodes, n)
      <4>1. PICK p \in Node \intersect ActiveNodes : \E i \in 1 .. Len(children[p]) : children[p][i] = n
        <5>1. children \in [Node -> Seq(Node)]
          BY <1>1
        <5>2. \E p \in Node \intersect ActiveNodes \intersect OpenNodes :
                \E i \in 1 .. Len(children[p]) : children[p][i] = n
          BY <3>3, <5>1, ReasonIsParent
        <5> QED
          BY <5>2
      <4>2. PICK i \in 1 .. Len(children[p]) : children[p][i] = n
        BY <4>1
      <4>3. ReachedIn(children, root, ActiveNodes', children[p][i])
        BY <1>11, <2>2, <2>3, <4>1, <4>2, ReachedNext
      <4> QED
        BY <2>3, <4>2, <4>3
    <3> QED
      BY <3>1, <3>2, <3>3
  <2>4. CASE m \in ActiveNodes
    BY <2>2, <2>4
  <2> QED
    BY <1>4, <1>11, <2>3, <2>4
<1> QED
  BY <1>8, <1>9, <1>10, <1>11 DEF Searching

LEMMA SearchingWalks ==
  ASSUME Invariant, Tracked, Visiting, Searching, pc = "draw_honor", ActivityWalk
  PROVE  Searching'
<1>1. /\ stack # <<>> /\ stack \in Seq(Frame) /\ Top = Head(stack) /\ Top \in Frame
      /\ Top \in Calls(stack) /\ Top.node \in Node /\ Top.next \in Nat
      /\ Top.t = cmd.t /\ ctx[Top.node] = cmd.ctx /\ cmd.ctx \in Ctx
      /\ children \in [Node -> Seq(Node)] /\ Len(children[Top.node]) \in Nat
      /\ UNCHANGED <<children, ctx, scene, pc, cmd>>
      /\ VisitSkips \/ VisitEnter \/ VisitChild \/ VisitLeave
      /\ ~VisitEnter => UNCHANGED <<is_active, visit_time>>
  BY VisitSteps
<1>2. /\ \A f \in Calls(stack) : f.next > 0 => f.node \in Seen
      /\ \A n \in Node : Listed(n) => n \in Seen
      /\ Looks(children, stack, Seen, Active)
      /\ \A n \in ActiveNodes : ReachedIn(children, scene[cmd.ctx], ActiveNodes, n)
  BY DEF Searching
<1>3. ASSUME ~VisitEnter, \A f \in Calls(stack') : f.next > 0 => f.node \in Seen,
             \A n \in Node : Listed(n)' => n \in Seen, Looks(children, stack', Seen, Active)
      PROVE  Searching'
  <2>1. UNCHANGED <<Seen, Active, ActiveNodes>>
    BY <1>1, <1>3 DEF Seen, Active, ActiveNodes, InFrame, ActiveNow
  <2> QED
    BY <1>1, <1>2, <1>3, <2>1 DEF Searching
<1>4. Calls(stack) = {Top} \union Calls(Tail(stack)) /\ Calls(Tail(stack)) \subseteq Calls(stack)
  BY <1>1, CallsOnTop
<1>5. CASE VisitEnter
  BY <1>5, SearchingEnters
<1>6. CASE VisitSkips /\ ~VisitEnter
  <2>1. Top.next = 0 /\ stack' = Tail(stack) /\ UNCHANGED activity /\ Top.node \notin Active
    BY <1>6 DEF VisitSkips, Entering, Return, Active
  <2>2. Looks(children, Tail(stack), Seen, Active)
    BY <1>1, <1>2, <2>1, LooksReturn
  <2> QED
    BY <1>1, <1>2, <1>3, <1>4, <1>6, <2>1, <2>2 DEF Listed
<1>7. CASE VisitLeave /\ ~VisitEnter
  <2>1. /\ Top.next = Len(children[Top.node]) + 1 /\ stack' = Tail(stack)
        /\ activity' = IF Top.queue THEN [activity EXCEPT ![ctx[Top.node]] = Append(@, Top.node)] ELSE activity
        /\ activity \in [Ctx -> Seq(Node)]
    BY <1>7 DEF VisitLeave, Leaving, Return, TypeOK, Invariant
  <2>2. Looks(children, Tail(stack), Seen, Active)
    BY <1>1, <1>2, <2>1, LooksReturn
  <2>3. Top.node \in Seen
    BY <1>1, <1>2, <2>1
  <2>4. ASSUME NEW n \in Node, Listed(n)'
        PROVE  n \in Seen
    <3> DEFINE q == activity[cmd.ctx]
    <3>1. q \in Seq(Node) /\ (activity'[cmd'.ctx] = q \/ activity'[cmd'.ctx] = Append(q, Top.node))
      BY <1>1, <2>1
    <3> HIDE DEF q
    <3>2. \A i \in DOMAIN Append(q, Top.node) : i \in DOMAIN q \/ Append(q, Top.node)[i] = Top.node
      BY <1>1, <3>1
    <3>3. \A i \in DOMAIN q : Append(q, Top.node)[i] = q[i]
      BY <1>1, <3>1
    <3>4. Listed(n) \/ n = Top.node
      BY <2>4, <3>1, <3>2, <3>3, SMTT(30) DEF Listed, q
    <3> QED
      BY <1>2, <2>3, <3>4
  <2> QED
    BY <1>1, <1>2, <1>3, <1>4, <1>7, <2>1, <2>2, <2>4
<1>8. CASE VisitChild /\ ~VisitEnter
  <2> DEFINE e == VisitCall(NextChild, Top.active, Top.t)
             h == [Top EXCEPT !.next = @ + 1]
  <2>1. /\ Top.next \in 1 .. Len(children[Top.node]) /\ stack' = <<e, h>> \o Tail(stack)
        /\ UNCHANGED activity
    BY <1>8 DEF VisitChild, CallChild
  <2>2. e \in Frame /\ e.node = children[Top.node][Top.next] /\ e.next = 0
    <3>1. NextChild \in Node /\ Top.active \in BOOLEAN /\ Top.t \in Time \union {Unset}
      BY <1>1, <2>1, RunningCall DEF Invariant
    <3> QED
      BY <3>1, CallType, ZenonT(60) DEF VisitCall, Call, NextChild
  <2>3. h \in Frame /\ h.node = Top.node /\ h.next = Top.next + 1
    <3>1. Top \in Frame
      BY <1>1
    <3> QED
      BY <3>1 DEF Frame
  <2> HIDE DEF e, h
  <2>4. Looks(children, <<e, h>> \o Tail(stack), Seen, Active)
    BY <1>1, <1>2, <2>1, <2>2, <2>3, LooksFurther
  <2>5. Calls(stack') = {e, h} \union Calls(Tail(stack))
    BY <1>1, <2>1, <2>2, <2>3, CallsOnTop
  <2>6. \A f \in Calls(stack') : f.next > 0 => f.node \in Seen
    <3>1. Top.next > 0 /\ ~(e.next > 0)
      BY <1>1, <2>1, <2>2
    <3> QED
      BY <1>1, <1>2, <1>4, <2>2, <2>3, <2>5, <3>1
  <2> QED
    BY <1>1, <1>2, <1>3, <1>8, <2>1, <2>4, <2>6 DEF Listed
<1> QED
  BY <1>1, <1>5, <1>6, <1>7, <1>8

LEMMA SearchingPreserved ==
  Invariant /\ Tracked /\ Visiting /\ Searching /\ VisitsAreNew' /\ [Next]_vars => Searching'
<1> SUFFICES ASSUME Invariant, Tracked, Visiting, Searching, VisitsAreNew', [Next]_vars, pc' = "draw_honor"
             PROVE  Searching'
  BY DEF Searching
<1>1. ASSUME NEW c \in Ctx, NEW t \in Time, NEW op \in {"draw", "prepare_draw"}, Draw(op, c, t)
      PROVE  Searching'
  <2> DEFINE e == VisitCall(scene[c], TRUE, t)
  <2>1. /\ stack' = <<e>> /\ scene' = scene /\ cmd' = [op |-> op, ctx |-> c, node |-> NoNode, t |-> t]
        /\ activity' = [activity EXCEPT ![c] = <<>>] /\ activity \in [Ctx -> Seq(Node)]
    BY <1>1 DEF Draw, Start, Begin, Cmd, ctxVars, Invariant, TypeOK
  <2>2. cmd'.ctx = c /\ cmd'.t = t /\ activity'[c] = <<>>
    BY <2>1
  <2>3. e.next = 0 /\ ~(e.next > 0)
    BY DEF VisitCall, Call
  <2>4. Seen' = {} /\ ActiveNodes' = {}
    BY <1>1, <2>1, <2>2 DEF VisitsAreNew, VisitBegins, Seen, ActiveNodes, ActiveNow
  <2> HIDE DEF e
  <2>5. \A f \in Calls(stack') : f = e
    BY <2>1 DEF Calls
  <2>6. \A n \in Node : ~Listed(n)'
    BY <2>2 DEF Listed
  <2>7. Looks(children', stack', {}, Active')
    BY DEF Looks
  <2> QED
    BY <2>3, <2>4, <2>5, <2>6, <2>7 DEF Searching
<1>2. CASE pc = "draw_honor" /\ UNCHANGED vars
  <2>1. UNCHANGED <<children, ctx, is_active, visit_time, cmd, stack, scene, activity>>
    BY <1>2 DEF vars, nodeVars, paramVars, lifeVars, activityVars, callVars, ctxVars
  <2>2. UNCHANGED <<Seen, Active, ActiveNodes>> /\ \A n : Listed(n)' = Listed(n)
    BY <2>1 DEF Seen, Active, ActiveNodes, InFrame, ActiveNow, Listed
  <2> QED
    BY <1>2, <2>1, <2>2 DEF Searching
<1>3. CASE pc = "draw_honor" /\ HonorNext
  <2> DEFINE q == activity[cmd.ctx]
  <2>1. /\ UNCHANGED <<children, ctx, is_active, visit_time, cmd, stack, scene>> /\ q # <<>>
        /\ cmd.ctx \in Ctx /\ activity \in [Ctx -> Seq(Node)]
        /\ activity' = [activity EXCEPT ![cmd.ctx] = Tail(@)]
    BY <1>3 DEF HonorNext, HonorNode, NodePrefetch, NodeRelease, paramVars, activityVars, callVars, Finish,
       ctxVars, Invariant, TypeOK, CommandOK
  <2>2. UNCHANGED <<Seen, Active, ActiveNodes>>
    BY <2>1 DEF Seen, Active, ActiveNodes, InFrame, ActiveNow
  <2>3. q \in Seq(Node) /\ activity'[cmd'.ctx] = Tail(q)
    BY <2>1
  <2> HIDE DEF q
  <2>4. \A i \in DOMAIN Tail(q) : i + 1 \in DOMAIN q /\ Tail(q)[i] = q[i + 1]
    BY <2>1, <2>3
  <2>5. \A n \in Node : Listed(n)' => Listed(n)
    BY <2>3, <2>4 DEF Listed, q
  <2> QED
    BY <1>3, <2>1, <2>2, <2>5 DEF Searching
<1> QED
  BY <1>1, <1>2, <1>3, HonorSteps, SearchingWalks

(* Outside of an attachment or a detachment, a context that has a node has *)
(* the whole scene, root first.                                            *)
LEMMA OwnersNow ==
  ASSUME Invariant, Attachment, NEW c \in Ctx, NEW n \in Node, ctx[n] = c,
         stack = <<>> \/ Top.fn \notin {"attach", "detach"}
  PROVE  /\ ~(c = cmd.ctx /\ pc \in {"conf_backend", "scene_unref", "free_unref"})
         /\ (c = cmd.ctx => pc \notin {"conf_attached", "scene_attached"}) =>
              /\ c \in backend /\ scene[c] \in Node /\ ctx[scene[c]] = c
              /\ \A r \in Node : ctx[r] = c => \A i \in 1 .. Len(children[r]) : ctx[children[r][i]] = c
<1>1. PICK P \in [Ctx -> SUBSET Paths] : Pathwise(P)
  BY DEF Attachment
<1>2. c # NoCtx /\ scene[c] \in Node \union {NoNode} /\ Tied
  BY NodeAssumption DEF Attachment, Invariant, TypeOK
<1>3. P[c] # {} /\ Shape(P[c], c) /\ Accounted(ctx, ctx_refcount, P)
  BY <1>1, <1>2, AttachedByPath DEF Pathwise
<1>4. ~Walking("attach", c) /\ ~Walking("detach", c)
  BY DEF Walking
<1>5. ~(c = cmd.ctx /\ pc \in {"conf_backend", "scene_unref", "free_unref"})
  BY <1>3, <1>4 DEF Shape
<1>6. ASSUME c = cmd.ctx => pc \notin {"conf_attached", "scene_attached"}
      PROVE  c \in backend /\ scene[c] \in Node /\ ctx[scene[c]] = c
  <2>1. P[c] = Whole(c)
    BY <1>3, <1>4, <1>5, <1>6 DEF Shape
  <2>2. c \in backend /\ scene[c] \in Node
    BY <1>2, <1>3, <2>1 DEF Whole
  <2> QED
    BY <1>3, <2>1, <2>2, SceneIsOwned
<1>7. ASSUME NEW r \in Node, ctx[r] = c
      PROVE  \A i \in 1 .. Len(children[r]) : ctx[children[r][i]] = c
  BY <1>1, <1>2, <1>7, ChildrenAreAttached
<1> QED
  BY <1>5, <1>6, <1>7

(* A step finds what was found if it leaves the scene, the activity and    *)
(* the graph of a context as they are, or adds to them.                    *)
LEMMA FoundStays ==
  ASSUME NEW c \in Ctx, FoundFor(c), scene'[c] = scene[c], Holding(c)' \subseteq Holding(c),
         Stirred(c) \subseteq Stirred(c)', children \in [Node -> Seq(Node)],
         \A r \in Node : \A i \in 1 .. Len(children[r]) :
           i \in 1 .. Len(children'[r]) /\ children'[r][i] = children[r][i]
  PROVE  FoundFor(c)'
<1> SUFFICES ASSUME NEW n \in Holding(c)
             PROVE  scene[c] \in Node /\ ReachedIn(children', scene[c], Stirred(c)', n)
  BY DEF FoundFor
<1>1. scene[c] \in Node /\ ReachedIn(children, scene[c], Stirred(c), n)
  BY DEF FoundFor
<1> DEFINE T == Stirred(c)
           U == Stirred(c)'
<1>2. \A r \in Node : \A i \in 1 .. Len(children[r]) : children[r][i] \in Node
  OBVIOUS
<1>3. ReachedIn(children, scene[c], T, n) /\ T \subseteq U
  BY <1>1
<1> HIDE DEF T, U
<1>4. ASSUME NEW r \in Node, NEW i \in 1 .. Len(children[r]), children[r][i] \in T
      PROVE  children[r][i] \in U \intersect Node /\ i \in 1 .. Len(children'[r]) /\ children'[r][i] = children[r][i]
  BY <1>2, <1>3, <1>4
<1>5. ReachedIn(children', scene[c], U, n)
  BY <1>1, <1>3, <1>4, ReachedStill
<1> QED
  BY <1>1, <1>5 DEF U

(* It need only do so for the nodes of the context.                        *)
LEMMA FoundWithin ==
  ASSUME Invariant, Attachment, NEW c \in Ctx, FoundFor(c), UNCHANGED scene,
         stack = <<>> \/ Top.fn \notin {"attach", "detach"}, pc \notin {"conf_attached", "scene_attached"},
         Holding(c)' \subseteq Holding(c),
         \A r \in Node : ctx[r] = c => children'[r] = children[r] /\ (r \in Stirred(c) => r \in Stirred(c)')
  PROVE  FoundFor(c)'
<1> SUFFICES ASSUME NEW n \in Holding(c)
             PROVE  scene[c] \in Node /\ ReachedIn(children', scene[c], Stirred(c)', n)
  BY DEF FoundFor
<1>1. scene[c] \in Node /\ ReachedIn(children, scene[c], Stirred(c), n)
  BY DEF FoundFor
<1>2. n \in Node /\ ctx[n] = c /\ children \in [Node -> Seq(Node)]
  BY NodeAssumption DEF Holding, Invariant, TypeOK
<1>3. /\ ctx[scene[c]] = c
      /\ \A r \in Node : ctx[r] = c => \A i \in 1 .. Len(children[r]) : ctx[children[r][i]] = c
  BY <1>2, OwnersNow
<1> DEFINE T == Stirred(c)
           U == Stirred(c)'
           D == {r \in Node : ctx[r] = c}
<1>4. scene[c] \in D /\ D \in SUBSET Node
  BY <1>1, <1>3
<1>5. ASSUME NEW r \in D, NEW i \in 1 .. Len(children[r]), children[r][i] \in T
      PROVE  children[r][i] \in U \intersect D /\ i \in 1 .. Len(children'[r]) /\ children'[r][i] = children[r][i]
  <2>1. children[r][i] \in D
    BY <1>2, <1>3
  <2> QED
    BY <1>5, <2>1
<1>6. ReachedIn(children, scene[c], T, n)
  BY <1>1
<1> HIDE DEF T, U, D
<1>7. ReachedIn(children', scene[c], U, n)
  BY <1>4, <1>5, <1>6, ReachedStill
<1> QED
  BY <1>1, <1>7 DEF U

LEMMA ClientFinds ==
  ASSUME Invariant, Found, Client
  PROVE  Found'
<1>1. /\ pc = "idle" /\ UNCHANGED <<ctx, state, is_active, scene>> /\ children \in [Node -> Seq(Node)]
      /\ \/ UNCHANGED children
         \/ \E n, d \in Node : children' = [children EXCEPT ![n] = Append(@, d)]
  <2>1. pc = "idle" /\ UNCHANGED <<ctx, state, is_active, scene>>
    BY DEF Client, Create, Configure, SetScene, Draw, Free, NodeUnref, AddChild, Toggle, Idle, Begin, Start,
       nodesUnchanged, nodeVars, lifeVars, activityVars, paramVars, ctxVars
  <2>2. \/ UNCHANGED children
        \/ \E n, d \in Node : children' = [children EXCEPT ![n] = Append(@, d)]
    <3>1. CASE \E n, d \in Node : AddChild(n, d)
      BY <3>1 DEF AddChild
    <3>2. CASE ~\E n, d \in Node : AddChild(n, d)
      BY <3>2 DEF Client, Create, Configure, SetScene, Draw, Free, NodeUnref, Toggle,
         nodesUnchanged, nodeVars, paramVars
    <3> QED
      BY <3>1, <3>2
  <2>3. children \in [Node -> Seq(Node)]
    BY DEF Invariant, TypeOK
  <2> QED
    BY <2>1, <2>2, <2>3
<1>2. ASSUME NEW r \in Node, NEW i \in 1 .. Len(children[r])
      PROVE  i \in 1 .. Len(children'[r]) /\ children'[r][i] = children[r][i]
  <2>1. CASE UNCHANGED children
    BY <2>1
  <2>2. CASE ~UNCHANGED children
    <3>1. PICK n \in Node, d \in Node : children' = [children EXCEPT ![n] = Append(@, d)]
      BY <1>1, <2>2
    <3>2. CASE r # n
      BY <1>1, <3>1, <3>2
    <3>3. CASE r = n
      <4> DEFINE q == children[r]
      <4>1. q \in Seq(Node) /\ children'[r] = Append(q, d)
        BY <1>1, <3>1, <3>3
      <4> HIDE DEF q
      <4>2. Len(Append(q, d)) = Len(q) + 1 /\ Len(q) \in Nat /\ \A j \in 1 .. Len(q) : Append(q, d)[j] = q[j]
        BY <4>1, AppendProperties
      <4> QED
        BY <4>1, <4>2 DEF q
    <3> QED
      BY <3>2, <3>3
  <2> QED
    BY <2>1, <2>2
<1>3. ASSUME NEW c \in Ctx
      PROVE  FoundFor(c)'
  <2>1. Holding(c)' = Holding(c) /\ Stirred(c) \subseteq Stirred(c)' /\ FoundFor(c)
    BY <1>1 DEF Holding, Stirred, Active, Found
  <2> QED
    BY <1>1, <1>2, <2>1, FoundStays
<1> QED
  BY <1>3 DEF Found

(* The attachments and detachments add to no holder: a node that is        *)
(* initialised is prefetched later, if its class has it to do.             *)
LEMMA WalkHolds ==
  ASSUME Invariant, Tracked, GraphWalk, NEW c \in Ctx
  PROVE  Holding(c)' \subseteq Holding(c)
<1> USE DEF Invariant
<1>1. stack # <<>> /\ state \in [Node -> State] /\ ctx \in [Node -> Ctx \union {NoCtx}] /\ c # NoCtx
  BY WalkGoes, NodeAssumption DEF TypeOK
<1>2. Top.node \in Node /\ Initialized # Ready /\ Uninitialized # Ready
  BY <1>1, RunningCall DEF Initialized, Uninitialized, Ready
<1>3. ASSUME NEW n \in Prefetching, state'[n] = Ready, ctx'[n] = c
      PROVE  state[n] = Ready
  <2>1. n \in Node
    BY NodeAssumption
  <2>2. CASE UNCHANGED state
    BY <1>3, <2>2
  <2>3. CASE AttachSucceeds
    <3>1. state'[n] = state[n] \/ state'[n] = StateAfterInit(n)
      BY <1>1, <1>2, <2>1, <2>3 DEF AttachSucceeds
    <3> QED
      BY <1>2, <1>3, <3>1 DEF StateAfterInit
  <2>4. CASE DetachEnter
    <3>1. state'[n] \in {state[n], Uninitialized}
      BY <1>1, <1>2, <2>1, <2>4 DEF DetachEnter, Uninit
    <3> QED
      BY <1>2, <1>3, <3>1
  <2>5. UNCHANGED state \/ AttachSucceeds \/ DetachEnter
    BY DEF GraphWalk, GraphStep, AttachEnter, AttachChild, AttachFails, DetachSkipsOther,
       DetachEnterUninit, DetachChild, DetachLeave, UnrefEnter, UnrefChild, UnrefLeave, CallChild,
       nodeVars, lifeVars
  <2> QED
    BY <2>2, <2>3, <2>4, <2>5
<1>4. ASSUME NEW n \in Prefetching, state'[n] = Ready, ctx'[n] = c
      PROVE  ctx[n] = c
  <2>1. n \in Node /\ (ctx'[n] \in {ctx[n], NoCtx} \/ ctx[n] = NoCtx)
    BY NodeAssumption, OwnerStep DEF Next
  <2>2. ctx[n] # NoCtx
    BY <1>2, <1>3, <1>4, NodeAssumption DEF Tracked
  <2> QED
    BY <1>1, <1>4, <2>1, <2>2
<1> QED
  BY <1>3, <1>4 DEF Holding

LEMMA WalkFinds ==
  ASSUME Invariant, Ordered, Attachment, FramesStand, Found, GraphWalk
  PROVE  Found'
<1>1. /\ stack # <<>> /\ UNCHANGED <<scene, pc, cmd>> /\ Top.node \in Node /\ Top \in Calls(stack)
      /\ children \in [Node -> Seq(Node)]
  BY WalkGoes, RunningCall DEF Invariant, TypeOK
<1>2. /\ Top.fn \in {"attach", "detach", "unref"} /\ UNCHANGED is_active
      /\ \/ UNCHANGED children
         \/ UnrefLeave /\ Top.fn = "unref" /\ Top.next > 0 /\ children' = [children EXCEPT ![Top.node] = <<>>]
  <2>1. CASE UnrefLeave
    <3>1. Top.next = Len(children[Top.node]) + 1 /\ Len(children[Top.node]) \in Nat
      BY <1>1, <2>1 DEF UnrefLeave, Leaving
    <3>2. Top.next > 0
      BY <3>1
    <3> QED
      BY <2>1, <3>2 DEF UnrefLeave, Leaving, Running, activityVars
  <2>2. CASE ~UnrefLeave
    BY <2>2 DEF GraphWalk, GraphStep, AttachEnter, AttachChild, AttachSucceeds, AttachFails,
       DetachSkipsOther, DetachEnter, DetachEnterUninit, DetachChild, DetachLeave, Uninit,
       UnrefEnter, UnrefChild, Entering, Leaving, Running, CallChild, nodeVars, paramVars, activityVars
  <2> QED
    BY <2>1, <2>2
<1>3. pc # "draw_honor"
  BY <1>1, <1>2 DEF Ordered, WalkStands, Stands
<1>4. ASSUME NEW c \in Ctx
      PROVE  FoundFor(c)'
  <2>1. Holding(c)' \subseteq Holding(c) /\ Stirred(c)' = Stirred(c) /\ FoundFor(c)
    BY <1>1, <1>2, <1>3, WalkHolds DEF Stirred, Active, Found, Attachment
  <2>2. CASE UNCHANGED children
    BY <1>1, <2>1, <2>2, FoundStays
  <2>3. CASE ~UNCHANGED children
    <3>1. /\ Top.fn = "unref" /\ ctx[Top.node] = NoCtx
          /\ children' = [children EXCEPT ![Top.node] = <<>>]
      BY <1>1, <1>2, <2>3 DEF Ordered, FreedAreFree
    <3>2. pc \notin {"conf_attached", "scene_attached"}
      BY <1>1, <3>1 DEF Ordered, WalkStands, Stands
    <3>3. \A r \in Node : ctx[r] = c => children'[r] = children[r]
      BY <1>1, <3>1, NodeAssumption
    <3>4. Top.fn \notin {"attach", "detach"}
      BY <3>1
    <3> QED
      BY <1>1, <2>1, <3>2, <3>3, <3>4, FoundWithin
  <2> QED
    BY <2>2, <2>3
<1> QED
  BY <1>4 DEF Found

(* Once the visit and the prefetches are over, what holds resources is     *)
(* what the frame needs.                                                   *)
LEMMA HoldersAreNeeded ==
  ASSUME Invariant, Visiting, Queueing, Searching, Found, pc = "draw_honor", stack = <<>>,
         cmd.ctx \in Ctx, activity[cmd.ctx] = <<>>
  PROVE  /\ \A n \in Holding(cmd.ctx) : n \in ActiveNodes
         /\ \A n \in ActiveNodes : state[n] = Ready
<1>1. \A n \in Node : ~Listed(n) /\ ~Queued(stack, n)
  BY DEF Listed, Queued, Calls
<1>2. \A n \in Node : n \in Seen => (is_active[n] <=> state[n] = Ready)
  BY <1>1 DEF Queueing, Seen
<1>3. ActiveNodes \subseteq Seen /\ Seen \in SUBSET Node
  BY DEF ActiveNodes, ActiveNow, Seen
<1>4. scene[cmd.ctx] \in Seen
  BY <1>3 DEF Queueing, Asked
<1>5. ASSUME NEW n \in Holding(cmd.ctx)
      PROVE  n \in ActiveNodes
  <2>1. ReachedIn(children, scene[cmd.ctx], Stirred(cmd.ctx), n) /\ Stirred(cmd.ctx) = Active \union Seen
    BY <1>5 DEF Found, FoundFor, Stirred
  <2>2. Looks(children, <<>>, Seen, Active)
    BY DEF Searching
  <2>3. n \in Seen
    BY <1>3, <1>4, <2>1, <2>2, LooksFind
  <2>4. n \in Node /\ state[n] = Ready
    BY <1>5, NodeAssumption DEF Holding
  <2> QED
    BY <1>2, <2>3, <2>4 DEF Seen, ActiveNodes, ActiveNow
<1>6. ASSUME NEW n \in ActiveNodes
      PROVE  state[n] = Ready
  BY <1>2, <1>3, <1>6 DEF ActiveNodes, ActiveNow
<1> QED
  BY <1>5, <1>6

(* A prefetch is of a node that the visit has found.                       *)
LEMMA HonorFinds ==
  ASSUME Invariant, Attachment, Visiting, Searching, Found, PrefetchMayFail = {}, HonorNext
  PROVE  Found'
<1> DEFINE q == activity[cmd.ctx]
           n == Head(q)
<1>1. /\ stack = <<>> /\ pc = "draw_honor" /\ q # <<>> /\ UNCHANGED <<scene, pc, cmd>> /\ HonorNode(n)
  BY DEF HonorNext, HonorFails, NodePrefetchFails, At, ctxVars
<1>2. cmd.ctx \in Ctx /\ q \in Seq(Node) /\ state \in [Node -> State]
  BY <1>1 DEF TypeOK, CommandOK, Invariant
<1>3. n \in Node /\ Listed(n) /\ ctx[n] = cmd.ctx
  <2>1. n = q[1] /\ 1 \in DOMAIN q /\ n \in Node
    BY <1>1, <1>2
  <2> QED
    BY <1>1, <2>1 DEF Listed, Attachment, Tracked
<1>4. /\ UNCHANGED <<children, ctx, is_active, visit_time>>
      /\ \A m \in Node \ {n} : state'[m] = state[m]
      /\ state'[n] = Ready => is_active[n]
  <2>1. Initialized # Ready /\ Uninitialized # Ready
    BY DEF Initialized, Uninitialized, Ready
  <2>2. CASE is_active[n]
    <3>1. UNCHANGED <<children, ctx, is_active, visit_time>> /\ state' = [state EXCEPT ![n] = Ready]
      BY <1>1, <2>2 DEF HonorNode, NodePrefetch, paramVars, activityVars
    <3> QED
      BY <1>2, <1>3, <2>2, <3>1
  <2>3. CASE ~is_active[n]
    <3>1. /\ UNCHANGED <<children, ctx, is_active, visit_time>>
          /\ state' = [state EXCEPT ![n] = IF @ = Ready THEN Initialized ELSE @]
      BY <1>1, <2>3 DEF HonorNode, NodeRelease, paramVars
    <3> QED
      BY <1>2, <1>3, <2>1, <3>1
  <2> QED
    BY <2>2, <2>3
<1>5. \A c \in Ctx : Stirred(c)' = Stirred(c)
  BY <1>1, <1>4 DEF Stirred, Active, Seen, InFrame
<1>6. ASSUME NEW c \in Ctx, NEW m \in Holding(c)'
      PROVE  scene[c] \in Node /\ ReachedIn(children, scene[c], Stirred(c), m)
  <2>1. m \in Prefetching /\ m \in Node /\ ctx[m] = c /\ state'[m] = Ready
    BY <1>4, <1>6, NodeAssumption DEF Holding
  <2>2. CASE state[m] = Ready
    BY <2>1, <2>2 DEF Found, FoundFor, Holding
  <2>3. CASE m = n /\ is_active[n]
    <3>1. c = cmd.ctx
      BY <1>3, <2>1, <2>3
    <3>2. n \in ActiveNodes
      BY <1>1, <1>3, <2>3 DEF Searching, Seen, ActiveNodes, ActiveNow
    <3>3. ReachedIn(children, scene[c], ActiveNodes, n)
      BY <1>1, <3>1, <3>2 DEF Searching
    <3>4. ActiveNodes \subseteq Stirred(c)
      BY DEF ActiveNodes, ActiveNow, Stirred, Active
    <3>5. scene[c] \in Node
      BY <1>1, <2>1, OwnersNow
    <3> QED
      BY <2>3, <3>3, <3>4, <3>5, ReachedMore
  <2> QED
    BY <1>4, <2>1, <2>2, <2>3
<1> QED
  BY <1>1, <1>4, <1>5, <1>6 DEF Found, FoundFor

LEMMA CommandFinds ==
  ASSUME Invariant, Ordered, Attachment, Reattaches, Visiting, Queueing, Searching, Found,
         PrefetchMayFail = {}, Command
  PROVE  Found'
<1>1. stack = <<>>
  BY DEF Command, BackendConfigured, BackendFails, SceneReattached, UnrefScene, AttachScene,
     SceneAttached, SceneRefused, HonorNext, UpdateScene, DrawScene, FreeContext, At
<1>2. CASE HonorNext
  BY <1>2, HonorFinds
<1>3. CASE ~HonorNext
  <2>1. UNCHANGED <<children, ctx, state, is_active>>
    BY <1>3 DEF Command, BackendConfigured, BackendFails, SceneReattached, UnrefScene, AttachScene,
       SceneAttached, SceneRefused, UpdateScene, DrawScene, FreeContext, nodesUnchanged, nodeVars, paramVars,
       lifeVars, activityVars
  <2>2. pc' # "draw_honor"
    BY <1>3 DEF Command, BackendConfigured, BackendFails, SceneReattached, UnrefScene, AttachScene,
       SceneAttached, SceneRefused, UpdateScene, DrawScene, FreeContext, At, Start, Finish
  <2>3. \A c \in Ctx : Holding(c)' = Holding(c) /\ Stirred(c)' = Active
    BY <2>1, <2>2 DEF Holding, Stirred, Active
  <2>4. ASSUME NEW c \in Ctx, Holding(c) = {} \/ (scene'[c] = scene[c] /\ ~UpdateScene)
        PROVE  FoundFor(c)'
    <3>1. CASE Holding(c) = {}
      BY <2>3, <3>1 DEF FoundFor
    <3>2. CASE scene'[c] = scene[c] /\ ~UpdateScene
      <4>1. pc # "draw_honor"
        BY <1>3, <3>2 DEF Command, BackendConfigured, BackendFails, SceneReattached, UnrefScene, AttachScene,
           SceneAttached, SceneRefused, DrawScene, FreeContext, At
      <4>2. Stirred(c) = Active /\ FoundFor(c)
        BY <4>1 DEF Stirred, Found
      <4> QED
        BY <2>1, <2>3, <3>2, <4>2 DEF FoundFor
    <3> QED
      BY <2>4, <3>1, <3>2
  <2>5. CASE UpdateScene
    <3>1. /\ pc = "draw_honor" /\ activity[cmd.ctx] = <<>> /\ UNCHANGED scene /\ cmd.ctx \in Ctx
      BY <2>5 DEF UpdateScene, At, ctxVars, Invariant, CommandOK
    <3>2. ASSUME NEW c \in Ctx, c # cmd.ctx
          PROVE  FoundFor(c)'
      <4>1. Stirred(c) = Active /\ FoundFor(c)
        BY <3>2 DEF Stirred, Found
      <4> QED
        BY <2>1, <2>3, <3>1, <4>1 DEF FoundFor
    <3>3. ASSUME NEW n \in Holding(cmd.ctx)
          PROVE  scene[cmd.ctx] \in Node /\ ReachedIn(children, scene[cmd.ctx], Active, n)
      <4>1. n \in ActiveNodes
        BY <1>1, <3>1, <3>3, HoldersAreNeeded
      <4>2. ReachedIn(children, scene[cmd.ctx], ActiveNodes, n)
        BY <3>1, <4>1 DEF Searching
      <4>3. ActiveNodes \subseteq Active
        BY DEF ActiveNodes, ActiveNow, Active
      <4> QED
        BY <3>1, <3>3, <4>2, <4>3, ReachedMore DEF Found, FoundFor
    <3>4. ASSUME NEW c \in Ctx, c = cmd.ctx
          PROVE  FoundFor(c)'
      BY <2>1, <2>3, <3>1, <3>3, <3>4 DEF FoundFor
    <3> QED
      BY <3>2, <3>4 DEF Found
  <2>6. CASE ~UpdateScene
    <3>1. ASSUME NEW c \in Ctx, scene'[c] # scene[c]
          PROVE  Holding(c) = {}
      <4>1. c = cmd.ctx /\ scene \in [Ctx -> Node \union {NoNode}]
            /\ \/ pc \in {"scene_unref", "free_unref"}
               \/ pc = "scene_attached" \/ pc = "free_stop"
        <5>1. scene \in [Ctx -> Node \union {NoNode}]
          BY DEF Invariant, TypeOK
        <5> QED
          BY <1>3, <2>6, <3>1, <5>1 DEF Command, BackendConfigured, BackendFails, SceneReattached, UnrefScene,
             AttachScene, SceneAttached, SceneRefused, DrawScene, FreeContext, ctxVars, At, Reattaches
      <4>2. CASE pc \in {"scene_unref", "free_unref"}
        BY <1>1, <4>1, <4>2, OwnersNow, NodeAssumption DEF Holding
      <4>3. CASE scene[c] = NoNode
        BY <4>3, NodeAssumption DEF Found, FoundFor
      <4>4. CASE pc = "free_stop" /\ c \notin backend
        <5>1. \A n \in Node : ctx[n] = c => c \in backend
          BY <1>1, <4>4, OwnersNow
        <5> QED
          BY <4>4, <5>1, NodeAssumption DEF Holding
      <4> QED
        BY <4>1, <4>2, <4>3, <4>4 DEF Ordered, Control
    <3> QED
      BY <2>4, <2>6, <3>1 DEF Found
  <2> QED
    BY <2>5, <2>6
<1> QED
  BY <1>2, <1>3

LEMMA ActivityFinds ==
  ASSUME Invariant, Ordered, Attachment, FramesStand, Visiting, Found, ActivityWalk
  PROVE  Found'
<1>1. stack # <<>> /\ UNCHANGED <<scene, pc, cmd>> /\ children \in [Node -> Seq(Node)]
  BY WalkGoes DEF Invariant, TypeOK
<1>2. UNCHANGED <<children, ctx, state>> /\ (~VisitEnter => UNCHANGED <<is_active, visit_time>>)
  <2>1. CASE VisitEnter
    BY <2>1 DEF VisitEnter, paramVars, lifeVars
  <2>2. CASE ~VisitEnter
    BY <2>2 DEF ActivityWalk, ActivityStep, VisitSkips, VisitChild, VisitLeave,
       UpdateSkips, UpdateEnter, UpdateChild, UpdateLeave, UpdateFails, DrawEnter, DrawChild,
       DrawLeave, CallChild, nodeVars, paramVars, lifeVars, activityVars
  <2> QED
    BY <2>1, <2>2
<1>3. \A c \in Ctx : Holding(c)' = Holding(c)
  BY <1>2 DEF Holding
<1>4. CASE ~VisitEnter
  <2>1. \A c \in Ctx : Stirred(c)' = Stirred(c)
    BY <1>1, <1>2, <1>4 DEF Stirred, Active, Seen, InFrame
  <2> QED
    BY <1>1, <1>2, <1>3, <2>1 DEF Found, FoundFor
<1>5. CASE VisitEnter
  <2> DEFINE n == Top.node
  <2>1. pc = "draw_honor" /\ Top.fn = "visit"
    BY <1>5 DEF VisitEnter, Entering, Running, FramesStand
  <2>2. n \in Node /\ Top.t = cmd.t /\ ctx[n] = cmd.ctx
    BY <1>1, <2>1, VisitSteps DEF Attachment
  <2>3. /\ is_active' = [is_active EXCEPT ![n] = Top.active \/ (~ToQueue(n, Top.t) /\ @)]
        /\ visit_time' = [visit_time EXCEPT ![n] = Top.t]
        /\ visit_time \in [Node -> Time \union {Unset}] /\ is_active \in [Node -> BOOLEAN]
    BY <1>5 DEF VisitEnter, Invariant, TypeOK
  <2> HIDE DEF n
  <2>4. n \in Seen' /\ Seen \subseteq Seen'
    BY <1>1, <1>2, <2>2, <2>3 DEF Seen, InFrame
  <2>5. \A m \in Node \ {n} : m \in Active => m \in Active'
    BY <2>3 DEF Active
  <2>6. ASSUME NEW c \in Ctx, c = cmd.ctx
        PROVE  FoundFor(c)'
    <3>1. Stirred(c) = Active \union Seen /\ Stirred(c)' = Active' \union Seen'
      BY <1>1, <2>1, <2>6 DEF Stirred
    <3>2. Active \subseteq Node
      BY DEF Active
    <3>3. Stirred(c) \subseteq Stirred(c)'
      BY <2>4, <2>5, <3>1, <3>2
    <3>4. FoundFor(c) /\ scene'[c] = scene[c] /\ Holding(c)' \subseteq Holding(c)
      BY <1>1, <1>3 DEF Found
    <3> QED
      BY <1>1, <1>2, <3>3, <3>4, FoundStays
  <2>7. ASSUME NEW c \in Ctx, c # cmd.ctx
        PROVE  FoundFor(c)'
    <3>1. Stirred(c) = Active /\ Stirred(c)' = Active'
      BY <1>1, <2>7 DEF Stirred
    <3>2. \A r \in Node : ctx[r] = c => children'[r] = children[r] /\ (r \in Stirred(c) => r \in Stirred(c)')
      BY <1>2, <2>2, <2>5, <2>7, <3>1
    <3>3. FoundFor(c) /\ UNCHANGED scene /\ Holding(c)' \subseteq Holding(c)
      BY <1>1, <1>3 DEF Found
    <3>4. Top.fn \notin {"attach", "detach"} /\ pc \notin {"conf_attached", "scene_attached"}
      BY <2>1
    <3> QED
      BY <3>2, <3>3, <3>4, FoundWithin
  <2> QED
    BY <2>6, <2>7 DEF Found
<1> QED
  BY <1>4, <1>5

LEMMA FoundPreserved ==
  ASSUME Invariant, Ordered, Attachment, FramesStand, Reattaches, Visiting, Queueing, Searching, Found,
         PrefetchMayFail = {}, [Next]_vars
  PROVE  Found'
<1>1. CASE UNCHANGED vars
  <2>1. UNCHANGED <<children, ctx, state, is_active, visit_time, scene, pc, cmd>>
    BY <1>1 DEF vars, nodeVars, paramVars, lifeVars, activityVars, callVars, ctxVars
  <2>2. \A c \in Ctx : Holding(c)' = Holding(c) /\ Stirred(c)' = Stirred(c)
    BY <2>1 DEF Holding, Stirred, Active, Seen, InFrame
  <2> QED
    BY <2>1, <2>2 DEF Found, FoundFor
<1>2. CASE Client
  BY <1>2, ClientFinds
<1>3. CASE Command
  BY <1>3, CommandFinds
<1>4. CASE GraphWalk
  BY <1>4, WalkFinds
<1>5. CASE ActivityWalk
  BY <1>5, ActivityFinds
<1> QED
  BY <1>1, <1>2, <1>3, <1>4, <1>5 DEF Next

(* The update leaves the resources and the activity as they are.           *)
LEMMA ReleasedPreserved ==
  ASSUME Invariant, Ordered, Attachment, FramesStand, Visiting, Queueing, Searching, Found, Released,
         [Next]_vars
  PROVE  Released'
<1> SUFFICES ASSUME pc' = "draw_draw"
             PROVE  Released'
  BY DEF Released
<1>1. CASE UpdateScene
  <2>1. /\ pc = "draw_honor" /\ stack = <<>> /\ activity[cmd.ctx] = <<>> /\ cmd.ctx \in Ctx
        /\ UNCHANGED <<ctx, state, is_active, visit_time, cmd>>
    BY <1>1 DEF UpdateScene, At, nodesUnchanged, nodeVars, lifeVars, activityVars, Invariant, CommandOK
  <2>2. /\ \A n \in Holding(cmd.ctx) : n \in ActiveNodes
        /\ \A n \in ActiveNodes : state[n] = Ready
    BY <2>1, HoldersAreNeeded
  <2>3. \A n \in Prefetching : InFrame(n) => (state[n] = Ready <=> ActiveNow(n))
    BY <2>2, NodeAssumption DEF Holding, ActiveNodes, InFrame
  <2> QED
    BY <2>1, <2>3 DEF Released, InFrame, ActiveNow
<1>2. CASE pc = "draw_draw" /\ UNCHANGED <<ctx, state, is_active, visit_time, cmd>> /\ (Failed => Failed')
  BY <1>2 DEF Released, InFrame, ActiveNow
<1>3. CASE UNCHANGED vars
  BY <1>2, <1>3 DEF vars, nodeVars, lifeVars, activityVars, callVars, Failed
<1>4. CASE Client
  BY <1>4 DEF Client, Create, Configure, SetScene, Draw, Free, NodeUnref, Toggle, AddChild, Idle, Start
<1>5. CASE Command
  BY <1>1, <1>5 DEF Command, BackendConfigured, BackendFails, SceneReattached, UnrefScene, AttachScene,
     SceneAttached, SceneRefused, HonorNext, DrawScene, FreeContext, At, Start, Finish
<1>6. CASE GraphWalk
  <2>1. stack # <<>> /\ pc' = pc /\ Top.fn \in {"attach", "detach", "unref"}
    BY <1>6 DEF GraphWalk, GraphStep, AttachEnter, AttachChild, AttachSucceeds, AttachFails,
       DetachSkipsOther, DetachEnter, DetachEnterUninit, DetachChild, DetachLeave,
       UnrefEnter, UnrefChild, UnrefLeave, Entering, Leaving, Running
  <2> QED
    BY <2>1 DEF Ordered, WalkStands, Stands
<1>7. CASE ActivityWalk
  <2>1. stack # <<>> /\ UNCHANGED <<pc, cmd>>
    BY <1>7, WalkGoes DEF Invariant
  <2>2. Top.fn # "visit"
    BY <2>1 DEF FramesStand
  <2>3. UNCHANGED <<ctx, state, is_active, visit_time>> /\ (Failed => Failed')
    BY <1>7, <2>2 DEF ActivityWalk, ActivityStep, VisitSkips, VisitEnter, VisitChild, VisitLeave,
       UpdateSkips, UpdateEnter, UpdateChild, UpdateLeave, UpdateFails, DrawEnter, DrawChild,
       DrawLeave, Entering, Leaving, Running, CallChild, Return, Descend, SkipChildren, Abort, Fail,
       nodeVars, lifeVars, activityVars, Failed
  <2> QED
    BY <1>2, <2>1, <2>3
<1> QED
  BY <1>3, <1>4, <1>5, <1>6, <1>7 DEF Next

(* ResourcesFollowActivity: when a frame is settled, the nodes of the      *)
(* scene that hold resources are those that the frame needs: whatever the  *)
(* earlier frames, failed attachments and switches have left prefetched,   *)
(* the visit finds through active nodes and the prefetches that follow it  *)
(* release (node_release in honor_release_prefetch, nodes.c:483-498).      *)
THEOREM ResourcesFollowActivity ==
  ASSUME PrefetchMayFail = {}
  PROVE  Spec /\ []Reattaches /\ []VisitsAreNew => []InactiveReleased
<1>1. Init => FramesStand /\ Queueing /\ Searching /\ Found /\ Released
  <2> SUFFICES ASSUME Init
               PROVE  FramesStand /\ Queueing /\ Searching /\ Found /\ Released
    OBVIOUS
  <2>1. \A c \in Ctx : Holding(c) = {}
    BY NodeAssumption DEF Init, Holding
  <2> QED
    BY <2>1 DEF Init, FramesStand, Queueing, Searching, Found, FoundFor, Released
<1>2. Invariant /\ Ordered /\ FramesStand /\ [Next]_vars => FramesStand'
  BY FramesStandOn
<1>3. Attachment => Tracked
  BY DEF Attachment
<1>4. /\ Invariant /\ Ordered /\ Attachment /\ FramesStand /\ Reattaches /\ Visiting /\ Queueing /\ Searching
      /\ Found /\ [Next]_vars
      => Found'
  BY FoundPreserved
<1>5. /\ Invariant /\ Ordered /\ Attachment /\ FramesStand /\ Visiting /\ Queueing /\ Searching
      /\ Found /\ Released /\ [Next]_vars
      => Released'
  BY ReleasedPreserved
<1>6. Released => InactiveReleased
  BY DEF Released, InactiveReleased, FrameSettled, At
<1> QED
  BY <1>1, <1>2, <1>3, <1>4, <1>5, <1>6, VisitingHolds, QueueingPreserved, SearchingPreserved, PTL DEF Spec

(***************************************************************************)
(* A client that plays forward                                             *)
(***************************************************************************)

(* The frames of a scene are asked for at later and later times, and the   *)
(* node that is the scene keeps the time of the last one.                  *)
PlaysForward == Playback = "forward" /\ Time \subseteq Nat /\ Roots \intersect PrefetchMayFail = {}

(* The scenes are the nodes the client uses as scenes.                     *)
FromRoots ==
  /\ \A c \in Ctx : scene[c] \in Roots \union {NoNode}
  /\ pc \in {"scene_unref", "scene_attach", "scene_attached"} => cmd.node \in Roots \union {NoNode}

(* The context is attaching, detaching or visiting its scene.              *)
Busy(c) == /\ c = cmd.ctx
           /\ pc \in {"conf_backend", "conf_attached", "scene_unref", "free_unref", "draw_honor"}

(* A node that no context has was not visited, nor was one that has just   *)
(* been attached; otherwise no node was visited later than the scene.      *)
Visits ==
  /\ \A n \in Node : ctx[n] = NoCtx => visit_time[n] = Unset
  /\ pc \in {"conf_attached", "scene_attached"} => \A n \in Node : InFrame(n) => visit_time[n] = Unset
  /\ pc = "draw_honor" => \A n \in Node : InFrame(n) => visit_time[n] <= cmd.t
  /\ \A c \in Ctx : scene[c] # NoNode /\ ~Busy(c) =>
       \A n \in Node : ctx[n] = c => visit_time[n] <= visit_time[scene[c]]

(* Outside of an attachment or a detachment of its own, a context that has *)
(* a node has the whole scene.                                             *)
LEMMA OwnersStand ==
  ASSUME Invariant, Attachment, NEW c \in Ctx, NEW n \in Node, ctx[n] = c,
         ~Walking("attach", c), ~Walking("detach", c)
  PROVE  /\ ~(c = cmd.ctx /\ pc \in {"conf_backend", "scene_unref", "free_unref"})
         /\ (c = cmd.ctx => pc \notin {"conf_attached", "scene_attached"}) =>
              scene[c] \in Node /\ ctx[scene[c]] = c
<1>1. PICK P \in [Ctx -> SUBSET Paths] : Pathwise(P)
  BY DEF Attachment
<1>2. c # NoCtx /\ scene[c] \in Node \union {NoNode}
  BY NodeAssumption DEF Invariant, TypeOK
<1>3. P[c] # {} /\ Shape(P[c], c) /\ Accounted(ctx, ctx_refcount, P)
  BY <1>1, <1>2, AttachedByPath DEF Pathwise
<1>4. ~(c = cmd.ctx /\ pc \in {"conf_backend", "scene_unref", "free_unref"})
  BY <1>3 DEF Shape
<1>5. ASSUME c = cmd.ctx => pc \notin {"conf_attached", "scene_attached"}
      PROVE  scene[c] \in Node /\ ctx[scene[c]] = c
  <2>1. P[c] = Whole(c)
    BY <1>3, <1>4, <1>5 DEF Shape
  <2>2. c \in backend /\ scene[c] \in Node
    BY <1>2, <1>3, <2>1 DEF Whole
  <2> QED
    BY <1>3, <2>1, <2>2, SceneIsOwned
<1> QED
  BY <1>4, <1>5

LEMMA VisitTimesTyped ==
  ASSUME Invariant, PlaysForward
  PROVE  /\ \A n \in Node : visit_time[n] \in Int /\ Unset <= visit_time[n]
         /\ Unset \in Int /\ \A t \in Time : t \in Int /\ Unset < t
<1>1. Unset \in Int /\ \A t \in Nat : t \in Int /\ Unset < t
  BY DEF Unset
<1>2. \A n \in Node : visit_time[n] \in Time \union {Unset}
  BY DEF Invariant, TypeOK
<1>3. \A t \in Time : t \in Nat
  BY DEF PlaysForward
<1> QED
  BY <1>1, <1>2, <1>3

(* Between commands the client asks for what comes next.                   *)
LEMMA ClientPlays ==
  ASSUME Invariant, Ordered, PlaysForward, FromRoots, Visits, Client
  PROVE  FromRoots' /\ Visits' /\ VisitsAreNew'
<1> USE DEF Invariant
<1>1. pc = "idle" /\ UNCHANGED <<visit_time, ctx, scene>>
  BY DEF Client, Create, Configure, SetScene, Draw, Free, NodeUnref, Toggle, AddChild, Idle,
     nodesUnchanged, nodeVars, lifeVars, activityVars, ctxVars
<1>2. \A c \in Ctx : ~Busy(c)
  BY <1>1 DEF Busy
<1>3. ASSUME NEW c \in Ctx, NEW t \in Time, NEW op \in {"draw", "prepare_draw"}, Draw(op, c, t)
      PROVE  FromRoots' /\ Visits' /\ VisitsAreNew'
  <2>1. /\ pc' = "draw_honor" /\ scene[c] # NoNode /\ scene[c] \in Node
        /\ cmd' = [op |-> op, ctx |-> c, node |-> NoNode, t |-> t] /\ MayFollow(visit_time[scene[c]], t)
    BY <1>3 DEF Draw, Start, Begin, Cmd, TypeOK
  <2>2. cmd'.ctx = c /\ cmd'.t = t
    BY <2>1
  <2>3. visit_time[scene[c]] < t
    BY <2>1, <1>3, VisitTimesTyped DEF MayFollow, PlaysForward
  <2>4. ASSUME NEW n \in Node, ctx[n] = c
        PROVE  visit_time[n] < t
    <3>1. visit_time[n] <= visit_time[scene[c]]
      BY <1>2, <2>1, <2>4 DEF Visits
    <3> QED
      BY <2>1, <2>3, <3>1, VisitTimesTyped
  <2>5. \A n \in Node : ctx[n] = c => visit_time[n] <= t /\ visit_time[n] # t
    BY <2>4, VisitTimesTyped
  <2>6. Visits'
    BY <1>1, <1>2, <2>1, <2>2, <2>5 DEF Visits, InFrame
  <2>7. VisitsAreNew'
    BY <1>1, <2>2, <2>5 DEF VisitsAreNew, InFrame
  <2>8. FromRoots'
    BY <1>1, <2>1 DEF FromRoots
  <2> QED
    BY <2>6, <2>7, <2>8
<1>4. CASE ~(\E c \in Ctx, t \in Time, op \in {"draw", "prepare_draw"} : Draw(op, c, t))
  <2>1. pc' \notin {"draw_honor", "conf_attached", "scene_attached"}
    BY <1>4 DEF Client, Create, Configure, SetScene, Free, NodeUnref, Toggle, AddChild, Idle, Start
  <2>2. Visits'
    BY <1>1, <1>2, <2>1 DEF Visits
  <2>3. VisitsAreNew'
    BY <2>1 DEF VisitsAreNew, VisitBegins
  <2>4. pc' \in {"scene_unref", "scene_attach"} => cmd'.node \in Roots \union {NoNode}
    <3>1. ASSUME NEW c \in Ctx, NEW n \in Node \union {NoNode}, SetScene(c, n)
          PROVE  cmd'.node \in Roots \union {NoNode}
      <4>1. cmd' = [op |-> "set_scene", ctx |-> c, node |-> n, t |-> Unset] /\ n \in Roots \union {NoNode}
        BY <3>1 DEF SetScene, Begin, Cmd
      <4> QED
        BY <4>1
    <3>2. CASE ~(\E c \in Ctx, n \in Node \union {NoNode} : SetScene(c, n))
      BY <1>4, <3>2 DEF Client, Create, Configure, Free, NodeUnref, Toggle, AddChild, Idle, Start
    <3> QED
      BY <3>1, <3>2
  <2> QED
    BY <1>1, <2>1, <2>2, <2>3, <2>4 DEF FromRoots
<1> QED
  BY <1>3, <1>4

(* Between the walks of a command no node is visited, but a failing        *)
(* prefetch forgets the visit of a node.                                   *)
LEMMA HonorPlays ==
  ASSUME Invariant, Attachment, Queueing, PlaysForward, FromRoots, Visits, HonorNext \/ UpdateScene
  PROVE  Visits'
<1> USE DEF Invariant
<1> DEFINE d == cmd.ctx
           r == scene[d]
<1>1. /\ pc = "draw_honor" /\ stack = <<>> /\ d \in Ctx /\ r \in Node /\ UNCHANGED <<ctx, scene>>
      /\ visit_time \in [Node -> Time \union {Unset}]
  BY DEF HonorNext, UpdateScene, HonorNode, HonorFails, NodePrefetch, NodePrefetchFails, NodeRelease,
     nodesUnchanged, nodeVars, lifeVars, ctxVars, At, CommandOK, TypeOK
<1>2. visit_time[r] = cmd.t
  BY <1>1 DEF Queueing, Asked, ActiveNodes, ActiveNow
<1>3. \A n \in Node : ctx[n] = d => visit_time[n] <= visit_time[r]
  BY <1>1, <1>2 DEF Visits, InFrame
<1>4. ASSUME NEW c \in Ctx, NEW n \in Node, ctx[n] = c, scene[c] # NoNode
      PROVE  scene[c] \in Node /\ ctx[scene[c]] = c /\ visit_time[n] <= visit_time[scene[c]]
  <2>1. scene[c] \in Node /\ ctx[scene[c]] = c
    BY <1>1, <1>4, OwnersStand DEF Walking
  <2>2. c # d => ~Busy(c)
    BY DEF Busy
  <2>3. visit_time[n] <= visit_time[scene[c]]
    BY <1>3, <1>4, <2>2 DEF Visits
  <2> QED
    BY <2>1, <2>3
<1>5. CASE UNCHANGED visit_time
  <2>1. \/ pc' = "draw_honor" /\ cmd' = cmd
        \/ pc' \notin {"draw_honor", "conf_attached", "scene_attached"}
    BY <1>1 DEF HonorNext, UpdateScene, Finish, Start
  <2>2. \A c \in Ctx : scene[c] # NoNode => \A n \in Node : ctx[n] = c => visit_time[n] <= visit_time[scene[c]]
    BY <1>4
  <2>3. pc' = "draw_honor" => cmd' = cmd
    BY <2>1
  <2> HIDE DEF d, r
  <2> QED
    BY <1>1, <1>5, <2>1, <2>2, <2>3 DEF Visits, InFrame
<1>6. CASE ~UNCHANGED visit_time
  <2> DEFINE q == activity[d]
             h == Head(q)
  <2>1. /\ HonorFails(h) /\ q # <<>> /\ pc' = "idle"
    BY <1>1, <1>6 DEF HonorNext, UpdateScene, HonorNode, NodePrefetch, NodeRelease, Finish,
       nodesUnchanged, nodeVars, activityVars
  <2>2. q \in Seq(Node)
    BY <1>1 DEF TypeOK
  <2>3. h = q[1] /\ 1 \in DOMAIN q /\ h \in Node
    BY <2>1, <2>2
  <2>4. ctx[h] = d
    BY <1>1, <2>3 DEF Attachment, Tracked
  <2>5. h \in PrefetchMayFail /\ visit_time' = [visit_time EXCEPT ![h] = Unset]
    BY <2>1 DEF HonorFails, NodePrefetchFails
  <2>6. r \in Roots
    BY <1>1, NodeAssumption DEF FromRoots
  <2> HIDE DEF h, q
  <2>7. ASSUME NEW c \in Ctx, scene[c] # NoNode, NEW n \in Node, ctx[n] = c
        PROVE  visit_time'[n] <= visit_time'[scene[c]]
    <3>1. scene[c] \in Node /\ ctx[scene[c]] = c /\ visit_time[n] <= visit_time[scene[c]]
      BY <1>4, <2>7
    <3>2. scene[c] # h
      BY <2>4, <2>5, <2>6, <3>1 DEF PlaysForward
    <3>3. visit_time'[scene[c]] = visit_time[scene[c]] /\ visit_time'[n] \in {visit_time[n], Unset}
      BY <1>1, <2>3, <2>5, <2>7, <3>1, <3>2
    <3> QED
      BY <3>1, <3>3, VisitTimesTyped
  <2>8. \A n \in Node : visit_time'[n] \in {visit_time[n], Unset}
    BY <1>1, <2>3, <2>5
  <2> QED
    BY <1>1, <2>1, <2>7, <2>8 DEF Visits
<1> QED
  BY <1>5, <1>6

LEMMA CommandPlays ==
  ASSUME Invariant, Ordered, Attachment, Queueing, Reattaches, PlaysForward, FromRoots, Visits, Command
  PROVE  FromRoots' /\ Visits' /\ VisitsAreNew'
<1> USE DEF Invariant
<1> DEFINE d == cmd.ctx
<1>1. /\ stack = <<>> /\ pc # "idle" /\ d \in Ctx
      /\ scene \in [Ctx -> Node \union {NoNode}] /\ visit_time \in [Node -> Time \union {Unset}]
  BY DEF Command, BackendConfigured, BackendFails, SceneReattached, UnrefScene, AttachScene,
     SceneAttached, SceneRefused, HonorNext, UpdateScene, DrawScene, FreeContext, At, CommandOK, TypeOK
<1>2. VisitsAreNew'
  <2>1. pc' = "draw_honor" => stack' = <<>>
    BY <1>1 DEF Command, BackendConfigured, BackendFails, SceneReattached, UnrefScene, AttachScene,
       SceneAttached, SceneRefused, HonorNext, HonorNode, HonorFails, UpdateScene, DrawScene, FreeContext,
       Start, Finish, callVars
  <2> QED
    BY <2>1 DEF VisitsAreNew, VisitBegins
<1>3. \/ UNCHANGED scene
      \/ scene' = [scene EXCEPT ![d] = NoNode]
      \/ pc = "scene_attached" /\ scene' = [scene EXCEPT ![d] = cmd.node]
  BY DEF Command, BackendConfigured, BackendFails, SceneReattached, UnrefScene, AttachScene,
     SceneAttached, SceneRefused, HonorNext, UpdateScene, DrawScene, FreeContext, ctxVars, At
<1>4. FromRoots'
  <2>1. \/ pc' \notin {"scene_unref", "scene_attach", "scene_attached"}
        \/ pc \in {"scene_unref", "scene_attach"} /\ cmd' = cmd
    BY <1>1 DEF Command, BackendConfigured, BackendFails, SceneReattached, UnrefScene, AttachScene,
       SceneAttached, SceneRefused, HonorNext, UpdateScene, DrawScene, FreeContext, At, Start, Finish
  <2>2. \A c \in Ctx : scene'[c] \in Roots \union {NoNode}
    BY <1>1, <1>3 DEF FromRoots
  <2> QED
    BY <2>1, <2>2 DEF FromRoots
<1>5. Visits'
  <2>1. CASE HonorNext \/ UpdateScene
    BY <2>1, HonorPlays
  <2>2. CASE ~HonorNext /\ ~UpdateScene
    <3>1. UNCHANGED <<visit_time, ctx>> /\ pc' # "draw_honor"
      BY <2>2 DEF Command, BackendConfigured, BackendFails, SceneReattached, UnrefScene, AttachScene,
         SceneAttached, SceneRefused, DrawScene, FreeContext, At, Start, Finish, nodesUnchanged, nodeVars,
         lifeVars, activityVars
    <3>2. pc' \in {"conf_attached", "scene_attached"} => \A n \in Node : ctx[n] # cmd'.ctx
      <4>1. CASE BackendConfigured
        <5>1. pc = "conf_backend" /\ (pc' \in {"conf_attached", "scene_attached"} => cmd' = cmd)
          BY <4>1 DEF BackendConfigured, At, Start, Finish
        <5>2. \A n \in Node : ctx[n] # d
          BY <1>1, <5>1, OwnersStand DEF Walking
        <5> QED
          BY <5>1, <5>2
      <4>2. CASE AttachScene
        <5>1. pc = "scene_attach" /\ scene[d] = NoNode /\ (pc' \in {"conf_attached", "scene_attached"} => cmd' = cmd)
          BY <4>2 DEF AttachScene, At, Start, Finish, Ordered, Control
        <5>2. \A n \in Node : ctx[n] # d
          BY <1>1, <5>1, OwnersStand, NodeAssumption DEF Walking
        <5> QED
          BY <5>1, <5>2
      <4>3. CASE ~BackendConfigured /\ ~AttachScene
        BY <2>2, <4>3 DEF Command, BackendFails, SceneReattached, UnrefScene, SceneAttached, SceneRefused,
           DrawScene, FreeContext, Start, Finish
      <4> QED
        BY <4>1, <4>2, <4>3
    <3>3. ASSUME NEW c \in Ctx, scene'[c] # NoNode, ~Busy(c)', NEW n \in Node, ctx[n] = c
          PROVE  visit_time[n] <= visit_time[scene'[c]]
      <4>1. CASE c # d
        <5>1. scene'[c] = scene[c] /\ ~Busy(c)
          BY <1>1, <4>1 DEF Command, BackendConfigured, BackendFails, SceneReattached, UnrefScene, AttachScene,
             SceneAttached, SceneRefused, HonorNext, UpdateScene, DrawScene, FreeContext, ctxVars, Busy
        <5> QED
          BY <3>3, <5>1 DEF Visits
      <4>2. CASE c = d
        <5>1. pc \notin {"conf_backend", "scene_unref", "free_unref"}
          BY <1>1, <3>3, <4>2, OwnersStand DEF Walking
        <5>2. CASE pc \in {"conf_attached", "scene_attached"}
          <6>1. scene'[c] \in Node
            <7>1. \/ scene'[c] \in {scene[c], NoNode}
                  \/ pc = "scene_attached" /\ scene'[c] = cmd.node
              BY <1>1, <4>2, <1>3
            <7> QED
              BY <1>1, <3>3, <7>1 DEF CommandOK
          <6>2. visit_time[n] = Unset
            BY <3>3, <4>2, <5>2 DEF Visits, InFrame
          <6> QED
            BY <6>1, <6>2, VisitTimesTyped
        <5>3. CASE pc \notin {"conf_attached", "scene_attached"}
          <6>1. scene'[c] \in {scene[c], NoNode} /\ pc # "draw_honor"
            BY <1>1, <2>2, <5>3, <4>2 DEF Command, BackendConfigured, BackendFails, SceneReattached,
               UnrefScene, AttachScene, SceneAttached, SceneRefused, DrawScene, FreeContext, ctxVars, At
          <6>2. scene'[c] = scene[c] /\ ~Busy(c)
            BY <3>3, <5>1, <5>3, <6>1 DEF Busy
          <6> QED
            BY <3>3, <6>2 DEF Visits
        <5> QED
          BY <5>2, <5>3
      <4> QED
        BY <4>1, <4>2
    <3>4. \A n \in Node : ctx'[n] = cmd'.ctx <=> InFrame(n)'
      BY DEF InFrame
    <3> QED
      BY <3>1, <3>2, <3>3, <3>4 DEF Visits
  <2> QED
    BY <2>1, <2>2
<1> QED
  BY <1>2, <1>4, <1>5

(* The walks of the graph and of a frame.                                  *)
LEMMA WalkPlays ==
  ASSUME Invariant, Ordered, Attachment, FramesStand, PlaysForward, FromRoots, Visits, GraphWalk
  PROVE  FromRoots' /\ Visits' /\ VisitsAreNew'
<1> USE DEF Invariant
<1> DEFINE h == Top.node
           o == Top.owner
<1>1. /\ stack # <<>> /\ UNCHANGED <<scene, pc, cmd>> /\ h \in Node /\ Top \in Calls(stack)
      /\ visit_time \in [Node -> Time \union {Unset}] /\ ctx \in [Node -> Ctx \union {NoCtx}]
  BY WalkGoes, RunningCall DEF TypeOK
<1>2. Top.fn \in {"attach", "detach", "unref"}
  BY DEF GraphWalk, GraphStep, AttachEnter, AttachChild, AttachSucceeds, AttachFails,
     DetachSkipsOther, DetachEnter, DetachEnterUninit, DetachChild, DetachLeave, UnrefEnter, UnrefChild,
     UnrefLeave, Entering, Leaving, Running
<1>3. pc # "draw_honor"
  BY <1>1, <1>2 DEF Ordered, WalkStands, Stands
<1>4. FromRoots' /\ VisitsAreNew'
  BY <1>1, <1>3 DEF FromRoots, VisitsAreNew, VisitBegins
<1>5. \/ UNCHANGED <<ctx, visit_time>>
      \/ AttachSucceeds /\ UNCHANGED visit_time /\ ctx' = [ctx EXCEPT ![h] = o]
      \/ AttachFails /\ ctx' = [ctx EXCEPT ![h] = NoCtx] /\ visit_time' = [visit_time EXCEPT ![h] = Unset]
      \/ /\ DetachEnter /\ ctx[h] = o
         /\ ctx' = [ctx EXCEPT ![h] = NoCtx] /\ visit_time' = [visit_time EXCEPT ![h] = Unset]
  BY DEF GraphWalk, GraphStep, AttachEnter, AttachChild, AttachSucceeds, AttachFails,
     DetachSkipsOther, DetachEnter, Uninit, DetachEnterUninit, DetachChild, DetachLeave, UnrefEnter, UnrefChild,
     UnrefLeave, CallChild, nodeVars, paramVars, lifeVars, activityVars
<1>6. CASE UNCHANGED <<ctx, visit_time>>
  BY <1>1, <1>4, <1>6 DEF Visits, Busy, InFrame
<1>7. CASE ~UNCHANGED <<ctx, visit_time>>
  <2>1. /\ Top.fn \in {"attach", "detach"} /\ o \in Ctx /\ NoCtx \notin Ctx
        /\ AttachSucceeds => ctx[h] \in {NoCtx, o} /\ o = cmd.ctx
        /\ AttachFails => ctx[h] = NoCtx
        /\ Top.fn = "attach" => AttachSucceeds \/ AttachFails
    <3>1. Top.fn = "attach" \/ Top.fn = "detach"
      BY <1>5, <1>7 DEF AttachSucceeds, AttachFails, DetachEnter, Entering, Leaving, Running
    <3>2. Top.fn = "attach" => AttachSucceeds \/ AttachFails
      BY <1>5, <1>7 DEF DetachEnter, Entering, Running
    <3>3. AttachSucceeds => ctx[h] \in {NoCtx, o} /\ o = cmd.ctx
      <4>1. ASSUME AttachSucceeds
            PROVE  Top.fn = "attach" /\ Top.next > 0
        <5>1. Top.fn = "attach" /\ Top.next = Len(children[Top.node]) + 1 /\ Len(children[Top.node]) \in Nat
          BY <1>1, <4>1, RunningCall DEF AttachSucceeds, Leaving, Running
        <5> QED
          BY <5>1
      <4> QED
        BY <1>1, <4>1 DEF CallsOK
    <3>4. AttachFails => ctx[h] = NoCtx
      BY <1>1 DEF AttachFails, Attachment, Tracked
    <3> QED
      BY <1>1, <3>1, <3>2, <3>3, <3>4, NodeAssumption DEF CallsOK
  <2>2. \A n \in Node \ {h} : ctx'[n] = ctx[n] /\ visit_time'[n] = visit_time[n]
    BY <1>1, <1>5
  <2>3. /\ ctx'[h] = NoCtx => visit_time'[h] = Unset
        /\ visit_time'[h] \in {visit_time[h], Unset}
        /\ ctx'[h] # NoCtx => AttachSucceeds /\ ctx'[h] = o /\ visit_time'[h] = visit_time[h]
    BY <1>1, <1>5, <1>7, <2>1
  <2>4. ASSUME NEW c \in Ctx, scene[c] # NoNode, ~Busy(c)
        PROVE  ~Walking("attach", c) /\ ~Walking("detach", c)
    <3>1. Walking("attach", c) => c = cmd.ctx /\ pc \in {"conf_attached", "scene_attached"}
      BY <1>1 DEF Walking, CallsOK, Ordered, WalkStands, Stands
    <3>2. Walking("detach", c) => c = cmd.ctx /\ pc \in {"conf_backend", "scene_unref", "free_unref"}
      BY <1>1, <2>4 DEF Walking, Ordered, WalkStands, Stands
    <3>3. pc = "scene_attached" => scene[cmd.ctx] = NoNode
      BY DEF Ordered, Control
    <3> QED
      BY <2>4, <3>1, <3>2, <3>3 DEF Busy
  <2>5. ASSUME NEW c \in Ctx, scene[c] # NoNode, ~Busy(c), NEW n \in Node, ctx'[n] = c
        PROVE  visit_time'[n] <= visit_time'[scene[c]]
    <3>1. ~Walking("attach", c) /\ ~Walking("detach", c)
      BY <2>4, <2>5
    <3>2. c # o
      BY <1>1, <2>1, <3>1 DEF Walking
    <3>3. n # h /\ ctx[n] = c /\ visit_time'[n] = visit_time[n]
      BY <2>1, <2>2, <2>3, <2>5, <3>2
    <3>4. c = cmd.ctx => pc \notin {"conf_attached", "scene_attached"}
      BY <2>5 DEF Busy, Ordered, Control
    <3>5. scene[c] \in Node /\ ctx[scene[c]] = c
      BY <3>1, <3>3, <3>4, OwnersStand
    <3>6. scene[c] # h
      BY <1>5, <1>7, <2>1, <3>2, <3>5
    <3>7. visit_time'[scene[c]] = visit_time[scene[c]]
      BY <2>2, <3>5, <3>6
    <3> QED
      BY <2>5, <3>3, <3>7 DEF Visits
  <2>6. ASSUME pc \in {"conf_attached", "scene_attached"}, NEW n \in Node, ctx'[n] = cmd.ctx
        PROVE  visit_time'[n] = Unset
    <3>1. ctx[n] = NoCtx \/ ctx[n] = cmd.ctx
      <4>1. cmd.ctx \in Ctx
        BY <2>6 DEF CommandOK
      <4>2. CASE n = h
        BY <2>1, <2>3, <2>6, <4>1, <4>2
      <4>3. CASE n # h
        BY <2>2, <2>6, <4>3
      <4> QED
        BY <4>2, <4>3
    <3>2. visit_time[n] = Unset
      BY <2>6, <3>1 DEF Visits, InFrame
    <3> QED
      BY <2>2, <2>3, <3>2
  <2>7. \A n \in Node : ctx'[n] = NoCtx => visit_time'[n] = Unset
    BY <2>2, <2>3 DEF Visits
  <2> HIDE DEF h, o
  <2>8. \A c \in Ctx : Busy(c)' <=> Busy(c)
    BY <1>1 DEF Busy
  <2> QED
    BY <1>1, <1>3, <1>4, <2>5, <2>6, <2>7, <2>8 DEF Visits, InFrame
<1> QED
  BY <1>4, <1>6, <1>7

LEMMA OnTop ==
  ASSUME NEW s \in Seq(Frame), NEW e, NEW f
  PROVE  /\ Head(<<e>> \o s) = e
         /\ Len(<<e, f>> \o s) > 1
OBVIOUS

LEMMA FramePlays ==
  ASSUME Invariant, Ordered, Attachment, FramesStand, Visiting, PlaysForward, FromRoots, Visits, ActivityWalk
  PROVE  FromRoots' /\ Visits' /\ VisitsAreNew'
<1> USE DEF Invariant
<1> DEFINE h == Top.node
<1>1. /\ stack # <<>> /\ UNCHANGED <<scene, pc, cmd>> /\ h \in Node
      /\ visit_time \in [Node -> Time \union {Unset}] /\ ctx \in [Node -> Ctx \union {NoCtx}]
  BY WalkGoes, RunningCall DEF TypeOK
<1>2. FromRoots'
  BY <1>1 DEF FromRoots
<1>3. UNCHANGED ctx /\ (~VisitEnter => UNCHANGED visit_time)
  BY DEF ActivityWalk, ActivityStep, VisitSkips, VisitEnter, VisitChild, VisitLeave,
     UpdateSkips, UpdateEnter, UpdateChild, UpdateLeave, UpdateFails, DrawEnter, DrawChild,
     DrawLeave, CallChild, nodeVars, lifeVars, activityVars
<1>4. Visits'
  <2>1. CASE UNCHANGED visit_time
    BY <1>1, <1>3, <2>1 DEF Visits, Busy, InFrame
  <2>2. CASE ~UNCHANGED visit_time
    <3>1. pc = "draw_honor" /\ VisitEnter /\ Top.fn = "visit"
      BY <1>1, <1>3, <2>2 DEF VisitEnter, Entering, Running, FramesStand
    <3>2. Top.t = cmd.t /\ ctx[h] = cmd.ctx /\ cmd.ctx \in Ctx
      BY <3>1, VisitSteps DEF Attachment
    <3>3. visit_time' = [visit_time EXCEPT ![h] = Top.t]
      BY <3>1 DEF VisitEnter
    <3>4. cmd.ctx # NoCtx /\ cmd.t \in Int
      BY <3>2, NodeAssumption, VisitTimesTyped DEF TypeOK, CmdData
    <3>5. visit_time'[h] = cmd.t /\ \A n \in Node \ {h} : visit_time'[n] = visit_time[n]
      BY <1>1, <3>2, <3>3
    <3>6. ASSUME NEW c \in Ctx, scene[c] # NoNode, ~Busy(c), NEW n \in Node, ctx[n] = c
          PROVE  visit_time'[n] <= visit_time'[scene[c]]
      <4>1. c # cmd.ctx
        BY <3>1, <3>6 DEF Busy
      <4>2. scene[c] \in Node /\ ctx[scene[c]] = c
        BY <3>1, <3>6, OwnersStand DEF Walking
      <4>3. scene[c] # h /\ n # h
        BY <3>2, <3>6, <4>1, <4>2
      <4> QED
        BY <3>5, <3>6, <4>2, <4>3 DEF Visits
    <3>7. \A n \in Node : InFrame(n) => visit_time'[n] <= cmd.t
      BY <3>1, <3>4, <3>5 DEF Visits
    <3>8. \A n \in Node : ctx[n] = NoCtx => visit_time'[n] = Unset
      BY <3>2, <3>4, <3>5 DEF Visits
    <3> HIDE DEF h
    <3>9. \A c \in Ctx : Busy(c)' <=> Busy(c)
      BY <1>1 DEF Busy
    <3> QED
      BY <1>1, <1>3, <3>1, <3>6, <3>7, <3>8, <3>9 DEF Visits, InFrame
  <2> QED
    BY <2>1, <2>2
<1>5. VisitsAreNew'
  <2> SUFFICES ASSUME pc = "draw_honor", VisitBegins'
               PROVE  FALSE
    BY <1>1 DEF VisitsAreNew, VisitBegins
  <2>1. /\ stack \in Seq(Frame) /\ Tail(stack) \in Seq(Frame) /\ Top = Head(stack) /\ Top \in Frame
        /\ VisitSkips \/ VisitEnter \/ VisitChild \/ VisitLeave
    <3>1. /\ stack \in Seq(Frame) /\ Top = Head(stack) /\ Top \in Frame
          /\ VisitSkips \/ VisitEnter \/ VisitChild \/ VisitLeave
      BY VisitSteps DEF Attachment
    <3> QED
      BY <1>1, <3>1, StackTop
  <2>2. stack' # <<>> /\ Head(stack').next = 0 /\ Tail(stack') = <<>>
    BY DEF VisitBegins, VisitCall, Call
  <2>3. CASE stack' = Tail(stack)
    <3>1. Calling(children, stack)
      BY DEF Visiting, Decides
    <3>2. Tail(stack) \in Seq(Frame) /\ Head(stack') \in Calls(Tail(stack)) /\ Head(stack') \in Frame
      <4>1. Tail(stack) \in Seq(Frame) /\ Tail(stack) # <<>>
        BY <2>1, <2>2, <2>3
      <4> QED
        BY <2>3, <4>1, StackTop
    <3>3. Head(stack').next - 1 \in 1 .. Len(children[Head(stack').node])
      BY <1>1, <3>1, <3>2 DEF Calling
    <3> QED
      BY <2>2, <3>2, <3>3
  <2>4. CASE VisitEnter
    <3> DEFINE e == [Top EXCEPT !.next = 1, !.queue = ToQueue(h, Top.t),
                                !.active = ChildActive(h, @, Top.t)]
    <3>1. stack' = <<e>> \o Tail(stack)
      BY <2>4 DEF VisitEnter
    <3>2. e.next = 1
      BY <2>1 DEF Frame
    <3> HIDE DEF e
    <3>3. Head(stack') = e
      BY <1>1, <2>1, <3>1, OnTop, StackTop
    <3> QED
      BY <2>2, <3>2, <3>3
  <2>5. CASE VisitChild
    <3> DEFINE e == VisitCall(NextChild, Top.active, Top.t)
               f == [Top EXCEPT !.next = @ + 1]
    <3>1. stack' = <<e, f>> \o Tail(stack)
      BY <2>5 DEF VisitChild, CallChild
    <3> HIDE DEF e, f
    <3>2. Len(stack') > 1
      BY <1>1, <2>1, <3>1, OnTop, StackTop
    <3>3. stack' = <<VisitCall(scene[cmd.ctx], TRUE, cmd.t)>>'
      BY DEF VisitBegins
    <3>4. Len(stack') = 1
      BY <3>3
    <3> QED
      BY <3>2, <3>4
  <2> QED
    BY <2>1, <2>3, <2>4, <2>5 DEF VisitSkips, VisitLeave, Return
<1> QED
  BY <1>2, <1>4, <1>5

LEMMA VisitsPreserved ==
  ASSUME PlaysForward,
         Invariant, Ordered, Attachment, FramesStand, Visiting, Queueing, Reattaches, FromRoots, Visits,
         VisitsAreNew, [Next]_vars
  PROVE  FromRoots' /\ Visits' /\ VisitsAreNew'
<1>1. CASE UNCHANGED vars
  <2>1. UNCHANGED <<ctx, visit_time, scene, pc, cmd, stack>>
    BY <1>1 DEF vars, nodeVars, lifeVars, activityVars, callVars, ctxVars
  <2>2. \A c \in Ctx : Busy(c)' <=> Busy(c)
    BY <2>1 DEF Busy
  <2> QED
    BY <2>1, <2>2 DEF FromRoots, Visits, VisitsAreNew, VisitBegins, InFrame
<1>2. CASE Client
  BY <1>2, ClientPlays
<1>3. CASE Command
  BY <1>3, CommandPlays
<1>4. CASE GraphWalk
  BY <1>4, WalkPlays
<1>5. CASE ActivityWalk
  BY <1>5, FramePlays
<1> QED
  BY <1>1, <1>2, <1>3, <1>4, <1>5 DEF Next

(* A client that plays forward visits every frame at a new time, whatever  *)
(* scenes it gives to whatever contexts, and whatever fails meanwhile.     *)
LEMMA VisitsHold ==
  ASSUME PlaysForward
  PROVE  Spec /\ []Reattaches =>
           [](Invariant /\ Ordered /\ Attachment /\ FramesStand /\ Visiting /\ Queueing /\ FromRoots /\ Visits
              /\ VisitsAreNew)
<1>1. Init => OneChild /\ FramesStand /\ Visiting /\ Queueing /\ FromRoots /\ Visits /\ VisitsAreNew
  BY OneChildInitially DEF Init, FramesStand, Visiting, Queueing, FromRoots, Visits, VisitsAreNew, VisitBegins
<1>2. Invariant => TypeOK
  BY DEF Invariant
<1>3. Attachment => Tracked
  BY DEF Attachment
<1>4. Invariant /\ Ordered /\ FramesStand /\ [Next]_vars => FramesStand'
  BY FramesStandOn
<1>5. /\ Invariant /\ Ordered /\ Attachment /\ FramesStand /\ Visiting /\ Queueing /\ Reattaches /\ FromRoots
      /\ Visits /\ VisitsAreNew /\ [Next]_vars
      => FromRoots' /\ Visits' /\ VisitsAreNew'
  BY VisitsPreserved
<1> QED
  BY <1>1, <1>2, <1>3, <1>4, <1>5, AttachmentHolds, OneChildPreserved, VisitingPreserved, QueueingPreserved,
     PTL DEF Spec

(* The same for the updates: a node that is not prefetched was not updated,*)
(* nor was one that has just been attached; otherwise no node above a      *)
(* filter was updated for a later time than that of the scene.  The calls  *)
(* of an update below the running one have called a child.                 *)
Updates ==
  /\ \A n \in Node : state[n] # Ready => last_update_time[n] = Unset
  /\ pc \in {"conf_attached", "scene_attached"} => \A n \in Node : InFrame(n) => last_update_time[n] = Unset
  /\ pc = "draw_honor" => \A n \in Node \ FreeNodes : InFrame(n) => last_update_time[n] < cmd.t
  /\ \A c \in Ctx : scene[c] # NoNode /\ ~Busy(c) =>
       \A n \in Node \ FreeNodes : ctx[n] = c => last_update_time[n] <= visit_time[scene[c]]
  /\ pc = "draw_draw" /\ stack # <<>> => \A f \in Calls(Tail(stack)) : f.next > 0

LEMMA UpdateTimesTyped ==
  ASSUME Invariant, PlaysForward
  PROVE  \A n \in Node : last_update_time[n] \in Int /\ Unset <= last_update_time[n]
<1>1. \A n \in Node : last_update_time[n] \in Time \union {Unset}
  BY DEF Invariant, TypeOK
<1> QED
  BY <1>1, VisitTimesTyped

(* A node that no filter is below keeps that if its descendants keep their *)
(* children.                                                               *)
LEMMA FreeStays ==
  ASSUME NEW g \in [Node -> Seq(Node)], NEW k, NEW D \in SUBSET Node,
         \A r \in D : \A i \in 1 .. Len(k[r]) : i \in 1 .. Len(g[r]) /\ k[r][i] = g[r][i] /\ g[r][i] \in D,
         NEW n \in D, FilterFree(g, n)
  PROVE  FilterFree(k, n)
<1>1. PICK S \in SUBSET Node :
        n \in S /\ \A m \in S : ~IsFilter(m) /\ \A i \in 1 .. Len(g[m]) : g[m][i] \in S
  BY DEF FilterFree
<1>2. \A m \in S \intersect D : ~IsFilter(m) /\ \A i \in 1 .. Len(k[m]) : k[m][i] \in S \intersect D
  BY <1>1
<1>3. n \in S \intersect D /\ S \intersect D \in SUBSET Node
  BY <1>1
<1> QED
  BY <1>2, <1>3 DEF FilterFree

(* The client adds children to nodes without a context only.               *)
LEMMA ClientKeepsFree ==
  ASSUME Invariant, Ordered, Attachment, Client, NEW n \in FreeNodes, ctx[n] # NoCtx
  PROVE  n \in FreeNodes'
<1> DEFINE D == {r \in Node : ctx[r] # NoCtx}
<1>1. /\ pc = "idle" /\ stack = <<>>
      /\ \/ UNCHANGED children
         \/ \E r, d \in Node : ctx[r] = NoCtx /\ children' = [children EXCEPT ![r] = Append(@, d)]
  <2> USE DEF Idle
  <2>1. CASE \E r, d \in Node : AddChild(r, d)
    BY <2>1 DEF AddChild, MayExtend
  <2>2. CASE ~\E r, d \in Node : AddChild(r, d)
    BY <2>2 DEF Client, Create, Configure, SetScene, Draw, Free, NodeUnref, Toggle,
       nodesUnchanged, nodeVars, paramVars
  <2> QED
    BY <2>1, <2>2
<1>2. children \in [Node -> Seq(Node)] /\ ctx \in [Node -> Ctx \union {NoCtx}]
  BY DEF Invariant, TypeOK
<1>3. CASE UNCHANGED children
  BY <1>3 DEF FreeNodes
<1>4. CASE ~UNCHANGED children
  <2>1. PICK r \in Node, d \in Node : ctx[r] = NoCtx /\ children' = [children EXCEPT ![r] = Append(@, d)]
    BY <1>1, <1>4
  <2>2. \A m \in D : children'[m] = children[m]
    BY <1>2, <2>1
  <2>3. ASSUME NEW m \in D, NEW i \in 1 .. Len(children[m])
        PROVE  children[m][i] \in D
    <3>1. m \in Node /\ ctx[m] \in Ctx /\ ctx[m] # NoCtx
      BY <1>2
    <3>2. cmd.ctx = NoCtx
      BY <1>1, <1>4 DEF Ordered, Control, NoCmd
    <3>3. ctx[children[m][i]] = ctx[m]
      BY <1>1, <1>4, <3>1, <3>2, OwnersNow
    <3>4. children[m][i] \in Node
      BY <1>2, <3>1
    <3> QED
      BY <3>1, <3>3, <3>4
  <2>4. n \in D /\ D \in SUBSET Node /\ FilterFree(children, n)
    BY DEF FreeNodes
  <2>5. \A m \in D : \A i \in 1 .. Len(children'[m]) :
          i \in 1 .. Len(children[m]) /\ children'[m][i] = children[m][i] /\ children[m][i] \in D
    BY <2>2, <2>3
  <2> HIDE DEF D
  <2>6. FilterFree(children', n)
    BY <1>2, <2>4, <2>5, FreeStays
  <2> QED
    BY <2>6 DEF FreeNodes
<1> QED
  BY <1>3, <1>4

LEMMA ClientUpdates ==
  ASSUME Invariant, Ordered, Attachment, PlaysForward, Updates, Client
  PROVE  Updates' /\ UpdatesAreNew'
<1> USE DEF Invariant
<1>1. pc = "idle" /\ UNCHANGED <<visit_time, last_update_time, state, ctx, scene>>
  BY DEF Client, Create, Configure, SetScene, Draw, Free, NodeUnref, Toggle, AddChild, Idle,
     nodesUnchanged, nodeVars, lifeVars, activityVars, ctxVars
<1>2. \A c \in Ctx : ~Busy(c) /\ c # NoCtx
  BY <1>1, NodeAssumption DEF Busy
<1>3. pc' \notin {"draw_draw", "conf_attached", "scene_attached"}
  BY DEF Client, Create, Configure, SetScene, Draw, Free, NodeUnref, Toggle, AddChild, Idle, Start
<1>4. UpdatesAreNew'
  BY <1>3 DEF UpdatesAreNew, UpdateBegins
<1>5. \A n \in Node \ FreeNodes' : ctx[n] # NoCtx => n \notin FreeNodes
  BY ClientKeepsFree
<1>6. ASSUME NEW c \in Ctx, scene[c] # NoNode, NEW n \in Node \ FreeNodes', ctx[n] = c
      PROVE  last_update_time[n] <= visit_time[scene[c]]
  BY <1>2, <1>5, <1>6 DEF Updates
<1>7. ASSUME NEW c \in Ctx, NEW t \in Time, NEW op \in {"draw", "prepare_draw"}, Draw(op, c, t)
      PROVE  Updates' /\ UpdatesAreNew'
  <2>1. /\ scene[c] # NoNode /\ scene[c] \in Node
        /\ cmd' = [op |-> op, ctx |-> c, node |-> NoNode, t |-> t] /\ MayFollow(visit_time[scene[c]], t)
    BY <1>7 DEF Draw, Start, Begin, Cmd, TypeOK
  <2>2. cmd'.ctx = c /\ cmd'.t = t
    BY <2>1
  <2>3. visit_time[scene[c]] < t
    BY <2>1, <1>7, VisitTimesTyped DEF MayFollow, PlaysForward
  <2>4. ASSUME NEW n \in Node \ FreeNodes', ctx[n] = c
        PROVE  last_update_time[n] < t
    <3>1. last_update_time[n] <= visit_time[scene[c]]
      BY <1>6, <2>1, <2>4
    <3> QED
      BY <2>1, <2>3, <3>1, VisitTimesTyped, UpdateTimesTyped
  <2> QED
    BY <1>1, <1>3, <1>4, <1>6, <2>2, <2>4 DEF Updates, InFrame
<1>8. CASE ~(\E c \in Ctx, t \in Time, op \in {"draw", "prepare_draw"} : Draw(op, c, t))
  <2>1. pc' # "draw_honor"
    BY <1>8 DEF Client, Create, Configure, SetScene, Free, NodeUnref, Toggle, AddChild, Idle, Start
  <2> QED
    BY <1>1, <1>3, <1>4, <1>6, <2>1 DEF Updates
<1> QED
  BY <1>7, <1>8

LEMMA HonorUpdates ==
  ASSUME Invariant, Attachment, Queueing, PlaysForward, FromRoots, Updates, HonorNext \/ UpdateScene
  PROVE  Updates' /\ UpdatesAreNew'
<1> USE DEF Invariant
<1> DEFINE d == cmd.ctx
           r == scene[d]
<1>1. /\ pc = "draw_honor" /\ stack = <<>> /\ d \in Ctx /\ r \in Node /\ UNCHANGED <<children, ctx, scene>>
      /\ visit_time \in [Node -> Time \union {Unset}] /\ state \in [Node -> State]
      /\ last_update_time \in [Node -> Time \union {Unset}]
  BY DEF HonorNext, UpdateScene, HonorNode, HonorFails, NodePrefetch, NodePrefetchFails, NodeRelease,
     nodesUnchanged, nodeVars, paramVars, lifeVars, ctxVars, At, CommandOK, TypeOK
<1>2. visit_time[r] = cmd.t /\ FreeNodes' = FreeNodes
  BY <1>1 DEF Queueing, Asked, ActiveNodes, ActiveNow, FreeNodes
<1>3. \A n \in Node \ FreeNodes : ctx[n] = d => last_update_time[n] < visit_time[r]
  BY <1>1, <1>2 DEF Updates, InFrame
<1>4. ASSUME NEW c \in Ctx, NEW n \in Node \ FreeNodes, ctx[n] = c, scene[c] # NoNode
      PROVE  scene[c] \in Node /\ ctx[scene[c]] = c /\ last_update_time[n] <= visit_time[scene[c]]
  <2>1. scene[c] \in Node /\ ctx[scene[c]] = c
    BY <1>1, <1>4, OwnersStand DEF Walking
  <2>2. CASE c # d
    BY <1>4, <2>1, <2>2 DEF Updates, Busy
  <2>3. CASE c = d
    <3>1. last_update_time[n] < visit_time[r]
      BY <1>3, <1>4, <2>3
    <3> QED
      BY <1>1, <2>1, <2>3, <3>1, VisitTimesTyped, UpdateTimesTyped
  <2> QED
    BY <2>2, <2>3
<1>5. CASE UpdateScene
  <2>1. UNCHANGED <<visit_time, last_update_time, state, cmd>> /\ pc' = "draw_draw" /\ stack' = <<UpdateCall(r, cmd.t)>>
    BY <1>5 DEF UpdateScene, Start, nodesUnchanged, nodeVars, lifeVars, activityVars
  <2>2. \A c \in Ctx : scene[c] # NoNode =>
          \A n \in Node \ FreeNodes : ctx[n] = c => last_update_time[n] <= visit_time[scene[c]]
    BY <1>4
  <2>3. \A n \in Node \ FreeNodes : ctx[n] = d => last_update_time[n] # cmd.t
    BY <1>2, <1>3, VisitTimesTyped, UpdateTimesTyped
  <2> HIDE DEF r
  <2>4. Calls(Tail(stack')) = {}
    BY <2>1 DEF Calls
  <2> QED
    BY <1>1, <1>2, <2>1, <2>2, <2>3, <2>4 DEF Updates, UpdatesAreNew, InFrame
<1>6. CASE HonorNext
  <2> DEFINE q == activity[d]
             h == Head(q)
  <2>1. /\ q # <<>> /\ UNCHANGED stack
        /\ \/ HonorNode(h) /\ UNCHANGED <<visit_time, pc, cmd>>
           \/ HonorFails(h) /\ pc' = "idle"
    BY <1>6 DEF HonorNext, HonorNode, HonorFails, NodePrefetch, NodeRelease, Finish, Fail, At, activityVars, callVars
  <2>2. q \in Seq(Node)
    BY <1>1 DEF TypeOK
  <2>3. h = q[1] /\ 1 \in DOMAIN q /\ h \in Node
    BY <2>1, <2>2
  <2>4. ctx[h] = d
    BY <1>1, <2>3 DEF Attachment, Tracked
  <2>5. HonorFails(h) => h \in PrefetchMayFail /\ visit_time' = [visit_time EXCEPT ![h] = Unset]
    BY <2>1 DEF HonorFails, NodePrefetchFails
  <2>6. /\ \A n \in Node : last_update_time'[n] \in {last_update_time[n], Unset}
        /\ \A n \in Node : state'[n] # Ready => last_update_time'[n] = Unset
    <3>1. Initialized # Ready
      BY DEF Initialized, Ready
    <3>2. CASE HonorNode(h) /\ is_active[h]
      <4>1. state' = [state EXCEPT ![h] = Ready] /\ UNCHANGED last_update_time
        BY <3>2 DEF HonorNode, NodePrefetch, activityVars
      <4> QED
        BY <1>1, <2>3, <4>1 DEF Updates
    <3>3. CASE HonorNode(h) /\ ~is_active[h]
      <4>1. /\ state' = [state EXCEPT ![h] = IF @ = Ready THEN Initialized ELSE @]
            /\ last_update_time' = [last_update_time EXCEPT ![h] = IF state[h] = Ready THEN Unset ELSE @]
        BY <3>3 DEF HonorNode, NodeRelease
      <4> HIDE DEF h
      <4>2. ASSUME NEW n \in Node, n # h
            PROVE  /\ last_update_time'[n] \in {last_update_time[n], Unset}
                   /\ state'[n] # Ready => last_update_time'[n] = Unset
        BY <1>1, <2>3, <4>1, <4>2 DEF Updates
      <4>3. /\ last_update_time'[h] \in {last_update_time[h], Unset}
            /\ state'[h] # Ready => last_update_time'[h] = Unset
        BY <1>1, <2>3, <4>1 DEF Updates
      <4> QED
        BY <4>2, <4>3
    <3>4. CASE HonorFails(h)
      <4>1. UNCHANGED <<state, last_update_time>>
        BY <3>4 DEF HonorFails, NodePrefetchFails, lifeVars
      <4> QED
        BY <4>1 DEF Updates
    <3> QED
      BY <2>1, <3>2, <3>3, <3>4
  <2>7. r \in Roots
    BY <1>1, NodeAssumption DEF FromRoots
  <2>8. UpdatesAreNew'
    BY <1>1, <2>1 DEF UpdatesAreNew, UpdateBegins
  <2> HIDE DEF h, q
  <2>9. ASSUME NEW c \in Ctx, scene[c] # NoNode, NEW n \in Node \ FreeNodes, ctx[n] = c
        PROVE  last_update_time'[n] <= visit_time'[scene[c]]
    <3>1. scene[c] \in Node /\ ctx[scene[c]] = c /\ last_update_time[n] <= visit_time[scene[c]]
      BY <1>4, <2>9
    <3>2. HonorFails(h) => scene[c] # h
      BY <2>4, <2>5, <2>7, <3>1 DEF PlaysForward
    <3>3. visit_time'[scene[c]] = visit_time[scene[c]]
      BY <1>1, <2>1, <2>3, <2>5, <3>1, <3>2
    <3>4. last_update_time'[n] \in {last_update_time[n], Unset}
      BY <2>6
    <3> QED
      BY <3>1, <3>3, <3>4, VisitTimesTyped
  <2>10. ASSUME pc' = "draw_honor", NEW n \in Node \ FreeNodes, ctx[n] = d
         PROVE  last_update_time'[n] < cmd.t /\ cmd' = cmd
    <3>1. last_update_time[n] < cmd.t /\ last_update_time'[n] \in {last_update_time[n], Unset}
      BY <1>2, <1>3, <2>6, <2>10
    <3> QED
      BY <1>1, <1>2, <2>1, <2>10, <3>1, VisitTimesTyped, UpdateTimesTyped
  <2>11. pc' \in {"idle", "draw_honor"} /\ (pc' = "draw_honor" => cmd' = cmd)
    BY <1>1, <2>1
  <2> HIDE DEF r
  <2> QED
    BY <1>1, <1>2, <2>6, <2>8, <2>9, <2>10, <2>11 DEF Updates, InFrame
<1> QED
  BY <1>5, <1>6

LEMMA CommandUpdates ==
  ASSUME Invariant, Ordered, Attachment, Queueing, Reattaches, PlaysForward, FromRoots, Updates, Command
  PROVE  Updates' /\ UpdatesAreNew'
<1> USE DEF Invariant
<1> DEFINE d == cmd.ctx
<1>1. /\ stack = <<>> /\ pc # "idle" /\ d \in Ctx
      /\ scene \in [Ctx -> Node \union {NoNode}] /\ last_update_time \in [Node -> Time \union {Unset}]
  BY DEF Command, BackendConfigured, BackendFails, SceneReattached, UnrefScene, AttachScene,
     SceneAttached, SceneRefused, HonorNext, UpdateScene, DrawScene, FreeContext, At, CommandOK, TypeOK
<1>2. CASE HonorNext \/ UpdateScene
  BY <1>2, HonorUpdates
<1>3. CASE ~HonorNext /\ ~UpdateScene
  <2>1. /\ UNCHANGED <<children, visit_time, last_update_time, state, ctx>>
        /\ pc' \notin {"draw_honor", "draw_draw"}
    BY <1>3 DEF Command, BackendConfigured, BackendFails, SceneReattached, UnrefScene, AttachScene,
       SceneAttached, SceneRefused, DrawScene, FreeContext, At, Start, Finish, nodesUnchanged, nodeVars,
       paramVars, lifeVars, activityVars
  <2>2. UNCHANGED FreeNodes
    BY <2>1 DEF FreeNodes
  <2>3. \/ UNCHANGED scene
        \/ scene' = [scene EXCEPT ![d] = NoNode]
        \/ pc = "scene_attached" /\ scene' = [scene EXCEPT ![d] = cmd.node]
    BY DEF Command, BackendConfigured, BackendFails, SceneReattached, UnrefScene, AttachScene,
       SceneAttached, SceneRefused, HonorNext, UpdateScene, DrawScene, FreeContext, ctxVars, At
  <2>4. pc' \in {"conf_attached", "scene_attached"} => \A n \in Node : ctx[n] # cmd'.ctx
    <3>1. CASE BackendConfigured
      <4>1. pc = "conf_backend" /\ (pc' \in {"conf_attached", "scene_attached"} => cmd' = cmd)
        BY <3>1 DEF BackendConfigured, At, Start, Finish
      <4>2. \A n \in Node : ctx[n] # d
        BY <1>1, <4>1, OwnersStand DEF Walking
      <4> QED
        BY <4>1, <4>2
    <3>2. CASE AttachScene
      <4>1. pc = "scene_attach" /\ scene[d] = NoNode /\ (pc' \in {"conf_attached", "scene_attached"} => cmd' = cmd)
        BY <3>2 DEF AttachScene, At, Start, Finish, Ordered, Control
      <4>2. \A n \in Node : ctx[n] # d
        BY <1>1, <4>1, OwnersStand, NodeAssumption DEF Walking
      <4> QED
        BY <4>1, <4>2
    <3>3. CASE ~BackendConfigured /\ ~AttachScene
      BY <1>3, <3>3 DEF Command, BackendFails, SceneReattached, UnrefScene, SceneAttached, SceneRefused,
         DrawScene, FreeContext, Start, Finish
    <3> QED
      BY <3>1, <3>2, <3>3
  <2>5. ASSUME NEW c \in Ctx, scene'[c] # NoNode, ~Busy(c)', NEW n \in Node \ FreeNodes, ctx[n] = c
        PROVE  last_update_time[n] <= visit_time[scene'[c]]
    <3>1. CASE c # d
      <4>1. scene'[c] = scene[c] /\ ~Busy(c)
        BY <1>1, <2>3, <3>1 DEF Busy
      <4> QED
        BY <2>5, <4>1 DEF Updates
    <3>2. CASE c = d
      <4>1. pc \notin {"conf_backend", "scene_unref", "free_unref"}
        BY <1>1, <2>5, <3>2, OwnersStand DEF Walking
      <4>2. CASE pc \in {"conf_attached", "scene_attached"}
        <5>1. \/ scene'[c] \in {scene[c], NoNode}
              \/ pc = "scene_attached" /\ scene'[c] = cmd.node
          BY <1>1, <2>3, <3>2
        <5>2. scene'[c] \in Node
          BY <1>1, <2>5, <5>1 DEF CommandOK
        <5>3. last_update_time[n] = Unset
          BY <2>5, <3>2, <4>2 DEF Updates, InFrame
        <5> QED
          BY <5>2, <5>3, VisitTimesTyped
      <4>3. CASE pc \notin {"conf_attached", "scene_attached"}
        <5>1. pc # "draw_honor" /\ pc # "scene_attached"
          BY <1>3, <4>3 DEF Command, BackendConfigured, BackendFails, SceneReattached,
             UnrefScene, AttachScene, SceneAttached, SceneRefused, DrawScene, FreeContext, At
        <5>2. scene'[c] = scene[c]
          BY <1>1, <2>3, <2>5, <3>2, <5>1
        <5>3. ~Busy(c)
          BY <4>1, <4>3, <5>1 DEF Busy
        <5> QED
          BY <2>5, <5>2, <5>3 DEF Updates
      <4> QED
        BY <4>2, <4>3
    <3> QED
      BY <3>1, <3>2
  <2>6. UpdatesAreNew'
    BY <2>1 DEF UpdatesAreNew, UpdateBegins
  <2> HIDE DEF d
  <2> QED
    BY <2>1, <2>2, <2>4, <2>5, <2>6 DEF Updates, InFrame
<1> QED
  BY <1>2, <1>3

(* A walk of the graph adds no child, and a call below the running one has *)
(* called a child.                                                         *)
LEMMA WalkKeepsFree ==
  ASSUME Invariant, GraphWalk, NEW n \in FreeNodes
  PROVE  n \in FreeNodes'
<1>1. children \in [Node -> Seq(Node)]
  BY DEF Invariant, TypeOK
<1>2. UNCHANGED children \/ children' = [children EXCEPT ![Top.node] = <<>>]
  BY DEF GraphWalk, GraphStep, AttachEnter, AttachChild, AttachSucceeds, AttachFails,
     DetachSkipsOther, DetachEnter, DetachEnterUninit, DetachChild, DetachLeave, UnrefEnter, UnrefChild,
     UnrefLeave, CallChild, nodeVars, paramVars
<1>3. \A r \in Node : children'[r] \in {children[r], <<>>}
  BY <1>1, <1>2
<1>4. \A r \in Node : \A i \in 1 .. Len(children'[r]) :
        i \in 1 .. Len(children[r]) /\ children'[r][i] = children[r][i] /\ children[r][i] \in Node
  BY <1>1, <1>3
<1>5. n \in Node /\ FilterFree(children, n)
  BY DEF FreeNodes
<1>6. FilterFree(children', n)
  BY <1>1, <1>4, <1>5, FreeStays
<1> QED
  BY <1>5, <1>6 DEF FreeNodes

LEMMA WalkUpdates ==
  ASSUME Invariant, Ordered, Attachment, FramesStand, PlaysForward, Updates, GraphWalk
  PROVE  Updates' /\ UpdatesAreNew'
<1> USE DEF Invariant
<1> DEFINE h == Top.node
           o == Top.owner
<1>1. /\ stack # <<>> /\ UNCHANGED <<scene, pc, cmd>> /\ h \in Node /\ Top \in Calls(stack)
      /\ visit_time \in [Node -> Time \union {Unset}] /\ ctx \in [Node -> Ctx \union {NoCtx}]
      /\ last_update_time \in [Node -> Time \union {Unset}] /\ state \in [Node -> State]
  BY WalkGoes, RunningCall DEF TypeOK
<1>2. Top.fn \in {"attach", "detach", "unref"}
  BY DEF GraphWalk, GraphStep, AttachEnter, AttachChild, AttachSucceeds, AttachFails,
     DetachSkipsOther, DetachEnter, DetachEnterUninit, DetachChild, DetachLeave, UnrefEnter, UnrefChild,
     UnrefLeave, Entering, Leaving, Running
<1>3. pc \notin {"draw_honor", "draw_draw"}
  BY <1>1, <1>2 DEF Ordered, WalkStands, Stands
<1>4. UpdatesAreNew'
  BY <1>1, <1>3 DEF UpdatesAreNew, UpdateBegins
<1>5. \A n \in Node \ FreeNodes' : n \notin FreeNodes
  BY WalkKeepsFree
<1>6. CASE UNCHANGED <<ctx, state, visit_time, last_update_time>>
  <2>1. \A c \in Ctx : Busy(c)' <=> Busy(c)
    BY <1>1 DEF Busy
  <2> QED
    BY <1>1, <1>3, <1>4, <1>5, <1>6, <2>1 DEF Updates, InFrame
<1>7. CASE ~UNCHANGED <<ctx, state, visit_time, last_update_time>>
  <2>1. \/ /\ AttachSucceeds /\ UNCHANGED <<visit_time, last_update_time>> /\ ctx' = [ctx EXCEPT ![h] = o]
           /\ state' = [state EXCEPT ![h] = IF @ = Uninitialized THEN StateAfterInit(h) ELSE @]
        \/ /\ AttachFails /\ UNCHANGED <<state, last_update_time>>
           /\ ctx' = [ctx EXCEPT ![h] = NoCtx] /\ visit_time' = [visit_time EXCEPT ![h] = Unset]
        \/ /\ DetachEnter /\ ctx[h] = o
           /\ \/ /\ ctx' = [ctx EXCEPT ![h] = NoCtx] /\ visit_time' = [visit_time EXCEPT ![h] = Unset]
                 /\ state' = [state EXCEPT ![h] = Uninitialized]
                 /\ last_update_time' = [last_update_time EXCEPT ![h] = IF state[h] = Ready THEN Unset ELSE @]
              \/ UNCHANGED <<ctx, state, visit_time, last_update_time>>
    BY <1>7 DEF GraphWalk, GraphStep, AttachEnter, AttachChild, AttachSucceeds, AttachFails,
       DetachSkipsOther, DetachEnter, Uninit, DetachEnterUninit, DetachChild, DetachLeave, UnrefEnter, UnrefChild,
       UnrefLeave, CallChild, nodeVars, paramVars, lifeVars, activityVars
  <2>2. /\ Top.fn \in {"attach", "detach"} /\ o \in Ctx /\ NoCtx \notin Ctx
        /\ AttachSucceeds => ctx[h] \in {NoCtx, o} /\ o = cmd.ctx
        /\ AttachFails => ctx[h] = NoCtx
        /\ \A n \in Node : ctx[n] = NoCtx <=> state[n] = Uninitialized
    <3>1. Top.fn = "attach" \/ Top.fn = "detach"
      BY <1>7, <2>1 DEF AttachSucceeds, AttachFails, DetachEnter, Entering, Leaving, Running
    <3>2. AttachSucceeds => ctx[h] \in {NoCtx, o} /\ o = cmd.ctx
      <4>1. ASSUME AttachSucceeds
            PROVE  Top.fn = "attach" /\ Top.next > 0
        <5>1. Top.fn = "attach" /\ Top.next = Len(children[Top.node]) + 1 /\ Len(children[Top.node]) \in Nat
          BY <1>1, <4>1, RunningCall DEF AttachSucceeds, Leaving, Running
        <5> QED
          BY <5>1
      <4> QED
        BY <1>1, <4>1 DEF CallsOK
    <3>3. \A n \in Node : ctx[n] = NoCtx <=> state[n] = Uninitialized
      BY DEF Attachment, Tracked
    <3>4. AttachFails => ctx[h] = NoCtx
      BY <1>1, <3>3 DEF AttachFails
    <3> QED
      BY <1>1, <3>1, <3>2, <3>3, <3>4, NodeAssumption DEF CallsOK
  <2>3. /\ \A n \in Node \ {h} : /\ ctx'[n] = ctx[n] /\ visit_time'[n] = visit_time[n] /\ state'[n] = state[n]
                                 /\ last_update_time'[n] = last_update_time[n]
        /\ last_update_time'[h] \in {last_update_time[h], Unset}
        /\ ctx'[h] \in {ctx[h], NoCtx} \/ (ctx'[h] = o /\ AttachSucceeds)
    BY <1>1, <2>1
  <2>4. Uninitialized # Ready
    BY DEF Uninitialized, Ready
  <2>5. \A n \in Node : ctx[n] = NoCtx => last_update_time[n] = Unset
    BY <2>2, <2>4 DEF Updates
  <2>6. state'[h] # Ready => last_update_time'[h] = Unset
    <3>1. CASE /\ AttachSucceeds /\ UNCHANGED last_update_time
               /\ state'[h] = (IF state[h] = Uninitialized THEN StateAfterInit(h) ELSE state[h])
      BY <1>1, <2>4, <3>1 DEF Updates
    <3>2. CASE UNCHANGED <<state, last_update_time>>
      BY <1>1, <3>2 DEF Updates
    <3>3. CASE last_update_time'[h] = (IF state[h] = Ready THEN Unset ELSE last_update_time[h])
      BY <1>1, <3>3 DEF Updates
    <3> HIDE DEF h, o
    <3> QED
      BY <1>1, <2>1, <3>1, <3>2, <3>3
  <2>7. \A n \in Node : state'[n] # Ready => last_update_time'[n] = Unset
    BY <2>3, <2>6 DEF Updates
  <2>8. ASSUME NEW c \in Ctx, scene[c] # NoNode, ~Busy(c)
        PROVE  ~Walking("attach", c) /\ ~Walking("detach", c)
    <3>1. Walking("attach", c) => c = cmd.ctx /\ pc \in {"conf_attached", "scene_attached"}
      BY <1>1 DEF Walking, CallsOK, Ordered, WalkStands, Stands
    <3>2. Walking("detach", c) => c = cmd.ctx /\ pc \in {"conf_backend", "scene_unref", "free_unref"}
      BY <1>1, <2>8 DEF Walking, Ordered, WalkStands, Stands
    <3>3. pc = "scene_attached" => scene[cmd.ctx] = NoNode
      BY DEF Ordered, Control
    <3> QED
      BY <2>8, <3>1, <3>2, <3>3 DEF Busy
  <2>9. ASSUME NEW c \in Ctx, scene[c] # NoNode, ~Busy(c), NEW n \in Node \ FreeNodes', ctx'[n] = c
        PROVE  last_update_time'[n] <= visit_time'[scene[c]]
    <3>1. ~Walking("attach", c) /\ ~Walking("detach", c)
      BY <2>8, <2>9
    <3>2. c # o
      BY <1>1, <2>2, <3>1 DEF Walking
    <3>3. n # h \/ ctx'[n] = ctx[n]
      BY <2>2, <2>3, <2>9, <3>2
    <3>4. ctx[n] = c
      BY <2>3, <2>9, <3>3
    <3>5. c = cmd.ctx => pc \notin {"conf_attached", "scene_attached"}
      BY <2>9 DEF Busy, Ordered, Control
    <3>6. scene[c] \in Node /\ ctx[scene[c]] = c
      BY <3>1, <3>4, <3>5, OwnersStand
    <3>7. visit_time'[scene[c]] = visit_time[scene[c]]
      BY <1>1, <2>1, <2>2, <3>2, <3>6
    <3>8. last_update_time[n] <= visit_time[scene[c]]
      BY <1>5, <2>9, <3>4 DEF Updates
    <3>9. last_update_time'[n] \in {last_update_time[n], Unset}
      BY <2>3
    <3> QED
      BY <3>6, <3>7, <3>8, <3>9, VisitTimesTyped
  <2>10. ASSUME pc \in {"conf_attached", "scene_attached"}, NEW n \in Node, ctx'[n] = cmd.ctx
         PROVE  last_update_time'[n] = Unset
    <3>1. ctx[n] = NoCtx \/ ctx[n] = cmd.ctx
      <4>1. cmd.ctx \in Ctx
        BY <2>10 DEF CommandOK
      <4> QED
        BY <2>2, <2>3, <2>10, <4>1
    <3>2. last_update_time[n] = Unset
      BY <2>5, <2>10, <3>1 DEF Updates, InFrame
    <3> QED
      BY <2>3, <3>2
  <2> HIDE DEF h, o
  <2>11. \A c \in Ctx : Busy(c)' <=> Busy(c)
    BY <1>1 DEF Busy
  <2> QED
    BY <1>1, <1>3, <1>4, <2>7, <2>9, <2>10, <2>11 DEF Updates, InFrame
<1> QED
  BY <1>6, <1>7

GoesOn(s) == s # <<>> => \A f \in Calls(Tail(s)) : f.next > 0

LEMMA CallsGoOn ==
  ASSUME NEW s \in Seq(Frame), s # <<>>, GoesOn(s)
  PROVE  /\ GoesOn(Tail(s))
         /\ \A f \in Frame : GoesOn(<<f>> \o Tail(s))
         /\ \A e, f \in Frame : f.next > 0 => GoesOn(<<e, f>> \o Tail(s))
<1> DEFINE u == Tail(s)
<1>1. u \in Seq(Frame) /\ \A f \in Calls(u) : f.next > 0
  BY StackTop DEF GoesOn
<1> HIDE DEF u
<1>2. GoesOn(u)
  BY <1>1, StackTop DEF GoesOn
<1>3. ASSUME NEW f \in Frame
      PROVE  GoesOn(<<f>> \o u)
  <2>1. Tail(<<f>> \o u) = u
    BY <1>1
  <2> QED
    BY <1>1, <2>1 DEF GoesOn
<1>4. ASSUME NEW e \in Frame, NEW f \in Frame, f.next > 0
      PROVE  GoesOn(<<e, f>> \o u)
  <2> DEFINE v == <<f>> \o u
  <2>1. Tail(<<e, f>> \o u) = v /\ v \in Seq(Frame) /\ v # <<>> /\ Head(v) = f /\ Tail(v) = u
    BY <1>1
  <2> HIDE DEF v
  <2>2. Calls(v) = {f} \union Calls(u)
    BY <2>1, CallsBelow
  <2> QED
    BY <1>1, <1>4, <2>1, <2>2 DEF GoesOn
<1> QED
  BY <1>2, <1>3, <1>4 DEF u

LEMMA FrameUpdates ==
  ASSUME Invariant, Invariant', Ordered, Attachment, FramesStand, Visiting, Updating, PlaysForward, Updates,
         UpdatesAreNew, ActivityWalk
  PROVE  Updates' /\ UpdatesAreNew'
<1> USE DEF Invariant
<1> DEFINE h == Top.node
<1>1. /\ stack # <<>> /\ UNCHANGED <<scene, pc, cmd>> /\ h \in Node
      /\ visit_time \in [Node -> Time \union {Unset}] /\ last_update_time \in [Node -> Time \union {Unset}]
  BY WalkGoes, RunningCall DEF TypeOK
<1>2. /\ UNCHANGED <<children, ctx, state>>
      /\ ~VisitEnter => UNCHANGED visit_time
      /\ ~UpdateLeave => UNCHANGED last_update_time
  BY DEF ActivityWalk, ActivityStep, VisitSkips, VisitEnter, VisitChild, VisitLeave,
     UpdateSkips, UpdateEnter, UpdateChild, UpdateLeave, UpdateFails, DrawEnter, DrawChild,
     DrawLeave, CallChild, nodeVars, paramVars, lifeVars, activityVars
<1>3. UNCHANGED FreeNodes /\ \A c \in Ctx : Busy(c)' <=> Busy(c)
  BY <1>1, <1>2 DEF FreeNodes, Busy
<1>4. ASSUME pc = "draw_draw"
      PROVE  GoesOn(stack') /\ (UpdateBegins' => UpdateBegins /\ UNCHANGED last_update_time)
  <2>1. /\ stack \in Seq(Frame) /\ Top = Head(stack) /\ Tail(stack) \in Seq(Frame) /\ Top \in Frame
        /\ UpdateSkips \/ UpdateEnter \/ UpdateChild \/ UpdateLeave \/ UpdateFails
        /\ Len(children[h]) + 1 \in Nat \ {0}
    <3>1. /\ stack \in Seq(Frame) /\ Top = Head(stack)
          /\ UpdateSkips \/ UpdateEnter \/ UpdateChild \/ UpdateLeave \/ UpdateFails
      BY <1>4, UpdateSteps
    <3> QED
      BY <1>1, <3>1, StackTop, RunningCall
  <2>2. GoesOn(stack)
    BY <1>1, <1>4 DEF Updates, GoesOn
  <2>3. UpdateBegins' => stack' # <<>> /\ Len(stack') = 1 /\ Head(stack').next = 0
    BY DEF UpdateBegins, UpdateCall, Call
  <2>4. CASE stack' = Tail(stack)
    <3>1. Tail(stack) # <<>> => Head(Tail(stack)) \in Calls(Tail(stack))
      BY <2>1, StackTop
    <3>2. UpdateBegins' => Head(Tail(stack)).next > 0
      BY <1>1, <2>2, <2>3, <2>4, <3>1 DEF GoesOn
    <3>3. ~UpdateBegins'
      BY <2>3, <2>4, <3>2
    <3> QED
      BY <1>1, <2>1, <2>2, <2>4, <3>3, CallsGoOn
  <2>5. CASE stack' = <<>>
    BY <2>3, <2>5 DEF GoesOn
  <2>6. CASE (UpdateSkips \/ UpdateEnter) /\ stack' = stack
    <3>1. UNCHANGED last_update_time
      BY <2>6 DEF UpdateSkips, UpdateEnter, nodeVars, activityVars
    <3>2. UpdateBegins' => UpdateBegins
      BY <1>1, <2>6 DEF UpdateBegins
    <3> QED
      BY <2>2, <2>6, <3>1, <3>2
  <2>7. ASSUME NEW k \in Nat \ {0}, stack' = <<[Top EXCEPT !.next = k]>> \o Tail(stack)
        PROVE  GoesOn(stack') /\ ~UpdateBegins'
    <3> DEFINE f == [Top EXCEPT !.next = k]
    <3>1. f \in Frame /\ f.next = k /\ stack' = <<f>> \o Tail(stack)
      BY <2>1, <2>7 DEF Frame
    <3> HIDE DEF f
    <3>2. Head(stack') = f /\ GoesOn(stack')
      BY <1>1, <2>1, <2>2, <3>1, OnTop, CallsGoOn
    <3> QED
      BY <2>3, <3>1, <3>2
  <2>8. CASE UpdateChild
    <3> DEFINE e == UpdateCall(NextChild, ChildTime(Top.node, Top.t))
               f == [Top EXCEPT !.next = @ + 1]
    <3>1. Top.next \in 1 .. Len(children[Top.node]) /\ stack' = <<e, f>> \o Tail(stack)
      BY <2>8 DEF UpdateChild, CallChild
    <3>2. f \in Frame /\ f.next > 0
      <4>1. Top.next \in Nat /\ Top.next > 0
        BY <1>1, <3>1, RunningCall
      <4>2. Top.next + 1 \in Nat /\ Top.next + 1 > 0
        BY <4>1
      <4> QED
        BY <2>1, <4>2 DEF Frame
    <3>3. NextChild \in Node /\ Top.t \in Time \union {Unset}
      BY <1>1, <3>1, RunningCall DEF NextChild, TypeOK
    <3>4. ChildTime(Top.node, Top.t) \in Time \union {Unset}
      BY <1>1, <3>3, ChildTimeType
    <3>5. e \in Frame
      BY <3>3, <3>4, CallType DEF UpdateCall
    <3> HIDE DEF e, f
    <3>6. GoesOn(<<e, f>> \o Tail(stack))
      <4>1. \A a, b \in Frame : b.next > 0 => GoesOn(<<a, b>> \o Tail(stack))
        BY <1>1, <2>1, <2>2, CallsGoOn
      <4> QED
        BY <3>2, <3>5, <4>1
    <3>7. Len(<<e, f>> \o Tail(stack)) > 1
      BY <2>1, OnTop
    <3>8. stack' = <<e, f>> \o Tail(stack)
      BY <3>1
    <3>9. GoesOn(stack')
      BY <3>6, <3>8, Zenon
    <3>10. Len(stack') # 1
      BY <3>7, <3>8
    <3>11. ~UpdateBegins'
      BY <2>3, <3>10
    <3> QED
      BY <3>9, <3>11
  <2>9. CASE UpdateEnter
    <3>1. Abort \/ Descend \/ SkipChildren
      BY <2>9 DEF UpdateEnter
    <3>2. \/ stack' = stack
          \/ stack' = <<[Top EXCEPT !.next = 1]>> \o Tail(stack)
          \/ stack' = <<[Top EXCEPT !.next = Len(children[h]) + 1]>> \o Tail(stack)
      BY <3>1 DEF Abort, Descend, SkipChildren
    <3>3. 1 \in Nat \ {0}
      OBVIOUS
    <3> HIDE DEF h
    <3> QED
      BY <2>1, <2>6, <2>7, <2>9, <3>2, <3>3
  <2>10. CASE UpdateSkips
    <3>1. stack' = stack \/ stack' = Tail(stack)
      BY <2>10 DEF UpdateSkips, Abort, Return
    <3> QED
      BY <2>4, <2>6, <2>10, <3>1
  <2>11. CASE UpdateLeave \/ UpdateFails
    BY <2>4, <2>5, <2>11 DEF UpdateLeave, UpdateFails, Return, Fail
  <2> QED
    BY <2>1, <2>8, <2>9, <2>10, <2>11
<1>5. UpdatesAreNew'
  BY <1>1, <1>2, <1>3, <1>4 DEF UpdatesAreNew, UpdateBegins, InFrame
<1>6. UpdateLeave => /\ pc = "draw_draw" /\ h \in ActiveNodes /\ state[h] = Ready
                     /\ Top.t = cmd.t \/ h \in FreeNodes
                     /\ last_update_time' = [last_update_time EXCEPT ![h] = Top.t]
  <2> SUFFICES ASSUME UpdateLeave
               PROVE  /\ pc = "draw_draw" /\ h \in ActiveNodes /\ state[h] = Ready
                      /\ Top.t = cmd.t \/ h \in FreeNodes
                      /\ last_update_time' = [last_update_time EXCEPT ![h] = Top.t]
    OBVIOUS
  <2>1. pc = "draw_draw"
    BY <1>1 DEF UpdateLeave, Leaving, Running, FramesStand
  <2>2. h \in ActiveNodes /\ (Top.t = cmd.t \/ h \in FreeNodes)
    BY <2>1, UpdateSteps
  <2> QED
    BY <2>1, <2>2 DEF UpdateLeave, Updating
<1>7. VisitEnter => /\ pc = "draw_honor" /\ ctx[h] = cmd.ctx
                    /\ visit_time' = [visit_time EXCEPT ![h] = cmd.t]
  <2> SUFFICES ASSUME VisitEnter
               PROVE  /\ pc = "draw_honor" /\ ctx[h] = cmd.ctx
                      /\ visit_time' = [visit_time EXCEPT ![h] = cmd.t]
    OBVIOUS
  <2>1. pc = "draw_honor"
    BY <1>1 DEF VisitEnter, Entering, Running, FramesStand
  <2>2. Top.t = cmd.t /\ ctx[h] = cmd.ctx
    BY <2>1, VisitSteps DEF Attachment
  <2> QED
    BY <2>1, <2>2 DEF VisitEnter
<1>8. \A n \in Node : state'[n] # Ready => last_update_time'[n] = Unset
  <2>1. ASSUME NEW n \in Node, state[n] # Ready
        PROVE  last_update_time'[n] = Unset
    BY <1>1, <1>2, <1>6, <2>1 DEF Updates
  <2> QED
    BY <1>2, <2>1
<1>9. \A n \in Node \ FreeNodes : /\ last_update_time'[n] = last_update_time[n] \/ last_update_time'[n] = cmd.t
                                  /\ ~UpdateLeave => last_update_time'[n] = last_update_time[n]
                                  /\ ctx[n] # cmd.ctx => last_update_time'[n] = last_update_time[n]
  BY <1>1, <1>2, <1>6 DEF ActiveNodes, InFrame
<1>10. ASSUME NEW c \in Ctx, scene[c] # NoNode, ~Busy(c), NEW n \in Node \ FreeNodes, ctx[n] = c
       PROVE  last_update_time'[n] <= visit_time'[scene[c]]
  <2>1. Top.fn \notin {"attach", "detach"}
    BY DEF ActivityWalk, ActivityStep, VisitSkips, VisitEnter, VisitChild, VisitLeave,
       UpdateSkips, UpdateEnter, UpdateChild, UpdateLeave, UpdateFails, DrawEnter, DrawChild,
       DrawLeave, Entering, Leaving, Running
  <2>2. c = cmd.ctx => pc \notin {"conf_attached", "scene_attached", "draw_honor"}
    BY <1>10 DEF Busy, Ordered, Control
  <2>3. scene[c] \in Node /\ ctx[scene[c]] = c
    BY <1>10, <2>1, <2>2, OwnersStand DEF Walking
  <2>4. visit_time'[scene[c]] = visit_time[scene[c]]
    BY <1>1, <1>2, <1>7, <2>2, <2>3
  <2>5. last_update_time[n] <= visit_time[scene[c]]
    BY <1>10 DEF Updates
  <2>6. CASE last_update_time'[n] = last_update_time[n]
    BY <2>4, <2>5, <2>6
  <2>7. CASE last_update_time'[n] # last_update_time[n]
    <3>1. pc = "draw_draw" /\ c = cmd.ctx /\ last_update_time'[n] = cmd.t
      BY <1>6, <1>9, <1>10, <2>7
    <3>2. visit_time[scene[c]] = cmd.t
      BY <3>1 DEF Updating, ActiveNodes, ActiveNow
    <3> QED
      BY <2>3, <2>4, <3>1, <3>2, VisitTimesTyped
  <2> QED
    BY <2>6, <2>7
<1>11. pc \in {"conf_attached", "scene_attached", "draw_honor"} => UNCHANGED last_update_time
  BY <1>2, <1>6
<1> HIDE DEF h
<1> QED
  BY <1>1, <1>2, <1>3, <1>4, <1>5, <1>8, <1>10, <1>11 DEF Updates, InFrame, GoesOn

LEMMA UpdatesPreserved ==
  ASSUME PlaysForward,
         Invariant, Ordered, Attachment, FramesStand, Visiting, Queueing, Updating, Reattaches, FromRoots, Updates,
         UpdatesAreNew, [Next]_vars
  PROVE  Updates' /\ UpdatesAreNew'
<1>1. CASE UNCHANGED vars
  <2>1. UNCHANGED <<children, ctx, state, visit_time, last_update_time, scene, pc, cmd, stack>>
    BY <1>1 DEF vars, nodeVars, paramVars, lifeVars, activityVars, callVars, ctxVars
  <2>2. UNCHANGED FreeNodes /\ \A c \in Ctx : Busy(c)' <=> Busy(c)
    BY <2>1 DEF FreeNodes, Busy
  <2> QED
    BY <2>1, <2>2 DEF Updates, UpdatesAreNew, UpdateBegins, InFrame
<1>2. CASE Client
  BY <1>2, ClientUpdates
<1>3. CASE Command
  BY <1>3, CommandUpdates
<1>4. CASE GraphWalk
  BY <1>4, WalkUpdates
<1>5. CASE ActivityWalk
  BY <1>5, NextPreserves, FrameUpdates
<1> QED
  BY <1>1, <1>2, <1>3, <1>4, <1>5 DEF Next

LEMMA UpdatesHold ==
  ASSUME PlaysForward
  PROVE  Spec /\ []Reattaches /\ []NotNested => [](VisitsAreNew /\ UpdatesAreNew)
<1>1. Init => Updates /\ UpdatesAreNew
  <2> SUFFICES ASSUME Init
               PROVE  Updates /\ UpdatesAreNew
    OBVIOUS
  <2>1. \A c \in Ctx : scene[c] = NoNode
    BY DEF Init
  <2> QED
    BY <2>1 DEF Init, Updates, UpdatesAreNew, UpdateBegins
<1>2. /\ Invariant /\ Ordered /\ Attachment /\ FramesStand /\ Visiting /\ Queueing /\ Updating /\ Reattaches
      /\ FromRoots /\ Updates /\ UpdatesAreNew /\ [Next]_vars
      => Updates' /\ UpdatesAreNew'
  BY UpdatesPreserved
<1> QED
  BY <1>1, <1>2, VisitsHold, UpdatingHolds, PTL DEF Spec

(* ActivityFollowsParents for a client that plays forward: each scene it   *)
(* draws is drawn at later and later times, and the prefetch of a scene    *)
(* does not fail; nothing more is asked of the frames.                     *)
THEOREM ForwardComesDown ==
  ASSUME PlaysForward
  PROVE  Spec /\ []Reattaches => []ActivityFollowsParents
BY VisitsHold, ActivityComesDown, PTL

(* DrawReady for such a client, on a graph where no filter stands below    *)
(* one with a "once" range.                                                *)
THEOREM ForwardDrawsAreReady ==
  ASSUME PlaysForward
  PROVE  Spec /\ []Reattaches /\ []NotNested => []DrawReady
BY UpdatesHold, DrawsAreReady, PTL

(* InactiveReleased for such a client, if no prefetch fails.               *)
THEOREM ForwardFollowsActivity ==
  ASSUME PlaysForward, PrefetchMayFail = {}
  PROVE  Spec /\ []Reattaches => []InactiveReleased
BY VisitsHold, ResourcesFollowActivity, PTL

(* A client that plays forward and configures each context once: every     *)
(* behaviour of such a client keeps the counts exact, no assertion of      *)
(* nodes.c fails, and a draw finds what it needs.                          *)
THEOREM ForwardIsEnough ==
  ASSUME PlaysForward, ~MayReconfigure
  PROVE  /\ Spec => []ActivityFollowsParents
         /\ Spec /\ []NotNested => []CountsAreExact /\ []DrawReady
<1>1. Invariant /\ Ordered => Reattaches /\ FreesNoScene
  BY DEF Invariant, CommandOK, Ordered, Control, ConfiguredOnce, Reattaches, FreesNoScene, At
<1>2. Spec => []Reattaches /\ []FreesNoScene
  BY <1>1, OrderedHolds, PTL
<1> QED
  BY <1>2, UpdatesHold, ForwardComesDown, ForwardDrawsAreReady, FramesCountExactly, PTL

=============================================================================
