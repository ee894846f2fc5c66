------------------------------ MODULE MCContext ------------------------------
(***************************************************************************)
(* Small graphs for TLC.  A node is a model value; a graph is a function   *)
(* from a node to the sequence of its children.                            *)
(***************************************************************************)
EXTENDS ContextProperties, TLC

CONSTANTS n1, n2, n3, n4, n5, c1, c2

NoChildren == [n \in Node |-> <<>>]

AllPlain == [n \in Node |-> "plain"]
NoRanges == [n \in Node |-> <<>>]

(* n1 shares n3 between two branches: n1 -> n2 -> n3 and n1 -> n3.        *)
Shared == (n1 :> <<n2, n3>>) @@ (n2 :> <<n3>>) @@ NoChildren

(* Two scenes, n1 and n4, share the node n3.                               *)
TwoScenes == (n1 :> <<n2, n3>>) @@ (n2 :> <<n3>>) @@ (n4 :> <<n3>>) @@ NoChildren

(* A UserSwitch n2 and the group n1 itself lead to n3; n4 is below n2 only.*)
Switched == (n1 :> <<n2, n3>>) @@ (n2 :> <<n5>>) @@ (n5 :> <<n3, n4>>) @@ NoChildren
OneSwitch == [n \in Node |-> IF n = n2 THEN "switch" ELSE "plain"]

TwoSwitches == [n \in Node |-> IF n \in {n2, n5} THEN "switch" ELSE "plain"]

(* Two UserSwitch n2 and n5, with n4 below both.                           *)
Crossed == (n1 :> <<n2, n5>>) @@ (n2 :> <<n3>>) @@ (n3 :> <<n4>>) @@ (n5 :> <<n4>>) @@ NoChildren

(* The group n1 itself and a TimeRangeFilter n2, below another one n5,     *)
(* lead to n4.                                                             *)
Filtered == (n1 :> <<n5, n4>>) @@ (n5 :> <<n2>>) @@ (n2 :> <<n3>>) @@ (n3 :> <<n4>>) @@ NoChildren
FilteredKinds == [n \in Node |-> IF n \in {n2, n5} THEN "filter" ELSE "plain"]

Cont(start) == [mode |-> "cont", start |-> start, render |-> 0]
Noop(start) == [mode |-> "noop", start |-> start, render |-> 0]
Once(start, render) == [mode |-> "once", start |-> start, render |-> render]

(* Every mode, with ranges long enough for both idle times to matter, and  *)
(* a "once" range of n2 that n5 interrupts.                                *)
AllModes ==
  (n5 :> <<Cont(0), Noop(4), Cont(7)>>) @@
  (n2 :> <<Noop(0), Once(3, 1), Noop(8), Cont(9)>>) @@ NoRanges

(* n2 shows n3 once, at time 4, from time 1 on; n3 is itself a filter,     *)
(* which has nothing to show before time 4.                                *)
Nested == (n1 :> <<n2>>) @@ (n2 :> <<n3>>) @@ (n3 :> <<n4>>) @@ NoChildren
TwoFilters == [n \in Node |-> IF n \in {n2, n3} THEN "filter" ELSE "plain"]
NestedRanges == (n2 :> <<Noop(0), Once(1, 4)>>) @@ (n3 :> <<Noop(0), Cont(4)>>) @@ NoRanges

=============================================================================
