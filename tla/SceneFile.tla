------------------------------ MODULE SceneFile ------------------------------
(***************************************************************************)
(* Scenes built through the parameters of their nodes (libnodegl/params.c, *)
(* nodes.c), written as text (serialize.c) and read back (deserialize.c).  *)
(*                                                                         *)
(* The client owns a reference to each node it creates.  A node of the     *)
(* text is a line, after those of its children, that it names by how many  *)
(* lines above they are.  Strings are sequences of characters, escaped in  *)
(* the text; the other parameters without nodes hold a value each, whose   *)
(* digits are left out: the text has the bits of the floats.               *)
(*                                                                         *)
(* Reading stops at any line for lack of memory or a version that is not   *)
(* the one of the library.                                                 *)
(***************************************************************************)
EXTENDS Integers, SequencesExt, FiniteSets

CONSTANTS
  Class,        \* the classes of the nodes
  Params,       \* the parameters of each class, constructors first
  DefaultLabel, \* the name of each class in lower case
  String,       \* the strings the client sets
  Escape,       \* for the characters the text has no room for, two digits
  Value,        \* the values of the parameters of other types
  Keys,         \* the keys of the dictionaries
  Null,         \* no string
  MaxNodes, MaxList, MaxSets  \* bounds on what the client does

Type == {"node", "nodelist", "nodedict", "str", "other"}

Param == [key : STRING, type : Type, constructor : BOOLEAN, def : String \union Value \union {Null, <<>>},
          classes : SUBSET Class]

(* A constructor string is given by every client, see the deviations of    *)
(* the documentation.                                                      *)
ASSUME SceneFileAssumption ==
  /\ \A c \in Class : /\ \A i \in DOMAIN Params[c] : Params[c][i] \in Param
                      /\ \A i, j \in DOMAIN Params[c] :
                           i < j /\ Params[c][j].constructor => Params[c][i].constructor
  /\ DOMAIN DefaultLabel = Class
  /\ MaxNodes \in Nat /\ MaxList \in Nat /\ MaxSets \in Nat

VARIABLES
  scene,   \* the nodes of the client, [class, vals, refs] each
  sets,    \* how many parameters it set
  root,    \* the node that was serialised, 0 when none
  text,    \* the lines still to read
  loaded,  \* the nodes read back, as those of scene
  phase    \* "built", "reading", "read", "failed"

vars == <<scene, sets, root, text, loaded, phase>>

(***************************************************************************)
(* Nodes and their references.  A heap is a sequence of nodes; a deleted   *)
(* one has no reference left.                                              *)
(***************************************************************************)
BaseParams == <<[key |-> "label", type |-> "str", constructor |-> FALSE, def |-> Null, classes |-> {}]>>

AllParams(c) == BaseParams \o Params[c]

Keyed(c, k) == CHOOSE p \in ToSet(AllParams(c)) : p.key = k

(* The nodes in a value: a node or none, a list, or pairs of a dictionary. *)
NodesIn(p, v) ==
  CASE p.type \in {"node", "nodelist"} -> v
    [] p.type = "nodedict" -> [i \in DOMAIN v |-> v[i][2]]
    [] OTHER -> <<>>

ChildrenOf(node) ==
  FlattenSeq([i \in DOMAIN AllParams(node.class) |->
                NodesIn(AllParams(node.class)[i], node.vals[AllParams(node.class)[i].key])])

Ref(h, n) == [h EXCEPT ![n].refs = @ + 1]

RECURSIVE Unref(_, _)
Unref(h, n) ==
  LET dropped == [h EXCEPT ![n].refs = @ - 1]
  IN  IF h[n].refs = 1 THEN FoldLeft(Unref, dropped, ChildrenOf(h[n])) ELSE dropped

(* ngli_node_create_noconstructor: the constructors are zeroed, the other  *)
(* parameters have their defaults.                                         *)
NoConstructor(c) ==
  [class |-> c,
   vals  |-> [k \in {p.key : p \in ToSet(AllParams(c))} |->
                LET p == Keyed(c, k)
                IN  IF k = "label" THEN DefaultLabel[c]
                    ELSE IF p.type \in {"node", "nodelist", "nodedict"} THEN <<>>
                    ELSE IF p.type = "str" /\ p.constructor THEN Null ELSE p.def],
   refs  |-> 1]

(***************************************************************************)
(* ngli_params_set and ngli_params_add on node n of h.                     *)
(***************************************************************************)
Allowed(h, p, m) == h[m].class \in p.classes

Setting(h, n, p, v) == [h EXCEPT ![n].vals[p.key] = v]

(* Mutant: the node that is replaced keeps its reference.                  *)
SetNode_Leaks(h, n, p, m) == Setting(Ref(h, m), n, p, <<m>>)

(* The old node goes before the new one is held.                           *)
SetNode(h, n, p, m) ==
  Setting(Ref(FoldLeft(Unref, h, h[n].vals[p.key]), m), n, p, <<m>>)

(* ngli_hmap_set on the dictionary: the entry at k is replaced or added,   *)
(* or with no node, <<>>, dropped.                                         *)
SetEntry(h, n, p, k, m) ==
  LET dict  == h[n].vals[p.key]
      at    == {i \in DOMAIN dict : dict[i][1] = k}
      freed == FoldSet(LAMBDA i, g : Unref(g, dict[i][2]), h, at)
      kept  == SelectSeq(dict, LAMBDA e : e[1] # k)
  IN  IF m = <<>> THEN Setting(freed, n, p, kept)
      ELSE IF at = {} THEN Setting(Ref(h, m[1]), n, p, Append(dict, <<k, m[1]>>))
      ELSE Setting(Ref(freed, m[1]), n, p, [dict EXCEPT ![Min(at)] = <<k, m[1]>>])

AddNode(h, n, p, m) == Setting(Ref(h, m), n, p, Append(h[n].vals[p.key], m))

SetPlain(h, n, p, v) == Setting(h, n, p, IF v = Null THEN p.def ELSE v)

(***************************************************************************)
(* Serialisation: st has the lines and the nodes they are of.              *)
(***************************************************************************)
Escaped(s) ==
  FlattenSeq([i \in DOMAIN s |->
                IF s[i] \in DOMAIN Escape THEN <<"%">> \o Escape[s[i]] ELSE <<s[i]>>])

(* get_node_id: the rank of the line of n, counted from 0, or -1.          *)
NodeId(nlist, n) == IF Contains(nlist, n) THEN SelectInSeq(nlist, LAMBDA m : m = n) - 1 ELSE -1

(* Mutant: the distance is counted from the line before.                   *)
RelNodeId_FromLast(nlist, n) == Len(nlist) - 1 - NodeId(nlist, n)

RelNodeId(nlist, n) == Len(nlist) - NodeId(nlist, n)

(* What a parameter adds to the line of node, a sequence of at most one.   *)
Option(nlist, node, p) ==
  LET v == node.vals[p.key]
      Token(x) == <<[key |-> IF p.constructor THEN "" ELSE p.key, val |-> x]>>
  IN  CASE p.type = "other" -> IF p.constructor \/ v # p.def THEN Token(v) ELSE <<>>
        [] p.type = "str" ->
             IF v = Null \/ v = p.def \/ (p.key = "label" /\ v = DefaultLabel[node.class])
             THEN <<>> ELSE Token(Escaped(v))
        [] p.type \in {"node", "nodelist"} ->
             IF v = <<>> THEN <<>> ELSE Token([i \in DOMAIN v |-> RelNodeId(nlist, v[i])])
        [] p.type = "nodedict" ->
             IF v = <<>> THEN <<>>
             ELSE Token([i \in DOMAIN v |-> <<v[i][1], RelNodeId(nlist, v[i][2])>>])

Line(nlist, node) ==
  [class |-> node.class,
   options |-> FlattenSeq([i \in DOMAIN Params[node.class] |->
                             Option(nlist, node, Params[node.class][i])])
               \o Option(nlist, node, BaseParams[1])]

RECURSIVE Serialized(_, _, _)
Serialized(h, st, n) ==
  IF NodeId(st.nlist, n) >= 0 THEN st
  ELSE LET after == FoldLeft(LAMBDA s, m : Serialized(h, s, m), st, ChildrenOf(h[n]))
       IN  [lines |-> Append(after.lines, Line(after.nlist, h[n])),
            nlist |-> Append(after.nlist, n)]

Written(h, n) == Serialized(h, [lines |-> <<>>, nlist |-> <<>>], n)

(***************************************************************************)
(* Reading a line: the node is the last of h.                              *)
(***************************************************************************)
Unescaped(s) ==
  LET From[i \in 1 .. Len(s) + 1] ==
        IF i > Len(s) THEN <<>>
        ELSE IF s[i] = "%" /\ i + 2 <= Len(s)
             THEN <<CHOOSE c \in DOMAIN Escape : Escape[c] = <<s[i + 1], s[i + 2]>> >> \o From[i + 3]
        ELSE <<s[i]>> \o From[i + 1]
  IN  From[1]

(* get_abs_node                                                            *)
AbsNode(h, id) == Len(h) - id

(* parse_param: lists and dictionaries element after element.              *)
ParseParam(h, p, val) ==
  LET n == Len(h)
  IN  CASE p.type = "node"     -> SetNode(h, n, p, AbsNode(h, val[1]))
        [] p.type = "nodelist" -> FoldLeft(LAMBDA g, id : AddNode(g, n, p, AbsNode(h, id)), h, val)
        [] p.type = "nodedict" -> FoldLeft(LAMBDA g, e : SetEntry(g, n, p, e[1], <<AbsNode(h, e[2])>>), h, val)
        [] p.type = "str"      -> SetPlain(h, n, p, Unescaped(val))
        [] OTHER               -> SetPlain(h, n, p, val)

Constructors(c) == SelectSeq(Params[c], LAMBDA p : p.constructor)

(* set_node_params, as far as the first k options: the constructors by     *)
(* their place, the others by their key.  Nothing of the line of a class   *)
(* without parameters is parsed, though it may have a label.               *)
IsParsed(line) == Params[line.class] # <<>>

SetNodeParams(h, line, k) ==
  LET ParamOf(i) == IF i <= Len(Constructors(line.class)) THEN Constructors(line.class)[i]
                    ELSE Keyed(line.class, line.options[i].key)
  IN  IF ~IsParsed(line) THEN h
      ELSE FoldLeft(LAMBDA g, i : ParseParam(g, ParamOf(i), line.options[i].val), h, [i \in 1 .. k |-> i])

(* The references of the array of nodes go, in its order.                  *)
UnrefAll(h) == FoldLeft(Unref, h, [i \in DOMAIN h |-> i])

(***************************************************************************)
(* The client                                                              *)
(***************************************************************************)
Init ==
  /\ scene = <<>> /\ sets = 0 /\ root = 0
  /\ text = <<>> /\ loaded = <<>> /\ phase = "built"

Unchanged == UNCHANGED <<root, text, loaded, phase>>

(* What the client passes for a parameter of node n: nodes older than n,   *)
(* so that the scene has no cycle.                                         *)
Given(h, n, p) ==
  IF p.type = "str" THEN String
  ELSE IF p.type = "other" THEN Value
  ELSE 1 .. n - 1

Put(h, n, p, v) ==
  IF p.type = "node" THEN SetNode(h, n, p, v) ELSE SetPlain(h, n, p, v)

(* ngl_node_create.  A call that fails, for a node that is not allowed,    *)
(* leaves the scene as it was and is no step; so with those below.         *)
NodeCreate(c) ==
  /\ phase = "built" /\ Len(scene) < MaxNodes
  /\ LET n     == Len(scene) + 1
         new   == Append(scene, NoConstructor(c))
         ctors == Constructors(c)
     IN  \E args \in [DOMAIN ctors -> UNION {Given(scene, n, ctors[i]) : i \in DOMAIN ctors}] :
           /\ \A i \in DOMAIN ctors : args[i] \in Given(scene, n, ctors[i])
           /\ \A i \in DOMAIN ctors :
                ctors[i].type = "node" => Allowed(scene, ctors[i], args[i])
           /\ scene' = FoldLeft(LAMBDA h, i : Put(h, n, ctors[i], args[i]), new,
                                [i \in DOMAIN ctors |-> i])
  /\ UNCHANGED sets /\ Unchanged

Changes(n, p) ==
  /\ phase = "built" /\ sets < MaxSets
  /\ n \in DOMAIN scene
  /\ p \in ToSet(AllParams(scene[n].class))
  /\ sets' = sets + 1
  /\ Unchanged

(* ngl_node_param_set                                                      *)
ParamSet(n, p) ==
  /\ Changes(n, p)
  /\ p.type \in {"node", "str", "other"}
  /\ \E v \in Given(scene, n, p) :
       /\ p.type = "node" => Allowed(scene, p, v)
       /\ scene' = Put(scene, n, p, v)

ParamSetEntry(n, p) ==
  /\ Changes(n, p)
  /\ p.type = "nodedict"
  /\ \E k \in Keys :
       \/ scene' = SetEntry(scene, n, p, k, <<>>)
       \/ \E m \in Given(scene, n, p) :
            Allowed(scene, p, m) /\ scene' = SetEntry(scene, n, p, k, <<m>>)

(* ngl_node_param_add, one node at a time.                                 *)
ParamAdd(n, p) ==
  /\ Changes(n, p)
  /\ p.type = "nodelist"
  /\ Len(scene[n].vals[p.key]) < MaxList
  /\ \E m \in Given(scene, n, p) : Allowed(scene, p, m) /\ scene' = AddNode(scene, n, p, m)

(* ngl_node_serialize; a failure leaves no text.                           *)
Serialize(n) ==
  /\ phase = "built"
  /\ n \in DOMAIN scene
  /\ root' = n
  /\ text' = Written(scene, n).lines
  /\ phase' = "reading"
  /\ UNCHANGED <<scene, sets, loaded>>

(***************************************************************************)
(* ngl_node_deserialize                                                    *)
(***************************************************************************)
ReadLine ==
  /\ phase = "reading" /\ text # <<>>
  /\ loaded' = SetNodeParams(Append(loaded, NoConstructor(Head(text).class)), Head(text),
                             Len(Head(text).options))
  /\ text' = Tail(text)
  /\ UNCHANGED <<scene, sets, root, phase>>

(* The header is refused, or a node is not created, or one of its          *)
(* parameters is not set.                                                  *)
ReadFails ==
  /\ phase = "reading" /\ text # <<>>
  /\ \/ loaded' = UnrefAll(loaded)
     \/ \E k \in 0 .. Len(Head(text).options) - 1 :
          /\ IsParsed(Head(text))
          /\ loaded' = UnrefAll(SetNodeParams(Append(loaded, NoConstructor(Head(text).class)), Head(text), k))
  /\ text' = <<>> /\ phase' = "failed"
  /\ UNCHANGED <<scene, sets, root>>

(* The last node is the root of the scene, for the caller to hold.         *)
ReadEnds ==
  /\ phase = "reading" /\ text = <<>>
  /\ loaded' = UnrefAll(Ref(loaded, Len(loaded)))
  /\ phase' = "read"
  /\ UNCHANGED <<scene, sets, root, text>>

(* The caller lets go of the scene it read.                                *)
Release ==
  /\ phase = "read"
  /\ loaded' = Unref(loaded, Len(loaded))
  /\ phase' = "failed"
  /\ UNCHANGED <<scene, sets, root, text>>

Again ==
  /\ phase = "failed"
  /\ loaded' = <<>> /\ root' = 0 /\ phase' = "built"
  /\ UNCHANGED <<scene, sets, text>>

Next ==
  \/ \E c \in Class : NodeCreate(c)
  \/ \E n \in DOMAIN scene :
       \/ Serialize(n)
       \/ \E p \in ToSet(AllParams(scene[n].class)) : ParamSet(n, p) \/ ParamSetEntry(n, p) \/ ParamAdd(n, p)
  \/ ReadLine
  \/ ReadFails
  \/ ReadEnds
  \/ Release
  \/ Again

Spec == Init /\ [][Next]_vars

(***************************************************************************)
(* Properties                                                              *)
(***************************************************************************)

(* The nodes of h that nodes use, counted with their repetitions, and the  *)
(* references others have: no count is short or in excess, and a node with *)
(* no reference uses none.                                                 *)
Counted(h, Held(_)) ==
  \A n \in DOMAIN h :
    h[n].refs = Held(n) + FoldSet(LAMBDA m, k : k + IF h[m].refs = 0 THEN 0
                                       ELSE Cardinality({i \in DOMAIN ChildrenOf(h[m]) : ChildrenOf(h[m])[i] = n}),
                                  0, DOMAIN h)

(* Each node has as many references as the client, the reader and the      *)
(* parameters of live nodes hold, whatever is replaced in a parameter and  *)
(* wherever reading stops; a failed reading leaves no node.                *)
ReferencesCounted ==
  /\ Counted(scene, LAMBDA n : 1)
  /\ Counted(loaded, LAMBDA n : CASE phase = "reading" -> 1
                                  [] phase = "read" -> IF n = Len(loaded) THEN 1 ELSE 0
                                  [] OTHER -> 0)
  /\ phase = "failed" => \A n \in DOMAIN loaded : loaded[n].refs = 0

(* The scene that is read is the scene that was written: the same nodes,   *)
(* shared as they were, with the values and labels they had.  Only a node  *)
(* of a class without parameters comes back with the default label         *)
(* (serialize.c:354, deserialize.c:433).                                   *)
RoundTrip ==
  phase = "read" =>
    LET nlist == Written(scene, root).nlist
        Copy(m) == SelectInSeq(nlist, LAMBDA n : n = m)
        Copied(p, v) == CASE p.type \in {"node", "nodelist"} -> [i \in DOMAIN v |-> Copy(v[i])]
                          [] p.type = "nodedict" -> [i \in DOMAIN v |-> <<v[i][1], Copy(v[i][2])>>]
                          [] OTHER -> v
    IN  /\ Len(loaded) = Len(nlist) /\ Last(nlist) = root
        /\ IsInjective(nlist)
        /\ \A i \in DOMAIN loaded :
             LET node == scene[nlist[i]]
             IN  /\ loaded[i].class = node.class
                 /\ \A p \in ToSet(AllParams(node.class)) :
                      loaded[i].vals[p.key] =
                        IF Params[node.class] = <<>> THEN DefaultLabel[node.class]
                        ELSE Copied(p, node.vals[p.key])

=============================================================================
