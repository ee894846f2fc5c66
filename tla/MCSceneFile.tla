---------------------------- MODULE MCSceneFile ----------------------------
(***************************************************************************)
(* Five classes for TLC, with a parameter of each type: a group of nodes,  *)
(* a render of a geometry with a dictionary and an optional node, a media  *)
(* made of a file name, a quad with a plain value, and an identity without *)
(* parameters.                                                             *)
(***************************************************************************)
EXTENDS SceneFile, TLC

P(key, type, constructor, def, classes) ==
  [key |-> key, type |-> type, constructor |-> constructor, def |-> def, classes |-> classes]

Classes == {"Group", "Render", "Media", "Quad", "Identity"}

ClassParams ==
  [Group  |-> <<P("children", "nodelist", FALSE, <<>>, Classes)>>,
   Render |-> <<P("geometry", "node", TRUE, <<>>, {"Quad"}),
                P("program", "node", FALSE, <<>>, {"Media"}),
                P("textures", "nodedict", FALSE, <<>>, {"Media", "Quad"})>>,
   Media  |-> <<P("filename", "str", TRUE, Null, {})>>,
   Quad   |-> <<P("corner", "other", FALSE, "0", {})>>,
   Identity |-> <<>>]

Labels == [c \in Classes |-> <<c>>]

(* An empty name, one that reads as an escape and a space, a class name.   *)
Strings == {<<>>, <<"%", "2", "0", " ">>, Labels["Quad"]}

Escapes == (" " :> <<"2", "0">>) @@ ("%" :> <<"2", "5">>)

=============================================================================
