--------------------------- MODULE MCCanvasEditor ---------------------------
(***************************************************************************)
(* An instance for TLC: a page with a group of two pictures, one with a    *)
(* prompt that feeds a configuration, and an empty picture.                *)
(***************************************************************************)
EXTENDS CanvasEditorProperties, TLC

Group ==
    [nodes |-> 1 :> [Filled("image", 2) EXCEPT !.kids = {2, 3}, !.primary = 2]
               @@ 2 :> [Filled("image", 2) EXCEPT !.root = 1]
               @@ 3 :> [Blank("image") EXCEPT !.root = 1, !.status = "error"],
     links |-> {<<1, 2>>, <<1, 3>>}, born |-> 3]

Prompted ==
    [nodes |-> 1 :> Filled("text", 1) @@ 2 :> Blank("config"),
     links |-> {<<1, 2>>}, born |-> 2]

Empty == [nodes |-> 1 :> Blank("image"), links |-> {}, born |-> 1]

MCStarts == {Group, Prompted, Empty}
=============================================================================
