------------------------- MODULE CanvasSavesProperties -------------------------
(***************************************************************************)
(* What the saves of the canvas page promise.                              *)
(***************************************************************************)
EXTENDS CanvasSaves

Kept == record = Deleted \/ (record.nodes = nodes /\ record.viewport = viewport)

\* What the page shows is what the server keeps in the end, in whatever order the saves
\* arrive and whatever gives up the pending one: unless the page was left, or a save has
\* failed and the page does not say that it is saved.
SavesConverge == <>[](~Shown \/ Kept \/ (upsets > 0 /\ saveStatus # "saved"))
=============================================================================
