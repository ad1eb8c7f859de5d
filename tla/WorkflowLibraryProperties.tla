----------------------- MODULE WorkflowLibraryProperties -----------------------
(***************************************************************************)
(* What the library of workflows promises.                                 *)
(***************************************************************************)
EXTENDS WorkflowLibrary

\* A banned work is put up again only by a request that had read it before the ban:
\* publishing or syncing it anew never does.
BansHold ==
    [][\A p \in Posts : posts[p].status = "banned" /\ posts'[p].status = "active" =>
          \E j \in jobs : j.at = "read" /\ j.post = p /\ ~j.over]_libraryVars

\* However a deletion of several ends - all done, put away half-way, or failing - what it
\* has deleted is neither listed nor ticked any more.
RunsAreClean ==
    [][run # NoRun /\ run' = NoRun =>
          \A f \in Flows : run.done \cap {f} = {} \/ (~projects'[f].there /\ f \notin picked')]_libraryVars
=============================================================================
