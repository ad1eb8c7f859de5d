----------------------- MODULE CanvasEditorProperties -----------------------
(***************************************************************************)
(* What a user who edits while requests are answered may rely on.          *)
(***************************************************************************)
EXTENDS CanvasEditor

\* What is not waiting to be recorded is what was last recorded: an undo never
\* drops a change that the history has missed without marking it.
RecordedIsCurrent == dirty \/ applying # <<>> \/ Doc(nodes, links) = last

Replayed == Len(applying') > Len(applying)

\* A node that was removed comes back from the history or a confirmed preview
\* only, never with an answer that arrives late.
DeletedStaysDeleted ==
    [][\A n \in 1 .. born : n \in DOMAIN nodes' \ DOMAIN nodes =>
          Replayed \/ (preview.on /\ ~preview'.on /\ n \in DOMAIN preview.nodes)]_vars

Busy(n) == \E j \in DOMAIN jobs : n \in jobs[j].waiting \cup jobs[j].kids \cup {jobs[j].owner, jobs[j].root}

\* A late answer touches the nodes its request is for and no others: the user
\* goes on editing the rest.
AnswersStayHome ==
    [][acts' = acts /\ ~Replayed /\ ~preview.on /\ held = held' =>
          \A n \in DOMAIN nodes : nodes'[n] # nodes[n] => Busy(n)]_vars

\* Closing a preview leaves the document as it was or takes the whole preview.
PreviewAllOrNothing ==
    [][preview.on /\ ~preview'.on /\ acts' = acts =>
          \/ Doc(nodes', links') = Doc(nodes, links)
          \/ Doc(nodes', links') = Doc(preview.nodes, preview.links)]_vars
=============================================================================
