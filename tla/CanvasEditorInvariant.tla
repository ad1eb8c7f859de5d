------------------------ MODULE CanvasEditorInvariant ------------------------
(***************************************************************************)
(* The types of the canvas page.  They say more than the shape of its      *)
(* state: whatever the document, the undo history, the preview, the        *)
(* clipboard and the requests in progress name has been made already, so   *)
(* that a new node never takes the place of one that may still come back.  *)
(***************************************************************************)
EXTENDS CanvasEditorProperties

\* A request when k nodes have been made.  Only a new upload has no node.
Tasks == Modes \cup {"angle", "retry"} \cup Uploading

Job(k) ==
    [task : Tasks, owner : 0 .. k, src : NodeData(k), count : Nat,
     phase : {"preparing", "asking"}, root : 0 .. k, kids : SUBSET (1 .. k),
     waiting : SUBSET (1 .. k), won : BOOLEAN]

Owned(job) == job.task = "insert" \/ job.owner # Unset

IsDocument(d, k) ==
    d = Doc(d.nodes, d.links) /\ IsDrawing(d.nodes, k) /\ AreLinks(d.links, k)

IsHistory(s, k) ==
    /\ s \in Seq({s[i] : i \in DOMAIN s})
    /\ \A i \in DOMAIN s : IsDocument(s[i], k)

\* The preview is a document with the generations it would start.
IsPreview(p, k) ==
    \/ p = NoPreview
    \/ /\ p = [on |-> TRUE, nodes |-> p.nodes, links |-> p.links, runs |-> p.runs]
       /\ IsDrawing(p.nodes, k) /\ AreLinks(p.links, k)
       /\ p.runs = [n \in DOMAIN p.runs |-> p.runs[n]]
       /\ DOMAIN p.runs \subseteq 1 .. k
       /\ \A n \in DOMAIN p.runs : p.runs[n] \in Modes

DocTyped ==
    /\ born \in 0 .. MaxNodes
    /\ IsDrawing(nodes, born) /\ AreLinks(links, born)

HistoryTyped ==
    /\ IsDocument(last, born)
    /\ IsHistory(past, born) /\ IsHistory(future, born) /\ IsHistory(applying, born)
    /\ dirty \in BOOLEAN /\ commit \in BOOLEAN /\ replaying \in BOOLEAN
    /\ held \in {"no", "down", "moved"}

JobsTyped ==
    /\ jobs = [j \in DOMAIN jobs |-> jobs[j]]
    /\ \A j \in DOMAIN jobs : jobs[j] \in Job(born) /\ Owned(jobs[j])

RestTyped ==
    /\ IsPreview(preview, born)
    /\ running \in 0 .. born
    /\ IsDocument(clipboard, born)
    /\ acts \in Nat

TypeOK == DocTyped /\ HistoryTyped /\ JobsTyped /\ RestTyped
=============================================================================
