------------------------------ MODULE CanvasSaves ------------------------------
(***************************************************************************)
(* How the canvas page keeps a workflow: canvas-client-page.tsx and the    *)
(* bar above the canvas.  An edit is saved after 600 ms by one timer, the  *)
(* view after 500 ms by another, and a new title at once; every request    *)
(* carries the whole workflow, several may be in flight, and what the      *)
(* server answers becomes the page's current project.                      *)
(***************************************************************************)
EXTENDS Integers, FiniteSets

CONSTANTS
    Titles,       \* the titles a user may type
    MaxEdits,     \* bound: changes of the nodes, and of the view
    MaxSaves,     \* bound: requests in flight
    MaxWorks,     \* bound: other things begun at the page
    MaxUpsets     \* bound: requests that fail

VARIABLES
    page,         \* reading, shown or left
    nodes,        \* number of changes made to the nodes and connections
    viewport,     \* number of changes made to the view
    title,        \* the title of the current project, Untitled before it is read
    autoTimer,    \* what the pending save of an edit carries, or NoTimer
    viewTimer,    \* the title the pending save of the view carries, or NoTimer
    saves,        \* the requests in flight
    saveStatus, paused, agentPreview,
    titleDraft,   \* what is typed as a title, or NotEditing
    share,        \* the dialog that shares
    errand,       \* a workflow being named, made, or deleted
    record,       \* what the server keeps, or Deleted
    works, upsets \* number of things begun; of requests that failed

savesVars == <<page, nodes, viewport, title, autoTimer, viewTimer, saves, saveStatus, paused, agentPreview,
               titleDraft, share, errand, record, works, upsets>>

Untitled == "untitled"
NoTimer == [title |-> Untitled, nodes |-> -1]
NoSave == [at |-> "none", title |-> Untitled, nodes |-> -1, viewport |-> -1, by |-> "timer"]
NotEditing == "notediting"
Deleted == [title |-> Untitled, nodes |-> -1, viewport |-> -1]
NoShare == [open |-> FALSE, password |-> FALSE, typed |-> FALSE, shared |-> FALSE, at |-> "none"]
Slots == 1 .. MaxSaves
Shown == page = "shown"
Do == works < MaxWorks /\ works' = works + 1
Fails == upsets < MaxUpsets /\ upsets' = upsets + 1

------------------------------------------------------------------------------
(* The two effects *)

\* The effect that saves an edit runs anew whenever what it depends on has changed:
\* what was pending is given up, and a new save is due unless something holds it back.
AutoSave(newNodes, newTitle, status) ==
    IF paused \/ agentPreview' THEN autoTimer' = NoTimer /\ saveStatus' = status
    ELSE autoTimer' = [title |-> newTitle, nodes |-> newNodes] /\ saveStatus' = "saving"

\* Mutant: the view is not saved again because of an answer.
ViewSaveOnce(newTitle) == viewTimer

\* The effect that saves the view depends on the current project: every answer is a new one.
ViewSave(newTitle) == [title |-> newTitle, nodes |-> 0]

\* Leaving the page gives up what was pending; what is in flight goes on.
Leave ==
    /\ page' = "left" /\ autoTimer' = NoTimer /\ viewTimer' = NoTimer
    /\ titleDraft' = NotEditing /\ share' = NoShare /\ errand' = "none" /\ paused' = FALSE /\ agentPreview' = FALSE

\* updateWorkflow
UpdateWorkflow(theTitle, theNodes, by) ==
    \E i \in Slots :
        /\ saves[i] = NoSave
        /\ saves' = [saves EXCEPT ![i] = [at |-> "asked", title |-> theTitle, nodes |-> theNodes, viewport |-> viewport, by |-> by]]

AutoSaveFires ==
    /\ autoTimer # NoTimer /\ autoTimer' = NoTimer
    /\ UpdateWorkflow(autoTimer.title, autoTimer.nodes, "timer")
    /\ UNCHANGED <<page, nodes, viewport, title, viewTimer, saveStatus, paused, agentPreview, titleDraft, share, errand, record, works, upsets>>

\* It carries what the page shows when it fires.
ViewSaveFires ==
    /\ viewTimer # NoTimer /\ viewTimer' = NoTimer
    /\ UpdateWorkflow(viewTimer.title, nodes, "timer")
    /\ UNCHANGED <<page, nodes, viewport, title, autoTimer, saveStatus, paused, agentPreview, titleDraft, share, errand, record, works, upsets>>

SaveServed(i) ==
    /\ saves[i].at = "asked" /\ record # Deleted
    /\ saves' = [saves EXCEPT ![i].at = "served"]
    /\ record' = [title |-> saves[i].title, nodes |-> saves[i].nodes, viewport |-> saves[i].viewport]
    /\ UNCHANGED <<page, nodes, viewport, title, autoTimer, viewTimer, saveStatus, paused, agentPreview, titleDraft, share, errand, works, upsets>>

\* A new title makes the edit due again, with the answer's title.
SaveAnswered(i) ==
    /\ saves[i].at = "served"
    /\ saves' = [saves EXCEPT ![i] = NoSave] /\ UNCHANGED agentPreview
    /\ IF ~Shown THEN UNCHANGED <<title, autoTimer, viewTimer, saveStatus>>
       ELSE /\ title' = saves[i].title
            /\ viewTimer' = ViewSave(saves[i].title)
            /\ LET status == IF saves[i].by = "timer" THEN "saved" ELSE saveStatus
               IN  IF title' # title THEN AutoSave(nodes, title', status)
                   ELSE saveStatus' = status /\ UNCHANGED autoTimer
    /\ UNCHANGED <<page, nodes, viewport, paused, titleDraft, share, errand, record, works, upsets>>

\* A save fails, before or after the server has kept it: a failing save of a title is not shown.
SaveFailed(i) ==
    /\ saves[i] # NoSave
    /\ saves' = [saves EXCEPT ![i] = NoSave]
    /\ \/ record = Deleted /\ UNCHANGED upsets
       \/ Fails
    /\ saveStatus' = IF Shown /\ saves[i].by = "timer" THEN "error" ELSE saveStatus
    /\ UNCHANGED <<page, nodes, viewport, title, autoTimer, viewTimer, paused, agentPreview, titleDraft, share, errand, record, works>>

------------------------------------------------------------------------------
(* Editing *)

\* restore: the workflow is read, and what was read is due to be saved.
Restore ==
    /\ page = "reading" /\ UNCHANGED agentPreview
    /\ \/ /\ page' = "shown" /\ title' = record.title /\ nodes' = record.nodes /\ viewport' = record.viewport
          /\ AutoSave(record.nodes, record.title, saveStatus)
          /\ viewTimer' = ViewSave(record.title)
          /\ \E shared \in BOOLEAN : share' = [NoShare EXCEPT !.shared = shared]
          /\ UNCHANGED upsets
       \/ /\ Fails /\ page' = "left"
          /\ UNCHANGED <<title, nodes, viewport, autoTimer, viewTimer, saveStatus, share>>
    /\ UNCHANGED <<saves, paused, titleDraft, errand, record, works>>

\* The nodes change by a gesture or, while a node is held too, by an answer that lands.
EditNodes ==
    /\ Shown /\ nodes < MaxEdits /\ ~agentPreview
    /\ nodes' = nodes + 1 /\ UNCHANGED agentPreview
    /\ AutoSave(nodes + 1, title, saveStatus)
    /\ UNCHANGED <<page, viewport, title, viewTimer, saves, paused, titleDraft, share, errand, record, works, upsets>>

\* Nothing depends on historyPausedRef: a press by itself gives nothing up, and a release
\* makes nothing due.
PressNode ==
    /\ Shown /\ ~agentPreview
    /\ paused' = ~paused
    /\ UNCHANGED <<page, nodes, viewport, title, autoTimer, viewTimer, saves, saveStatus, agentPreview, titleDraft, share, errand, record, upsets>>

MoveView ==
    /\ Shown /\ ~agentPreview /\ viewport < MaxEdits
    /\ viewport' = viewport + 1
    /\ viewTimer' = ViewSave(title)
    /\ UNCHANGED <<page, nodes, title, autoTimer, saves, saveStatus, paused, agentPreview, titleDraft, share, errand, record, works, upsets>>

\* A plan of the assistant is shown, put away, or confirmed: then it may change the nodes
\* and the view.
AgentPreview ==
    /\ Shown /\ ~paused
    /\ agentPreview' = ~agentPreview
    /\ nodes' \in IF agentPreview /\ nodes < MaxEdits THEN {nodes, nodes + 1} ELSE {nodes}
    /\ viewport' \in IF agentPreview /\ viewport < MaxEdits THEN {viewport, viewport + 1} ELSE {viewport}
    /\ AutoSave(nodes', title, saveStatus)
    /\ viewTimer' = IF viewport' # viewport THEN ViewSave(title) ELSE viewTimer
    /\ UNCHANGED <<page, title, saves, paused, titleDraft, share, errand, record, upsets>>

------------------------------------------------------------------------------
(* The title *)

StartTitleEditing ==
    /\ Shown /\ titleDraft = NotEditing
    /\ titleDraft' = title
    /\ UNCHANGED <<page, nodes, viewport, title, autoTimer, viewTimer, saves, saveStatus, paused, agentPreview, share, errand, record, upsets>>

TypeTitle ==
    /\ Shown /\ titleDraft # NotEditing
    /\ titleDraft' \in Titles \ {titleDraft}
    /\ UNCHANGED <<page, nodes, viewport, title, autoTimer, viewTimer, saves, saveStatus, paused, agentPreview, share, errand, record, works, upsets>>

\* What is typed is sent at once with all that the page shows.
FinishTitleEditing ==
    /\ Shown /\ titleDraft # NotEditing
    /\ titleDraft' = NotEditing
    /\ UpdateWorkflow(titleDraft, nodes, "title")
    /\ UNCHANGED <<page, nodes, viewport, title, autoTimer, viewTimer, saveStatus, paused, agentPreview, share, errand, record, upsets>>

------------------------------------------------------------------------------
(* Sharing *)

ShareDialog ==
    /\ Shown
    /\ share' \in {[share EXCEPT !.open = ~@], [share EXCEPT !.password = ~@], [share EXCEPT !.typed = ~@]} \ {share}
    /\ ~share.open => share'.open
    /\ UNCHANGED <<page, nodes, viewport, title, autoTimer, viewTimer, saves, saveStatus, paused, agentPreview, titleDraft, errand, record, upsets>>

\* A password may be left out only when it is not asked for.
SubmitShare ==
    /\ Shown /\ share.open /\ share.at = "none"
    /\ share.password => share.typed
    /\ share' = [share EXCEPT !.at = "asked"]
    /\ UNCHANGED <<page, nodes, viewport, title, autoTimer, viewTimer, saves, saveStatus, paused, agentPreview, titleDraft, errand, record, upsets>>

\* The server shares what it has kept, which may not be what the page shows.
ShareAnswered ==
    /\ share.at = "asked"
    /\ \/ share' = [share EXCEPT !.at = "none", !.typed = FALSE, !.shared = TRUE] /\ UNCHANGED upsets
       \/ share' = [share EXCEPT !.at = "none"] /\ Fails
    /\ UNCHANGED <<page, nodes, viewport, title, autoTimer, viewTimer, saves, saveStatus, paused, agentPreview, titleDraft, errand, record, works>>

------------------------------------------------------------------------------
(* Another workflow, and no workflow *)

CanvasTopBar ==
    /\ Shown
    /\ \/ /\ Leave /\ UNCHANGED <<nodes, viewport, title, saves, saveStatus, record, upsets>>
       \/ /\ errand = "none" /\ errand' \in {"naming", "typing"}
          /\ UNCHANGED <<page, nodes, viewport, title, autoTimer, viewTimer, saves, saveStatus, paused, agentPreview, titleDraft, share, record, upsets>>
       \/ StartTitleEditing \/ ShareDialog

Errand(from, to) ==
    /\ errand = from /\ errand' \in {"none", to}
    /\ UNCHANGED <<page, nodes, viewport, title, autoTimer, viewTimer, saves, saveStatus, paused, agentPreview, titleDraft, share, record, works, upsets>>

\* A dialog asks for a name, and does not close on one that is empty or not well formed.
RequestWorkflowName == Errand("naming", "creating")

\* Three dialogs in a row: the name is typed, and the deletion confirmed twice.
ConfirmWorkflowDelete == Errand("typing", "again") \/ Errand("again", "last") \/ Errand("last", "deleting")

\* The new workflow is opened in a page of its own.
CreateAndOpenProject ==
    /\ errand = "creating"
    /\ \/ Leave /\ UNCHANGED upsets
       \/ /\ Fails /\ errand' = "none"
          /\ UNCHANGED <<page, autoTimer, viewTimer, paused, agentPreview, titleDraft, share>>
    /\ UNCHANGED <<nodes, viewport, title, saves, saveStatus, record, works>>

DeleteCurrentProject ==
    /\ errand = "deleting"
    /\ \/ Leave /\ record' = Deleted /\ UNCHANGED upsets
       \/ /\ Fails /\ errand' = "none"
          /\ UNCHANGED <<page, autoTimer, viewTimer, paused, agentPreview, titleDraft, share, record>>
    /\ UNCHANGED <<nodes, viewport, title, saves, saveStatus, works>>

SavesInit ==
    /\ page = "reading" /\ nodes = 0 /\ viewport = 0 /\ title = Untitled
    /\ autoTimer = NoTimer /\ viewTimer = NoTimer /\ saves = [i \in Slots |-> NoSave]
    /\ saveStatus = "idle" /\ paused = FALSE /\ agentPreview = FALSE /\ titleDraft = NotEditing
    /\ share = NoShare /\ errand = "none"
    /\ \E t \in Titles : record = [title |-> t, nodes |-> 0, viewport |-> 0]
    /\ works = 0 /\ upsets = 0

SaveReplies == \E i \in Slots : SaveServed(i) \/ SaveAnswered(i) \/ SaveFailed(i)
SavesNext ==
    \/ Restore \/ EditNodes \/ MoveView \/ TypeTitle
    \/ AutoSaveFires \/ ViewSaveFires \/ SaveReplies
    \/ Do /\ (PressNode \/ AgentPreview \/ CanvasTopBar \/ FinishTitleEditing \/ SubmitShare)
    \/ (paused \/ agentPreview) /\ (PressNode \/ AgentPreview) /\ UNCHANGED works
    \/ ShareAnswered \/ RequestWorkflowName \/ ConfirmWorkflowDelete
    \/ CreateAndOpenProject \/ DeleteCurrentProject

\* Timers fire, and every request is answered.
SavesFairness ==
    /\ WF_savesVars(Restore) /\ WF_savesVars(ViewSaveFires) /\ WF_savesVars(AutoSaveFires)
    /\ \A i \in Slots : WF_savesVars(SaveServed(i) \/ SaveAnswered(i))

SavesSpec == SavesInit /\ [][SavesNext]_savesVars /\ SavesFairness
=============================================================================
