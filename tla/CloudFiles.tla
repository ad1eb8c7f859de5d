------------------------------ MODULE CloudFiles ------------------------------
(***************************************************************************)
(* One user's stored files and what holds on to them: the cloud_files rows *)
(* and the objects behind them (service/cloud_storage.go), the workflows   *)
(* that cite them (workflow.go) and the generation histories they belong   *)
(* to (generation_history.go), with the clean-up that runs beside the      *)
(* requests.  A temporary file expires; saving a workflow that cites it    *)
(* makes it permanent; deleting the workflow or the history deletes it.    *)
(*                                                                         *)
(* Rows and objects change one at a time: a process removes a file's       *)
(* object, then marks its row; a save writes the workflow, then binds its  *)
(* files.  job[p] is what process p has read and is about to do.           *)
(***************************************************************************)
EXTENDS Integers, FiniteSets

CONSTANTS
    Files, Workflows, Histories,
    Requests,     \* concurrent HTTP requests of this user
    Sweeper,      \* the clean-up goroutine
    Lifetime,     \* ticks until a temporary file expires
    BatchSize,    \* expired rows the clean-up reads at a time (100)
    MaxClock,     \* bound: the last tick
    MaxFailures   \* bound: failed calls, lost requests and restarts

Nothing == "none"
Never == -1           \* the empty expires_at

ASSUME CloudFilesAssumption ==
    /\ Lifetime \in Nat \ {0} /\ BatchSize \in Nat \ {0}
    /\ MaxClock \in Nat /\ MaxFailures \in Nat
    /\ Sweeper \notin Requests
    /\ Nothing \notin Files \cup Workflows \cup Histories

VARIABLES
    file,      \* cloud_files
    objects,   \* the files whose object the storage holds
    workflow,  \* workflows: the state and the files the nodes cite
    history,   \* generation_histories: the state, the media and the expiry
    clock, failures,
    pc, job,   \* what each process does next, and on what
    mishaps    \* history: <<f, what>> for what went wrong around file f

vars == <<file, objects, workflow, history, clock, failures, pc, job, mishaps>>

Processes == Requests \cup {Sweeper}
NoHistory == [state |-> "none", media |-> {}, expires |-> Never]
Times == 0 .. MaxClock + Lifetime
Purges == {"workflow", "history", "prune", "cleanup", "sweep"}
PCs == {"idle", "done", "bind", "insert", "attach", "list", "purge", "mark",
        "forget", "batch"}
Kinds == {"raced", "taken", "late", "unbound", "leaked", "unmarked"}

NoJob == [op |-> Nothing, target |-> Nothing, files |-> {}, media |-> {},
          at |-> Nothing, expires |-> Never, queue |-> {}]

Live(f) == file[f].state = "live"
Expired(f) == Live(f) /\ file[f].expires # Never /\ file[f].expires <= clock
Purging(f) == \E p \in Processes : /\ pc[p] \in {"purge", "mark"}
                                   /\ f \in job[p].files \cup {job[p].at}
Marks(S, what) == S \X {what}

Go(p, next, j) == pc' = [pc EXCEPT ![p] = next] /\ job' = [job EXCEPT ![p] = j]
Stop(p) == Go(p, IF p = Sweeper THEN "idle" ELSE "done", NoJob)

\* Mutants: the expiry is kept; a workflow's file stays in its history.
BindKeepsExpiry(S, w, h, expires) ==
    file' = [f \in Files |->
        IF f \in S /\ Live(f)
        THEN [state |-> "live", workflow |-> w, history |-> h, expires |-> file[f].expires]
        ELSE file[f]]
BindKeepsHistory(S, w, h, expires) ==
    file' = [f \in Files |->
        IF f \in S /\ Live(f)
        THEN [state |-> "live", workflow |-> w, expires |-> expires,
              history |-> IF h = Nothing THEN file[f].history ELSE h]
        ELSE file[f]]

\* UpdateCloudFilesPurpose and bindWorkflowCloudFilesTx: rows already deleted
\* stay as they are.
Bind(S, w, h, expires) ==
    file' = [f \in Files |->
        IF f \in S /\ Live(f)
        THEN [state |-> "live", workflow |-> w, history |-> h, expires |-> expires]
        ELSE file[f]]
\* What binding S to workflow w (or to none) does to others.
Disturbed(S, w) ==
    LET bound == {f \in S : Live(f)} IN
    Marks({f \in bound : Purging(f)}, "raced")
    \cup Marks({f \in bound : \E v \in Workflows \ {w} :
                    workflow[v].state = "live" /\ f \in workflow[v].cites}, "taken")
    \cup IF w \in Workflows /\ workflow[w].state = "deleted"
         THEN Marks(bound, "late") ELSE {}

-----------------------------------------------------------------------------
(* Storing a file *)

\* StoreUserFile: the object, then its row.  Until the row is there nothing
\* else can name the file, so this is one step; when the row cannot be written
\* the object stays, with nothing that names it.
StoreUserFile(f) ==
    /\ file[f].state = "none" /\ f \notin objects
    /\ objects' = objects \cup {f}
    /\ \/ /\ file' = [file EXCEPT ![f] =
                         [state |-> "live", workflow |-> Nothing, history |-> Nothing,
                          expires |-> clock + Lifetime]]
          /\ UNCHANGED failures
       \/ /\ failures < MaxFailures /\ failures' = failures + 1
          /\ UNCHANGED file
    /\ UNCHANGED <<workflow, history, clock, pc, job, mishaps>>

-----------------------------------------------------------------------------
(* Workflows *)

\* validateWorkflowCloudFilesTx: the row exists, deleted or not.
Citable == {f \in Files : file[f].state # "none"}

\* One transaction
CreateWorkflow(w) ==
    /\ workflow[w].state = "none"
    /\ \E S \in SUBSET Citable :
           /\ workflow' = [workflow EXCEPT ![w] = [state |-> "live", cites |-> S]]
           /\ Bind(S, w, Nothing, Never)
           /\ mishaps' = mishaps \cup Disturbed(S, w)
    /\ UNCHANGED <<objects, history, clock, failures, pc, job>>

UpdateWorkflow(r, w) ==
    /\ pc[r] = "idle" /\ workflow[w].state = "live"
    /\ \E S \in SUBSET Citable :
           /\ workflow' = [workflow EXCEPT ![w].cites = S]
           /\ Go(r, "bind", [NoJob EXCEPT !.target = w, !.files = S])
    /\ UNCHANGED <<file, objects, history, clock, failures, mishaps>>

BindWorkflowCloudFiles(r) ==
    /\ pc[r] = "bind"
    /\ Bind(job[r].files, job[r].target, Nothing, Never)
    /\ mishaps' = mishaps \cup Disturbed(job[r].files, job[r].target)
    /\ Stop(r)
    /\ UNCHANGED <<objects, workflow, history, clock, failures>>

\* Mutant: the files are left to the clean-up.
DeleteWorkflowOnly(r, w) ==
    /\ pc[r] = "idle" /\ workflow[w].state = "live"
    /\ workflow' = [workflow EXCEPT ![w].state = "deleted"]
    /\ Stop(r)
    /\ UNCHANGED <<file, objects, history, clock, failures, mishaps>>

DeleteWorkflow(r, w) ==
    /\ pc[r] = "idle" /\ workflow[w].state = "live"
    /\ workflow' = [workflow EXCEPT ![w].state = "deleted"]
    /\ Go(r, "list", [NoJob EXCEPT !.op = "workflow", !.target = w])
    /\ UNCHANGED <<file, objects, history, clock, failures, mishaps>>

-----------------------------------------------------------------------------
(* Generation histories *)

\* What normalizeGenerationHistoryMedia keeps; a permanent file is not kept.
Showable(S) == {f \in S : Live(f) /\ file[f].expires > clock}
Earliest(S) == {t \in {file[f].expires : f \in S} : \A f \in S : t <= file[f].expires}

\* normalizeGenerationHistoryMedia; the references come with the request
\* unchecked.  Nobody else uses the new history's id.
ReadMedia(r, h) ==
    /\ pc[r] = "idle" /\ history[h].state = "none"
    /\ \A q \in Requests : pc[q] = "insert" => job[q].target # h
    /\ \E media \in SUBSET Showable(Files) \ {{}}, references \in SUBSET Citable :
           \E expires \in Earliest(media) :
               Go(r, "insert", [NoJob EXCEPT !.target = h, !.media = media,
                                             !.files = media \cup references,
                                             !.expires = expires])
    /\ UNCHANGED <<file, objects, workflow, history, clock, failures, mishaps>>

SaveGenerationHistory(r) ==
    LET j == job[r] IN
    /\ pc[r] = "insert"
    /\ history' = [history EXCEPT ![j.target] =
                       [state |-> "live", media |-> j.media, expires |-> j.expires]]
    /\ Go(r, "attach", j)
    /\ UNCHANGED <<file, objects, workflow, clock, failures, mishaps>>

BindCloudFiles(r) ==
    LET j == job[r] IN
    /\ pc[r] = "attach"
    /\ Bind(j.files, Nothing, j.target, j.expires)
    /\ mishaps' = mishaps \cup Disturbed(j.files, Nothing)
    /\ Stop(r)
    /\ UNCHANGED <<objects, workflow, history, clock, failures>>

\* Asked for a history already deleted, it still deletes what was bound since.
DeleteHistory(r, h) ==
    /\ pc[r] = "idle" /\ history[h].state # "none"
    /\ Go(r, "list", [NoJob EXCEPT !.op = "history", !.target = h])
    /\ UNCHANGED <<file, objects, workflow, history, clock, failures, mishaps>>

\* pruneEmptyGenerationHistories, when the histories are listed: one whose
\* media cannot be looked up goes like one that has none left.
PruneHistory(r, h) ==
    /\ pc[r] = "idle" /\ history[h].state = "live"
    /\ \/ Showable(history[h].media) = {} /\ UNCHANGED failures
       \/ failures < MaxFailures /\ failures' = failures + 1
    /\ Go(r, "list", [NoJob EXCEPT !.op = "prune", !.target = h])
    /\ UNCHANGED <<file, objects, workflow, history, clock, mishaps>>

-----------------------------------------------------------------------------
(* Deleting files *)

\* What is left to do when a process has no more files to delete.
After(j) == CASE j.op \in {"history", "prune", "cleanup"} -> "forget"
              [] OTHER -> "stop"
Finish(p, j) == IF After(j) = "stop" THEN Stop(p)
                ELSE Go(p, "forget", [j EXCEPT !.files = {}, !.at = Nothing])
Continue(p, j) == IF j.files = {} THEN Finish(p, j)
                  ELSE Go(p, "purge", [j EXCEPT !.at = Nothing])

\* ListCloudFilesByWorkflow, ListCloudFilesByHistory
ListFiles(p) ==
    LET j == job[p]
        S == {f \in Files : Live(f) /\ IF j.op = "workflow"
                                       THEN file[f].workflow = j.target
                                       ELSE file[f].history = j.target}
    IN
    /\ pc[p] = "list"
    /\ Continue(p, [j EXCEPT !.files = S])
    /\ UNCHANGED <<file, objects, workflow, history, clock, failures, mishaps>>

\* deleteStoredFile; removing an object that is not there succeeds.
DeleteStoredFile(p) ==
    /\ pc[p] = "purge"
    /\ \E f \in job[p].files :
           /\ objects' = objects \ {f}
           /\ Go(p, "mark", [job[p] EXCEPT !.files = @ \ {f}, !.at = f])
    /\ UNCHANGED <<file, workflow, history, clock, failures, mishaps>>

MarkCloudFileDeleted(p) ==
    /\ pc[p] = "mark"
    /\ file' = [file EXCEPT ![job[p].at].state = "deleted"]
    /\ Continue(p, job[p])
    /\ UNCHANGED <<objects, workflow, history, clock, failures, mishaps>>

\* DeleteGenerationHistory; the clean-up then takes its next history.
DeleteGenerationHistory(p) ==
    LET j == job[p] IN
    /\ pc[p] = "forget"
    /\ history' = [history EXCEPT ![j.target].state = "deleted", ![j.target].media = {}]
    /\ IF j.op = "cleanup" THEN Go(p, "batch", [j EXCEPT !.target = Nothing])
                           ELSE Stop(p)
    /\ UNCHANGED <<file, objects, workflow, clock, failures, mishaps>>

-----------------------------------------------------------------------------
(* The clean-up goroutine *)

\* The BatchSize oldest of the expired rows
Oldest(S, expires) ==
    {T \in SUBSET S :
        /\ Cardinality(T) = IF Cardinality(S) < BatchSize THEN Cardinality(S)
                                                          ELSE BatchSize
        /\ \A x \in T, y \in S \ T : expires[x] <= expires[y]}
HistoryExpires == [h \in Histories |-> history[h].expires]
FileExpires == [f \in Files |-> file[f].expires]

\* CleanupExpiredGenerationHistories
Wake ==
    /\ pc[Sweeper] = "idle"
    /\ \E Q \in Oldest({h \in Histories : /\ history[h].state = "live"
                                          /\ history[h].expires <= clock},
                       HistoryExpires) :
           Go(Sweeper, "batch", [NoJob EXCEPT !.op = "cleanup", !.queue = Q])
    /\ UNCHANGED <<file, objects, workflow, history, clock, failures, mishaps>>

NextHistory ==
    LET j == job[Sweeper] IN
    /\ pc[Sweeper] = "batch"
    /\ \E h \in j.queue :
           Go(Sweeper, "list", [j EXCEPT !.target = h, !.queue = @ \ {h}])
    /\ UNCHANGED <<file, objects, workflow, history, clock, failures, mishaps>>

\* Mutant: the files of histories are not listed.
ListLooseFiles ==
    /\ pc[Sweeper] = "batch" /\ job[Sweeper].queue = {}
    /\ \E S \in Oldest({f \in Files : Expired(f) /\ file[f].history = Nothing},
                       FileExpires) :
           Continue(Sweeper, [NoJob EXCEPT !.op = "sweep", !.files = S])
    /\ UNCHANGED <<file, objects, workflow, history, clock, failures, mishaps>>

\* CleanupExpiredCloudFiles
ListExpiredCloudFiles ==
    /\ pc[Sweeper] = "batch" /\ job[Sweeper].queue = {}
    /\ \E S \in Oldest({f \in Files : Expired(f)}, FileExpires) :
           Continue(Sweeper, [NoJob EXCEPT !.op = "sweep", !.files = S])
    /\ UNCHANGED <<file, objects, workflow, history, clock, failures, mishaps>>

-----------------------------------------------------------------------------
(* Failure and time *)

\* The storage refuses to delete an object, or the row cannot be marked.  The
\* sweep goes on to the next file, pruning ignores the error, the clean-up of
\* histories gives way to that of files; a request ends.
FailDelete(p) ==
    LET j == job[p]
        lost == IF pc[p] = "mark" THEN {j.at} ELSE {}
    IN
    /\ pc[p] \in {"purge", "mark"} /\ failures < MaxFailures
    /\ failures' = failures + 1
    /\ mishaps' = mishaps \cup Marks(lost, "unmarked")
                          \cup IF j.op = "workflow" THEN Marks(j.files \cup lost, "leaked")
                                                    ELSE {}
    /\ CASE j.op = "sweep" /\ pc[p] = "mark" -> Continue(p, j)
         [] j.op = "sweep" /\ pc[p] = "purge" ->
                \E f \in j.files : Continue(p, [j EXCEPT !.files = @ \ {f}])
         [] j.op = "prune" -> Finish(p, j)
         [] j.op = "cleanup" -> Go(p, "batch", [NoJob EXCEPT !.op = "cleanup"])
         [] OTHER -> Stop(p)
    /\ UNCHANGED <<file, objects, workflow, history, clock>>

\* The process stops before its next write: that write fails, the client is
\* gone, or the server is restarted.
Interrupt(p) ==
    LET j == job[p]
        lost == IF pc[p] = "mark" THEN {j.at} ELSE {}
        unlisted == {f \in Files : Live(f) /\ file[f].workflow = j.target}
    IN
    /\ pc[p] \notin {"idle", "done"} /\ failures < MaxFailures
    /\ failures' = failures + 1
    /\ mishaps' = mishaps
           \cup Marks(lost, "unmarked")
           \cup (IF pc[p] = "bind" THEN Marks(j.files, "unbound") ELSE {})
           \cup (IF j.op = "workflow"
                 THEN Marks(lost \cup IF pc[p] = "list" THEN unlisted ELSE j.files,
                            "leaked")
                 ELSE {})
    /\ Stop(p)
    /\ UNCHANGED <<file, objects, workflow, history, clock>>

Tick ==
    /\ clock < MaxClock
    /\ clock' = clock + 1
    /\ UNCHANGED <<file, objects, workflow, history, failures, pc, job, mishaps>>

-----------------------------------------------------------------------------
NoFile == [state |-> "none", workflow |-> Nothing, history |-> Nothing,
           expires |-> Never]

Init ==
    /\ file = [f \in Files |-> NoFile]
    /\ objects = {}
    /\ workflow = [w \in Workflows |-> [state |-> "none", cites |-> {}]]
    /\ history = [h \in Histories |-> NoHistory]
    /\ clock = 0 /\ failures = 0
    /\ pc = [p \in Processes |-> "idle"]
    /\ job = [p \in Processes |-> NoJob]
    /\ mishaps = {}

Begin(r) ==
    \/ \E w \in Workflows : UpdateWorkflow(r, w) \/ DeleteWorkflow(r, w)
    \/ \E h \in Histories : ReadMedia(r, h) \/ DeleteHistory(r, h) \/ PruneHistory(r, h)

Resume(r) ==
    \/ BindWorkflowCloudFiles(r) \/ SaveGenerationHistory(r) \/ BindCloudFiles(r)

Purge(p) ==
    \/ ListFiles(p) \/ DeleteStoredFile(p) \/ MarkCloudFileDeleted(p)
    \/ DeleteGenerationHistory(p)

Sweep == Wake \/ NextHistory \/ ListExpiredCloudFiles

Next ==
    \/ \E r \in Requests : Begin(r) \/ Resume(r)
    \/ \E p \in Processes : Purge(p) \/ FailDelete(p) \/ Interrupt(p)
    \/ \E f \in Files : StoreUserFile(f)
    \/ \E w \in Workflows : CreateWorkflow(w)
    \/ Sweep \/ Tick

Spec == Init /\ [][Next]_vars

\* A started request and a started clean-up go on, and the timer fires.
Work(p) == \/ p \in Requests /\ Resume(p)
           \/ p = Sweeper /\ Sweep
           \/ Purge(p)
FairSpec == Spec /\ \A p \in Processes : WF_vars(Work(p))
=============================================================================
