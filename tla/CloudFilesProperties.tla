------------------------- MODULE CloudFilesProperties -------------------------
(* What the handling of stored files promises, but for its named mishaps.    *)
EXTENDS CloudFiles

\* Every variable stays in its domain.
TypeOK ==
    /\ file \in [Files -> [state : {"none", "live", "deleted"},
                           workflow : Workflows \cup {Nothing},
                           history : Histories \cup {Nothing},
                           expires : Times \cup {Never}]]
    /\ objects \in SUBSET Files
    /\ workflow \in [Workflows -> [state : {"none", "live", "deleted"},
                                   cites : SUBSET Files]]
    /\ history \in [Histories -> [state : {"none", "live", "deleted"},
                                  media : SUBSET Files, expires : Times \cup {Never}]]
    /\ clock \in 0 .. MaxClock /\ failures \in 0 .. MaxFailures
    /\ pc \in [Processes -> PCs]
    /\ job \in [Processes -> [op : Purges \cup {Nothing},
                              target : Workflows \cup Histories \cup {Nothing},
                              files : SUBSET Files, media : SUBSET Files,
                              at : Files \cup {Nothing}, expires : Times \cup {Never},
                              queue : SUBSET Histories]]
    /\ mishaps \subseteq Files \X Kinds

Had(f, what) == <<f, what>> \in mishaps

\* A file bound to a workflow that exists is there, row and object, unless it
\* was bound while something that had listed it before was about to delete it
\* (cloud_storage.go:559-578 lists, then deletes without looking again), or an
\* earlier deletion removed the object and failed to mark the row.
BoundFilesStay ==
    \A f \in Files :
        LET w == file[f].workflow IN
        /\ w # Nothing /\ workflow[w].state = "live"
        /\ ~Had(f, "raced") /\ ~Had(f, "unmarked")
        => Live(f) /\ f \in objects

\* A stored file is either a workflow's, and then permanent and no history's,
\* or temporary; and a file of a history expires with it.
LifetimeFollowsHolder ==
    \A f \in Files : Live(f) =>
        LET w == file[f].workflow
            h == file[f].history
        IN
        /\ w = Nothing <=> file[f].expires # Never
        /\ w # Nothing => h = Nothing
        /\ h # Nothing => file[f].expires = history[h].expires

\* Nothing but the deletion of its workflow ever deletes a permanent file: one
\* whose workflow is gone is being deleted by some request, unless it was bound
\* after that or the request gave up.
NothingLeaks ==
    \A f \in Files :
        LET w == file[f].workflow IN
        /\ Live(f) /\ w # Nothing /\ workflow[w].state = "deleted"
        /\ ~Had(f, "late") /\ ~Had(f, "leaked")
        => \E p \in Processes : \/ pc[p] = "list" /\ job[p].target = w
                                \/ pc[p] = "purge" /\ f \in job[p].files
                                \/ pc[p] = "mark" /\ f \in job[p].files \cup {job[p].at}

\* A row that can be read (GetFileContent) has its object, but for the moment
\* between the removal of the object and the mark, or when the mark failed.
RowHasObject ==
    \A f \in Files :
        Live(f) /\ f \notin objects /\ ~Had(f, "unmarked")
        => \E p \in Processes : pc[p] = "mark" /\ job[p].at = f

\* No step removes an object that is still wanted: the file has expired, its
\* workflow is gone, its history is being deleted, or it was raced.
DeletionHasReason ==
    [][\A f \in objects \ objects' :
        \/ Had(f, "raced")
        \/ Expired(f)
        \/ file[f].workflow # Nothing /\ workflow[file[f].workflow].state = "deleted"
        \/ \E p \in Processes : /\ job[p].op \in {"history", "prune"}
                                /\ job[p].target = file[f].history]_vars

\* Every expired file is deleted in the end, or bound again: the hourly batches
\* reach it although each takes the oldest rows only and some deletions fail.
ExpiredFilesGo == \A f \in Files : Expired(f) ~> ~Expired(f)

\* The files of a deleted workflow are deleted, unless they were bound after
\* that, the request gave up, or another workflow or history has them now.
WorkflowFilesGo ==
    \A f \in Files, w \in Workflows :
        Live(f) /\ file[f].workflow = w /\ workflow[w].state = "deleted"
        ~> ~Live(f) \/ file[f].workflow # w \/ Had(f, "late") \/ Had(f, "leaked")
=============================================================================
