-------------------------- MODULE CloudFilesInvariant --------------------------
(* The inductive invariant behind the theorems of CloudFilesProofs.         *)
EXTENDS CloudFilesProperties

OwnsHistory == {"history", "prune", "cleanup"}

\* What a process does fits the state of the workflow or history it is about.
JobFits(p) ==
    LET j == job[p]
        w == j.target \in Workflows /\ workflow[j.target].state # "none"
        h == j.target \in Histories /\ history[j.target].state # "none"
    IN
    /\ pc[p] \in {"bind", "insert", "attach"} => p # Sweeper /\ j.op = Nothing
    /\ pc[p] = "bind" => w
    /\ pc[p] = "insert" => /\ j.target \in Histories /\ history[j.target].state = "none"
                           /\ j.expires \in Times
    /\ pc[p] = "attach" => h /\ j.expires \in Times
                             /\ history[j.target].expires = j.expires
    /\ pc[p] \in {"list", "purge", "mark"} /\ j.op = "workflow" =>
           w /\ workflow[j.target].state = "deleted"
    /\ pc[p] \in {"list", "purge", "mark", "forget"} /\ j.op \in OwnsHistory => h
    /\ pc[p] = "list" => j.op \in OwnsHistory \cup {"workflow"}
    /\ pc[p] = "forget" => j.op \in OwnsHistory
    /\ pc[p] \in {"purge", "mark"} => j.op \in Purges
    /\ pc[p] = "mark" => j.at \in Files
    /\ pc[p] = "purge" => j.at = Nothing
    /\ pc[p] = "batch" => p = Sweeper /\ j.op = "cleanup"
    /\ j.op = "cleanup" => /\ p = Sweeper
                           /\ \A x \in j.queue : /\ history[x].state # "none"
                                                 /\ history[x].expires <= clock
    /\ j.op = "cleanup" /\ pc[p] \in {"list", "purge", "mark", "forget"} =>
           history[j.target].expires <= clock
JobsFit == \A p \in Processes : JobFits(p)

OneInsertEach ==
    \A p, q \in Requests :
        p # q /\ pc[p] = "insert" /\ pc[q] = "insert" => job[p].target # job[q].target

\* A row names only what exists or existed; a file without a row names nothing.
RowsKnown ==
    \A f \in Files :
        /\ file[f].workflow # Nothing => workflow[file[f].workflow].state # "none"
        /\ file[f].history # Nothing => history[file[f].history].state # "none"
        /\ file[f].state = "none" => file[f] = NoFile

Inserted == \A h \in Histories : history[h].state # "none" => history[h].expires \in Times

\* The holder of a row, deleted or not: LifetimeFollowsHolder for every row.
HolderDecides ==
    \A f \in Files : file[f].state # "none" =>
        LET w == file[f].workflow
            h == file[f].history
        IN
        /\ w = Nothing <=> file[f].expires # Never
        /\ w # Nothing => h = Nothing
        /\ h # Nothing => file[f].expires = history[h].expires

InHand(p, f) == \/ pc[p] \in {"purge", "mark"} /\ f \in job[p].files
                \/ pc[p] = "mark" /\ f = job[p].at

\* What a process is about to delete may be deleted, or was bound meanwhile.
MayGo(p, f) ==
    \/ Had(f, "raced")
    \/ file[f].expires # Never /\ file[f].expires <= clock
    \/ file[f].workflow # Nothing /\ workflow[file[f].workflow].state = "deleted"
    \/ job[p].op \in {"history", "prune"} /\ job[p].target = file[f].history
InHandMayGo ==
    \A p \in Processes, f \in Files : InHand(p, f) => file[f].state # "none" /\ MayGo(p, f)

\* An object goes before its row does.
ObjectGoesFirst ==
    /\ \A f \in Files : file[f].state = "deleted" => f \notin objects
    /\ \A p \in Processes : pc[p] = "mark" => job[p].at \notin objects

\* Some request that deletes workflow w still has its file f before it.
Pursues(p, f, w) ==
    /\ job[p].op = "workflow" /\ job[p].target = w
    /\ \/ pc[p] = "list"
       \/ pc[p] = "purge" /\ f \in job[p].files
       \/ pc[p] = "mark" /\ f \in job[p].files \cup {job[p].at}

\* NothingLeaks, by the request that deletes the workflow: another that happens to
\* delete the file may give up without a trace.
OwnerPursues ==
    \A f \in Files :
        LET w == file[f].workflow IN
        /\ Live(f) /\ w # Nothing /\ workflow[w].state = "deleted"
        /\ ~Had(f, "late") /\ ~Had(f, "leaked")
        => \E p \in Processes : Pursues(p, f, w)

IInv == /\ TypeOK /\ JobsFit /\ OneInsertEach /\ RowsKnown /\ Inserted
        /\ HolderDecides /\ InHandMayGo /\ ObjectGoesFirst
        /\ BoundFilesStay /\ RowHasObject /\ OwnerPursues
=============================================================================
