---------------------------- MODULE WorkflowLibrary ----------------------------
(***************************************************************************)
(* The library of workflows: workflow-library-view.tsx with its cards, the *)
(* stores it shares with the canvas, and what the server does with works   *)
(* published in the community (PublishCommunityWorkflow and those after it *)
(* in service/workflow.go), which reads a post and later saves it whole.   *)
(* Meanwhile the user edits elsewhere, and an administrator bans.          *)
(***************************************************************************)
EXTENDS Integers, Sequences, FiniteSets, FiniteSetsExt

CONSTANTS
    Flows,        \* ids of workflows
    Linked,       \* those that follow a share
    Posts,        \* ids of community posts
    Names,        \* the titles a user may give
    MaxEditions,  \* bound: how often a workflow is edited elsewhere
    MaxJobs,      \* bound: requests about posts in flight
    MaxVisits     \* bound: things done at the page, and requests that fail

VARIABLES
    cloud,        \* the server's workflows
    posts,        \* workflow_community_posts
    credits,      \* whether the user may create one more
    place,        \* library, or left for another page
    section, filter, query,
    projects, picked,         \* the store's workflows; those that are ticked
    shelf, mine,        \* communityItems and myCommunityItems
    listing, browsing, renames, creation,
    run,          \* the deletion of several workflows
    publishing,   \* the workflow chosen in the dialog that publishes
    jobs,         \* requests that publish, sync or delete a post
    visits

narrowed == <<section, filter, query>>
shown == <<projects, picked>>
community == <<shelf, mine>>
requested == <<listing, browsing, renames, creation>>
libraryVars == <<cloud, posts, credits, place, narrowed, shown, community, requested, run, publishing, jobs, visits>>

NoFlow == [there |-> FALSE, edition |-> 0, name |-> "none"]
NoPost == [source |-> "none", edition |-> -1, locale |-> "zh", status |-> "none"]
NoRun == [at |-> "none", todo |-> {}, flow |-> "none", done |-> {}]
Visit == visits < MaxVisits /\ visits' = visits + 1
Here == place = "library"
Listed == {f \in Flows : projects[f].there}
Visible == {f \in Listed : filter = "all" \/ (filter = "linked" <=> f \in Linked)}
Live(p) == posts[p].status \in {"active", "banned"}
PostMatches(post, q) == post.status = "active" /\ (q = "" \/ post.locale = q)

------------------------------------------------------------------------------
(* Meanwhile *)

EditedElsewhere ==
    /\ \E f \in Flows :
          /\ cloud[f].there /\ cloud[f].edition < MaxEditions
          /\ cloud' = [cloud EXCEPT ![f].edition = @ + 1]
    /\ UNCHANGED <<posts, credits, place, narrowed, shown, community, requested, run, publishing, jobs>>

\* AdminBanCommunityWorkflow
BanPost ==
    /\ \E p \in Posts : posts[p].status = "active" /\ posts' = [posts EXCEPT ![p].status = "banned"]
    /\ UNCHANGED <<cloud, credits, place, narrowed, shown, community, requested, run, publishing, jobs>>

------------------------------------------------------------------------------
(* The workflows *)

ListServed ==
    /\ listing.at = "asked"
    /\ listing' = [at |-> "served", items |-> cloud]
    /\ UNCHANGED <<cloud, posts, credits, place, narrowed, shown, community, browsing, renames, creation, run, publishing, jobs, visits>>

\* setProjects: the list takes the place of the store's, or fails.
ListAnswered ==
    /\ listing.at = "served"
    /\ listing' = [at |-> "none", items |-> cloud]
    /\ projects' \in {listing.items, projects}
    /\ UNCHANGED <<cloud, posts, credits, place, narrowed, picked, community, browsing, renames, creation, run, publishing, jobs, visits>>

\* upsertProject
Upsert(f, flow) == projects' = [projects EXCEPT ![f] = flow]

\* The user has no credit left: prices or the identity check are shown instead.
ShowCreditsModal ==
    /\ ~credits /\ place' = "left"
    /\ UNCHANGED <<cloud, posts, credits, narrowed, shown, community, requested, run, publishing, jobs>>

CreateAndEnter ==
    /\ credits /\ creation = "none" /\ creation' = "naming"
    /\ UNCHANGED <<cloud, posts, credits, place, narrowed, shown, community, listing, browsing, renames, run, publishing, jobs>>

\* The dialog that asks for a name is answered or put away.
NameGiven ==
    /\ Here /\ creation = "naming" /\ creation' \in {"none", "asked"}
    /\ UNCHANGED <<cloud, posts, credits, place, narrowed, shown, community, listing, browsing, renames, run, publishing, jobs, visits>>

\* A new workflow takes the credit and is opened; or it cannot be made.
Created ==
    /\ creation = "asked" /\ creation' = "none"
    /\ \/ \E f \in Flows, n \in Names :
             /\ cloud[f] = NoFlow
             /\ cloud' = [cloud EXCEPT ![f] = [there |-> TRUE, edition |-> 0, name |-> n]]
             /\ Upsert(f, cloud'[f])
             /\ credits' = FALSE /\ place' = "left" /\ UNCHANGED visits
       \/ Visit /\ UNCHANGED <<cloud, credits, projects, place>>
    /\ UNCHANGED <<posts, narrowed, picked, community, listing, browsing, renames, run, publishing, jobs>>

\* renameProject sends the workflow as the list has it, with its new title.
RenameProject(f) ==
    /\ renames = {}
    /\ \E n \in Names \ {projects[f].name} :
          renames' = {[flow |-> f, carries |-> [projects[f] EXCEPT !.name = n], at |-> "asked"]}
    /\ UNCHANGED <<cloud, posts, credits, place, narrowed, shown, community, listing, browsing, creation, run, publishing, jobs>>

\* UpdateWorkflow keeps what is sent, whatever has been edited since the list was read, as
\* another edition: a post of the workflow is behind it from then on.
RenameServed ==
    \E r \in renames :
        /\ r.at = "asked"
        /\ IF cloud[r.flow].there
           THEN LET saved == [r.carries EXCEPT !.edition = cloud[r.flow].edition + 1]
                IN  /\ cloud' = [cloud EXCEPT ![r.flow] = saved]
                    /\ renames' = {[r EXCEPT !.at = "served", !.carries = saved]}
           ELSE renames' = {} /\ UNCHANGED cloud
        /\ UNCHANGED <<posts, credits, place, narrowed, shown, community, listing, browsing, creation, run, publishing, jobs, visits>>
RenameAnswered ==
    \E r \in renames :
        /\ r.at = "served" /\ renames' = {}
        /\ Upsert(r.flow, r.carries)
        /\ UNCHANGED <<cloud, posts, credits, place, narrowed, picked, community, listing, browsing, creation, run, publishing, jobs, visits>>

------------------------------------------------------------------------------
(* Deleting several *)

\* deleteProjects works on what is listed when it starts.
DeleteProjects(ids) ==
    /\ ids # {} /\ run = NoRun
    /\ run' = [at |-> "next", todo |-> ids \cap Listed, flow |-> "none", done |-> {}]
    /\ UNCHANGED <<cloud, posts, credits, place, narrowed, shown, community, requested, publishing, jobs>>

\* What has been deleted leaves the list and the ticked ones, however the run ended.
EndRun ==
    /\ run' = NoRun
    /\ projects' = [f \in Flows |-> IF f \in run.done THEN NoFlow ELSE projects[f]]
    /\ picked' = picked \ run.done

NextToDelete ==
    /\ run.at = "next"
    /\ IF run.todo = {} THEN EndRun
       ELSE \E f \in run.todo :
               /\ run' = [run EXCEPT !.at = "typing", !.flow = f, !.todo = @ \ {f}]
               /\ UNCHANGED shown
    /\ UNCHANGED <<cloud, posts, credits, place, narrowed, community, requested, publishing, jobs, visits>>

\* Mutant: a run that is broken off leaves the list as it was.
BreakOffEarly == run' = NoRun /\ UNCHANGED shown

BreakOff == EndRun

\* The name is typed, then the deletion is confirmed twice; putting a dialog away ends the run.
ConfirmDeletions ==
    /\ Here /\ run.at \in {"typing", "again", "last"}
    /\ \/ /\ run' = [run EXCEPT !.at = CASE @ = "typing" -> "again" [] @ = "again" -> "last" [] OTHER -> "asked"]
          /\ UNCHANGED shown
       \/ BreakOff
    /\ UNCHANGED <<cloud, posts, credits, place, narrowed, community, requested, publishing, jobs, visits>>

\* DeleteWorkflowWithInput; a failing request ends the run.
DeleteAnswered ==
    /\ run.at = "asked"
    /\ \/ /\ cloud[run.flow].there
          /\ cloud' = [cloud EXCEPT ![run.flow].there = FALSE]
          /\ run' = [run EXCEPT !.at = "next", !.done = @ \cup {run.flow}]
          /\ UNCHANGED <<shown, visits>>
       \/ ~cloud[run.flow].there /\ BreakOff /\ UNCHANGED <<cloud, visits>>
       \/ Visit /\ BreakOff /\ UNCHANGED cloud
    /\ UNCHANGED <<posts, credits, place, narrowed, community, requested, publishing, jobs>>

------------------------------------------------------------------------------
(* The community *)

Browse(q) == browsing' = IF browsing = {} THEN {[query |-> q, at |-> "asked", all |-> posts]} ELSE browsing

\* The effect asks again whenever the section is opened or the query changes.
OpenSection(s) ==
    /\ section # s /\ section' = s
    /\ IF s = "community" THEN browsing = {} /\ Browse(query) ELSE UNCHANGED browsing
    /\ UNCHANGED <<cloud, posts, credits, place, filter, query, shown, community, listing, renames, creation, run, publishing, jobs>>

BrowseServed ==
    \E b \in browsing :
        /\ b.at = "asked" /\ browsing' = {[b EXCEPT !.at = "served", !.all = posts]}
        /\ UNCHANGED <<cloud, posts, credits, place, narrowed, shown, community, listing, renames, creation, run, publishing, jobs, visits>>

\* Both lists take the place of those shown.
BrowseAnswered ==
    \E b \in browsing :
        /\ b.at = "served" /\ browsing' = {}
        /\ shelf' = [p \in Posts |-> IF PostMatches(b.all[p], b.query) THEN b.all[p] ELSE NoPost]
        /\ mine' = [p \in Posts |-> IF b.all[p].status \in {"active", "banned"} THEN b.all[p] ELSE NoPost]
        /\ UNCHANGED <<cloud, posts, credits, place, narrowed, shown, listing, renames, creation, run, publishing, jobs, visits>>

OpenPublish ==
    /\ publishing' = IF Listed = {} THEN "empty" ELSE CHOOSE f \in Listed : TRUE
    /\ UNCHANGED <<cloud, posts, credits, place, narrowed, shown, community, requested, run, jobs>>
PublishFields ==
    /\ publishing # "none"
    /\ publishing' \in (Listed \cup {"none"}) \ {publishing}
    /\ UNCHANGED <<cloud, posts, credits, place, narrowed, shown, community, requested, run, jobs>>

AskFor(job) == Cardinality(jobs) < MaxJobs /\ jobs' = jobs \cup {job}
\* A sync sends the name of the workflow, as it is listed, for a confirmation.
Job(kind, flow, post, locale) ==
    [kind |-> kind, flow |-> flow, post |-> post, locale |-> locale, at |-> "asked", row |-> NoPost,
     over |-> FALSE, name |-> IF kind = "sync" THEN projects[flow].name ELSE "none", no |-> visits]

\* The dialog stays open until the answer: the work may be sent twice.
PublishCommunity ==
    /\ publishing \in Flows
    /\ \E l \in {"zh", "en"} : AskFor(Job("publish", publishing, "new", l))
    /\ UNCHANGED <<cloud, posts, credits, place, narrowed, shown, community, requested, run, publishing>>

\* CommunityCard: a work whose workflow has changed since may be synced; it may be deleted.
CommunityCard ==
    /\ section = "community"
    /\ \E p \in Posts :
          \/ /\ mine[p].status = "active" /\ mine[p].source \in Listed
             /\ mine[p].edition # projects[mine[p].source].edition
             /\ AskFor(Job("sync", mine[p].source, p, mine[p].locale))
          \/ mine[p] # NoPost /\ AskFor(Job("delete", mine[p].source, p, mine[p].locale))
    /\ UNCHANGED <<cloud, posts, credits, place, narrowed, shown, community, requested, run, publishing>>

Gone(j) == jobs' = jobs \ {j}
OfJob(j, p) == IF j.kind = "publish" THEN Live(p) /\ posts[p].source = j.flow ELSE p = j.post /\ Live(p)

\* Mutant: an existing post is put up again.
RowPutUp(p) == [posts[p] EXCEPT !.status = "active"]

\* The row as it is read: what is saved later has its status (job.over remembers whether
\* it was banned then).
RowOf(p) == posts[p]
RowRead(j, p) ==
    [RowOf(p) EXCEPT !.edition = cloud[j.flow].edition,
                     !.locale = IF j.kind = "publish" THEN j.locale ELSE posts[p].locale]

\* A sync is refused when the workflow has been given another name.
Misnamed(j) == j.kind = "sync" /\ j.name # cloud[j.flow].name

\* PublishCommunityWorkflow and SyncCommunityWorkflow read the workflow and the post ...
PostRead(j) ==
    /\ j \in jobs /\ j.at = "asked" /\ j.kind # "delete"
    /\ LET found == {p \in Posts : OfJob(j, p)}
       IN  \/ /\ cloud[j.flow].there /\ found # {} /\ ~Misnamed(j)
              /\ \E p \in found :
                    /\ RowOf(p).status # "banned"
                    /\ jobs' = (jobs \ {j}) \cup {[j EXCEPT !.at = "read", !.post = p, !.over = (posts[p].status = "banned"),
                                    !.row = RowRead(j, p)]}
           \/ /\ cloud[j.flow].there /\ found = {} /\ j.kind = "publish"
              /\ \E p \in Posts :
                    /\ posts[p] = NoPost /\ \A other \in jobs : other.at = "asked" \/ other.post # p
                    /\ jobs' = (jobs \ {j}) \cup {[j EXCEPT !.at = "read", !.post = p,
                                    !.row = [source |-> j.flow, edition |-> cloud[j.flow].edition, locale |-> j.locale, status |-> "active"]]}
           \/ /\ ~cloud[j.flow].there \/ (\E p \in found : posts[p].status = "banned") \/ (found = {} /\ j.kind = "sync")
                 \/ Misnamed(j)
              /\ Gone(j)
    /\ UNCHANGED <<cloud, posts, credits, place, narrowed, shown, community, requested, run, publishing, visits>>

\* ... and save the row whole; DeleteCommunityWorkflow marks it alone.
PostSaved(j) ==
    /\ j \in jobs
    /\ \/ /\ j.at = "read" /\ posts' = [posts EXCEPT ![j.post] = j.row]
          /\ jobs' = (jobs \ {j}) \cup {[j EXCEPT !.at = "saved"]}
       \/ /\ j.at = "asked" /\ j.kind = "delete" /\ Live(j.post)
          /\ posts' = [posts EXCEPT ![j.post].status = "deleted"]
          /\ jobs' = (jobs \ {j}) \cup {[j EXCEPT !.at = "saved"]}
       \/ j.at = "asked" /\ j.kind = "delete" /\ ~Live(j.post) /\ Gone(j) /\ UNCHANGED posts
    /\ UNCHANGED <<cloud, credits, place, narrowed, shown, community, requested, run, publishing, visits>>

\* The lists follow: what was published is shown in both, whatever the query is; what was
\* synced is put where it is shown.
PutInPlace(items, p, row) == [items EXCEPT ![p] = IF @ = NoPost THEN @ ELSE row]
PostAnswered(j) ==
    /\ j \in jobs /\ j.at = "saved" /\ Gone(j)
    /\ CASE j.kind = "publish" -> /\ shelf' = [shelf EXCEPT ![j.post] = j.row]
                                  /\ mine' = [mine EXCEPT ![j.post] = j.row] /\ publishing' = "none"
         [] j.kind = "sync" -> /\ shelf' = PutInPlace(shelf, j.post, j.row) /\ mine' = PutInPlace(mine, j.post, j.row)
                               /\ UNCHANGED publishing
         [] OTHER -> /\ shelf' = [shelf EXCEPT ![j.post] = NoPost] /\ mine' = [mine EXCEPT ![j.post] = NoPost]
                     /\ UNCHANGED publishing
    /\ UNCHANGED <<cloud, posts, credits, place, narrowed, shown, requested, run, visits>>

------------------------------------------------------------------------------
(* The page *)

WorkflowControls ==
    \/ filter' \in {"all", "linked", "detached"} \ {filter}
       /\ UNCHANGED <<cloud, posts, credits, place, section, query, shown, community, requested, run, publishing, jobs>>
    \/ DeleteProjects(picked) \/ DeleteProjects(Visible)
    \/ CreateAndEnter \/ ShowCreditsModal

CommunityControls ==
    /\ section = "community"
    /\ \/ /\ query' \in {"", "zh"} \ {query} /\ browsing = {} /\ Browse(query')
          /\ UNCHANGED <<cloud, posts, credits, place, section, filter, shown, community, listing, renames, creation, run, publishing, jobs>>
       \/ OpenPublish

CanvasProjectCard(f) ==
    \/ RenameProject(f) \/ DeleteProjects({f})
    \/ /\ picked' = IF f \in picked THEN picked \ {f} ELSE picked \cup {f}
       /\ UNCHANGED <<cloud, posts, credits, place, narrowed, projects, community, requested, run, publishing, jobs>>
    \/ /\ place' = "left"
       /\ UNCHANGED <<cloud, posts, credits, narrowed, shown, community, requested, run, publishing, jobs>>

\* A dialog of a deletion, a creation or a publication lies over the page.
Covered == run.at \in {"typing", "again", "last"} \/ creation = "naming" \/ publishing # "none"
WorkflowSection == section # "community" /\ listing.at = "none" /\ \E f \in Visible : CanvasProjectCard(f)
CommunitySection == section = "community" /\ browsing = {} /\ CommunityCard

LibraryPage ==
    \/ \E s \in {"workflows", "community"} : OpenSection(s)
    \/ section # "community" /\ WorkflowControls
    \/ CommunityControls \/ WorkflowSection \/ CommunitySection

LibraryReplies ==
    \/ ListServed \/ ListAnswered \/ NameGiven \/ Created \/ RenameServed \/ RenameAnswered
    \/ NextToDelete \/ ConfirmDeletions \/ DeleteAnswered \/ BrowseServed \/ BrowseAnswered
    \/ \E j \in jobs : PostRead(j) \/ PostSaved(j) \/ PostAnswered(j)

\* The stores outlive the page: it may open with workflows that were listed, and ticked,
\* before.
LibraryInit ==
    /\ \E there \in SUBSET Flows :
          /\ credits = (there # Flows)
          /\ cloud = [f \in Flows |->
                IF f \in there THEN [there |-> TRUE, edition |-> 0, name |-> CHOOSE n \in Names : TRUE] ELSE NoFlow]
          /\ \E before \in SUBSET there :
                /\ projects = [f \in Flows |-> IF f \in before THEN cloud[f] ELSE NoFlow]
                /\ picked \in SUBSET before
    /\ posts = [p \in Posts |-> NoPost] /\ place = "library"
    /\ section = "workflows" /\ filter = "all" /\ query = ""
    /\ shelf = posts /\ mine = posts
    /\ listing = [at |-> "asked", items |-> cloud] /\ browsing = {} /\ renames = {} /\ creation = "none"
    /\ run = NoRun /\ publishing = "none" /\ jobs = {} /\ visits = 0

LibraryNext ==
    \/ Visit /\ (EditedElsewhere \/ BanPost)
    \/ Visit /\ Here /\ ~Covered /\ LibraryPage
    \/ Visit /\ Here /\ (PublishFields \/ PublishCommunity)
    \/ LibraryReplies

LibrarySpec == LibraryInit /\ [][LibraryNext]_libraryVars
=============================================================================
