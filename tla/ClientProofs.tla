----------------------------- MODULE ClientProofs -----------------------------
(***************************************************************************)
(* The pages of the web client keep ClientInvariant, for any number of     *)
(* workflows, posts, rows, pictures, questions, channels and requests in   *)
(* flight.                                                                 *)
(***************************************************************************)
EXTENDS ClientInvariant, FiniteSetTheorems, SequenceTheorems, WellFoundedInduction, TLAPS

------------------------------------------------------------------------------
(* The library of workflows *)

\* Most steps leave the posts alone and start no request about them, or end one.
Quiet == UNCHANGED posts /\ jobs' \subseteq jobs
\* Others start one.
Asks == UNCHANGED posts /\ \E kind, flow, post, locale : AskFor(Job(kind, flow, post, locale))

LEMMA LibraryOpens == LibraryInit => LibraryInvariant
<1>1. ASSUME LibraryInit PROVE posts = [p \in Posts |-> NoPost] /\ jobs = {}
  BY <1>1 DEF LibraryInit
<1>2. "status" \in DOMAIN NoPost BY DEF NoPost
<1> QED BY <1>1, <1>2 DEF LibraryInvariant

LEMMA QuietKeeps == LibraryInvariant /\ Quiet => LibraryInvariant'
BY DEF LibraryInvariant, Quiet

LEMMA AsksKeeps ==
    ASSUME LibraryInvariant, Asks
    PROVE  LibraryInvariant'
<1>1. PICK kind, flow, post, locale : AskFor(Job(kind, flow, post, locale)) BY DEF Asks
<1> DEFINE new == Job(kind, flow, post, locale)
<1>2. /\ {"at", "post", "row", "over"} \subseteq DOMAIN new
      /\ "status" \in DOMAIN new.row /\ ~new.over
  BY DEF Job, NoPost
<1>3. jobs' = jobs \cup {new} BY <1>1 DEF AskFor
<1> HIDE DEF new
<1>4. QED BY <1>2, <1>3 DEF LibraryInvariant, Asks

LEMMA BanKeeps == LibraryInvariant /\ BanPost => LibraryInvariant'
BY DEF LibraryInvariant, BanPost

\* A request that reads a post does not go on with a banned one.
LEMMA ReadKeeps ==
    ASSUME LibraryInvariant, NEW j \in jobs, PostRead(j)
    PROVE  LibraryInvariant'
<1>1. posts' = posts BY DEF PostRead
<1>2. CASE \E p \in Posts : \E row :
               /\ "status" \in DOMAIN row
               /\ jobs' = (jobs \ {j}) \cup {[j EXCEPT !.at = "read", !.post = p, !.over = FALSE, !.row = row]}
  <2>1. PICK p, row :
               /\ p \in Posts /\ "status" \in DOMAIN row
               /\ jobs' = (jobs \ {j}) \cup {[j EXCEPT !.at = "read", !.post = p, !.over = FALSE, !.row = row]}
    BY <1>2
  <2>2. {"at", "post", "row", "over"} \subseteq DOMAIN j BY DEF LibraryInvariant
  <2> DEFINE read == [j EXCEPT !.at = "read", !.post = p, !.over = FALSE, !.row = row]
  <2>3. /\ {"at", "post", "row", "over"} \subseteq DOMAIN read
        /\ read.row = row /\ read.over = FALSE
    BY <2>2
  <2> HIDE DEF read
  <2>4. QED BY <1>1, <2>1, <2>3 DEF LibraryInvariant, read
<1>3. CASE jobs' = jobs \ {j} BY <1>1, <1>3 DEF LibraryInvariant
<1>4. ASSUME NEW p \in Posts, RowOf(p).status # "banned",
             jobs' = (jobs \ {j}) \cup {[j EXCEPT !.at = "read", !.post = p, !.over = (posts[p].status = "banned"),
                         !.row = RowRead(j, p)]}
      PROVE  \E row : /\ "status" \in DOMAIN row
                      /\ jobs' = (jobs \ {j}) \cup {[j EXCEPT !.at = "read", !.post = p, !.over = FALSE, !.row = row]}
  <2>1. "status" \in DOMAIN RowRead(j, p) BY DEF LibraryInvariant, RowOf, RowRead
  <2>2. (posts[p].status = "banned") = FALSE BY <1>4 DEF RowOf
  <2>3. QED BY <1>4, <2>1, <2>2
<1>5. j.at = "asked" /\ {"at", "post", "row", "over"} \subseteq DOMAIN j /\ ~j.over
  <2>1. j.at = "asked" BY DEF PostRead
  <2>2. QED BY <2>1 DEF LibraryInvariant
<1>6. ASSUME NEW p \in Posts,
             jobs' = (jobs \ {j}) \cup {[j EXCEPT !.at = "read", !.post = p,
                         !.row = [source |-> j.flow, edition |-> cloud[j.flow].edition, locale |-> j.locale, status |-> "active"]]}
      PROVE  LibraryInvariant'
  <2> DEFINE row == [source |-> j.flow, edition |-> cloud[j.flow].edition, locale |-> j.locale, status |-> "active"]
             read == [j EXCEPT !.at = "read", !.post = p, !.row = row]
  <2>1. "status" \in DOMAIN row OBVIOUS
  <2> HIDE DEF row
  <2>2. /\ {"at", "post", "row", "over"} \subseteq DOMAIN read
        /\ read.row = row /\ ~read.over
    BY <1>5
  <2>3. jobs' = (jobs \ {j}) \cup {read} BY <1>6 DEF row
  <2> HIDE DEF read
  <2>4. QED BY <1>1, <2>1, <2>2, <2>3 DEF LibraryInvariant
<1>7. QED BY <1>2, <1>3, <1>4, <1>6 DEF PostRead, Gone

\* Saved rows have a status, and a saved request reads no more.
LEMMA SavedKeeps ==
    ASSUME LibraryInvariant, NEW j \in jobs, PostSaved(j)
    PROVE  LibraryInvariant'
BY DEF LibraryInvariant, PostSaved, Gone

\* An answer ends its request.
LEMMA AnsweredKeeps ==
    ASSUME LibraryInvariant, NEW j \in jobs, PostAnswered(j)
    PROVE  LibraryInvariant'
BY DEF LibraryInvariant, PostAnswered, Gone

\* Every step of the page is one of those.
LEMMA LibrarySteps ==
    ASSUME [LibraryNext]_libraryVars
    PROVE  \/ Quiet \/ Asks \/ BanPost
           \/ \E j \in jobs : PostRead(j) \/ PostSaved(j) \/ PostAnswered(j)
<1>1. CASE UNCHANGED libraryVars BY <1>1 DEF libraryVars, Quiet
<1>2. CASE EditedElsewhere BY <1>2 DEF EditedElsewhere, Quiet
<1>3. CASE LibraryPage
  <2>1. CASE \E s \in {"workflows", "community"} : OpenSection(s)
    BY <2>1 DEF OpenSection, Quiet
  <2>2. CASE WorkflowControls
    BY <2>2 DEF WorkflowControls, DeleteProjects, CreateAndEnter, ShowCreditsModal, Quiet
  <2>3. CASE CommunityControls
    BY <2>3 DEF CommunityControls, OpenPublish, Quiet
  <2>4. CASE \E f \in Visible : CanvasProjectCard(f)
    BY <2>4 DEF CanvasProjectCard, RenameProject, DeleteProjects, Quiet
  <2>5. CASE CommunityCard
    BY <2>5 DEF CommunityCard, Asks
  <2> QED BY <1>3, <2>1, <2>2, <2>3, <2>4, <2>5 DEF LibraryPage, WorkflowSection, CommunitySection
<1>4. CASE PublishFields BY <1>4 DEF PublishFields, Quiet
<1>5. CASE PublishCommunity BY <1>5 DEF PublishCommunity, Asks
<1>6. CASE ListServed \/ ListAnswered \/ NameGiven \/ Created \/ RenameServed \/ RenameAnswered
  BY <1>6 DEF ListServed, ListAnswered, NameGiven, Created, RenameServed, RenameAnswered, Quiet
<1>7. CASE NextToDelete \/ ConfirmDeletions \/ DeleteAnswered \/ BrowseServed \/ BrowseAnswered
  BY <1>7 DEF NextToDelete, ConfirmDeletions, DeleteAnswered, BrowseServed, BrowseAnswered, Quiet
<1> QED BY <1>1, <1>2, <1>3, <1>4, <1>5, <1>6, <1>7 DEF LibraryNext, LibraryReplies

LEMMA LibraryKeeps ==
    ASSUME LibraryInvariant, [LibraryNext]_libraryVars
    PROVE  LibraryInvariant'
BY LibrarySteps, QuietKeeps, AsksKeeps, BanKeeps, ReadKeeps, SavedKeeps, AnsweredKeeps

\* Only a saved row puts a work up again, and it was read when the work was not banned.
LEMMA OnlySaving ==
    ASSUME LibraryInvariant, [LibraryNext]_libraryVars, NEW p \in Posts,
           posts[p].status = "banned", posts'[p].status = "active"
    PROVE  \E j \in jobs : j.at = "read" /\ j.post = p /\ ~j.over
<1>1. posts' # posts OBVIOUS
<1>2. ~Quiet /\ ~Asks BY <1>1 DEF Quiet, Asks
<1>3. ~BanPost BY DEF BanPost, LibraryInvariant
<1>4. \A j \in jobs : ~PostRead(j) /\ ~PostAnswered(j) BY <1>1 DEF PostRead, PostAnswered
<1>5. PICK j \in jobs : PostSaved(j) BY <1>2, <1>3, <1>4, LibrarySteps
<1>6. CASE j.at = "read" /\ posts' = [posts EXCEPT ![j.post] = j.row]
  BY <1>6 DEF LibraryInvariant
<1>7. CASE posts' = [posts EXCEPT ![j.post].status = "deleted"]
  BY <1>7 DEF LibraryInvariant
<1> QED BY <1>1, <1>5, <1>6, <1>7 DEF PostSaved

\* Publishing and syncing never put a banned work up again (PublishCommunityWorkflow,
\* SyncCommunityWorkflow in workflow.go), but by saving what they read before the ban.
THEOREM BansStand == LibrarySpec => BansHold
<1>1. LibraryInit => LibraryInvariant BY LibraryOpens
<1>2. LibraryInvariant /\ [LibraryNext]_libraryVars => LibraryInvariant' BY LibraryKeeps
<1>3. LibraryInvariant /\ [LibraryNext]_libraryVars =>
          [\A p \in Posts : posts[p].status = "banned" /\ posts'[p].status = "active" =>
              \E j \in jobs : j.at = "read" /\ j.post = p /\ ~j.over]_libraryVars
  BY OnlySaving
<1> QED BY <1>1, <1>2, <1>3, PTL DEF LibrarySpec, BansHold

\* A run starts, goes on, or ends by taking what it has deleted off the page.
RunStarts == \E ids : run = NoRun /\ run' = [at |-> "next", todo |-> ids \cap Listed, flow |-> "none", done |-> {}]
RunTakes == \E f \in run.todo : run' = [run EXCEPT !.at = "typing", !.flow = f, !.todo = @ \ {f}]
RunMoves == run.at \in OneByOne /\ \E at \in {"again", "last", "asked"} : run' = [run EXCEPT !.at = at]
RunDeletes == run.at = "asked" /\ cloud[run.flow].there
              /\ run' = [run EXCEPT !.at = "next", !.done = @ \cup {run.flow}]

\* Nothing else changes it.
LEMMA RunSteps ==
    ASSUME RunInvariant, [LibraryNext]_libraryVars
    PROVE  UNCHANGED run \/ RunStarts \/ RunTakes \/ RunMoves \/ RunDeletes \/ EndRun
<1>1. CASE UNCHANGED libraryVars BY <1>1 DEF libraryVars
<1>2. CASE EditedElsewhere \/ BanPost BY <1>2 DEF EditedElsewhere, BanPost
<1>3. CASE LibraryPage
  <2>1. CASE \E s \in {"workflows", "community"} : OpenSection(s)
    BY <2>1 DEF OpenSection
  <2>2. CASE WorkflowControls
    BY <2>2 DEF WorkflowControls, DeleteProjects, CreateAndEnter, ShowCreditsModal, RunStarts
  <2>3. CASE CommunityControls
    BY <2>3 DEF CommunityControls, OpenPublish
  <2>4. CASE \E f \in Visible : CanvasProjectCard(f)
    BY <2>4 DEF CanvasProjectCard, RenameProject, DeleteProjects, RunStarts
  <2>5. CASE CommunityCard
    BY <2>5 DEF CommunityCard
  <2> QED BY <1>3, <2>1, <2>2, <2>3, <2>4, <2>5 DEF LibraryPage, WorkflowSection, CommunitySection
<1>4. CASE PublishFields \/ PublishCommunity BY <1>4 DEF PublishFields, PublishCommunity
<1>5. CASE ListServed \/ ListAnswered \/ NameGiven \/ Created \/ RenameServed \/ RenameAnswered
           \/ BrowseServed \/ BrowseAnswered
  BY <1>5 DEF ListServed, ListAnswered, NameGiven, Created, RenameServed, RenameAnswered,
              BrowseServed, BrowseAnswered
<1>6. CASE NextToDelete BY <1>6 DEF NextToDelete, RunTakes
<1>7. CASE ConfirmDeletions
  <2>1. CASE run' = [run EXCEPT !.at = CASE @ = "typing" -> "again" [] @ = "again" -> "last" [] OTHER -> "asked"]
    <3> DEFINE at == CASE run.at = "typing" -> "again" [] run.at = "again" -> "last" [] OTHER -> "asked"
    <3>1. at \in {"again", "last", "asked"} OBVIOUS
    <3>2. run' = [run EXCEPT !.at = at] BY <2>1 DEF RunInvariant
    <3>3. run.at \in OneByOne BY <1>7 DEF ConfirmDeletions, OneByOne
    <3> HIDE DEF at
    <3> QED BY <3>1, <3>2, <3>3 DEF RunMoves
  <2> QED BY <1>7, <2>1 DEF ConfirmDeletions, BreakOff
<1>8. CASE DeleteAnswered BY <1>8 DEF DeleteAnswered, BreakOff, RunDeletes
<1>9. CASE \E j \in jobs : PostRead(j) \/ PostSaved(j) \/ PostAnswered(j)
  BY <1>9 DEF PostRead, PostSaved, PostAnswered
<1> QED BY <1>1, <1>2, <1>3, <1>4, <1>5, <1>6, <1>7, <1>8, <1>9 DEF LibraryNext, LibraryReplies

LEMMA RunKeeps ==
    ASSUME RunInvariant, [LibraryNext]_libraryVars
    PROVE  RunInvariant'
<1>1. CASE RunStarts BY <1>1 DEF RunStarts, RunInvariant, Listed, OneByOne
<1>2. CASE RunTakes
  <2>1. PICK f \in run.todo : run' = [run EXCEPT !.at = "typing", !.flow = f, !.todo = @ \ {f}]
    BY <1>2 DEF RunTakes
  <2>2. f \in Flows BY DEF RunInvariant
  <2> QED BY <2>1, <2>2 DEF RunInvariant, OneByOne
<1>3. CASE RunMoves BY <1>3 DEF RunMoves, RunInvariant, OneByOne
<1>4. CASE RunDeletes
  <2>1. run.flow \in Flows BY <1>4 DEF RunDeletes, RunInvariant, OneByOne
  <2> DEFINE done == run.done \cup {run.flow}
  <2>2. done \in SUBSET Flows BY <2>1 DEF RunInvariant
  <2>3. run' = [run EXCEPT !.at = "next", !.done = done] BY <1>4 DEF RunDeletes
  <2> HIDE DEF done
  <2> QED BY <2>2, <2>3 DEF RunInvariant, OneByOne
<1>5. CASE EndRun BY <1>5 DEF EndRun, NoRun, RunInvariant, OneByOne
<1>6. CASE UNCHANGED run BY <1>6 DEF RunInvariant
<1> QED BY <1>1, <1>2, <1>3, <1>4, <1>5, <1>6, RunSteps

\* However the deletion of several workflows ends, the list of workflow-library-view.tsx
\* shows and ticks none of those it has deleted.
THEOREM RunsEndClean == LibrarySpec => RunsAreClean
<1>1. LibraryInit => RunInvariant
  <2>1. LibraryInit => run = NoRun BY DEF LibraryInit
  <2> QED BY <2>1 DEF NoRun, RunInvariant, OneByOne
<1>2. RunInvariant /\ [LibraryNext]_libraryVars => RunInvariant' BY RunKeeps
<1>3. ASSUME RunInvariant, [LibraryNext]_libraryVars, run # NoRun, run' = NoRun
      PROVE  \A f \in Flows : run.done \cap {f} = {} \/ (~projects'[f].there /\ f \notin picked')
  <2>1. ~RunStarts BY <1>3 DEF RunStarts
  <2>2. ~RunTakes /\ ~RunMoves /\ ~RunDeletes
    BY <1>3 DEF RunTakes, RunMoves, RunDeletes, RunInvariant, NoRun
  <2>3. EndRun BY <1>3, <2>1, <2>2, RunSteps
  <2> QED BY <2>3 DEF EndRun, NoFlow
<1>4. RunInvariant /\ [LibraryNext]_libraryVars =>
          [run # NoRun /\ run' = NoRun =>
              \A f \in Flows : run.done \cap {f} = {} \/ (~projects'[f].there /\ f \notin picked')]_libraryVars
  BY <1>3
<1> QED BY <1>1, <1>2, <1>4, PTL DEF LibrarySpec, RunsAreClean

------------------------------------------------------------------------------
(* The lists of the administration: what they are built from *)

\* Rows of the base are rows, and a row to be added is none.
LEMMA BaseIsListed == Base \subseteq Rows /\ New \notin Rows /\ New \notin Base /\ Rows \subseteq Nat
<1>1. Cardinality(Base) \in Nat /\ Base = 1 .. Cardinality(Base)
  BY ListsAssumption, FS_CardinalityType
<1> QED BY <1>1 DEF Rows, New

LEMMA BlankTyped == Blank \in FormFields /\ NoEditing \in [on : BOOLEAN, row : Rows \cup {New}]
BY DEF Blank, FormFields, NoEditing

\* A list is known by its domain and its values.
LEMMA IsList ==
    ASSUME NEW D \in SUBSET Rows, NEW f \in [D -> Row], \A r \in D : AtHome(r, f[r])
    PROVE  f \in Lists
BY DEF Lists

LEMMA ListValues ==
    ASSUME NEW f \in Lists
    PROVE  DOMAIN f \in SUBSET Rows /\ f \in [DOMAIN f -> Row] /\ \A r \in DOMAIN f : AtHome(r, f[r])
<1>1. PICK D \in SUBSET Rows : f \in [D -> Row] BY DEF Lists
<1>2. DOMAIN f = D BY <1>1
<1> QED BY <1>1, <1>2 DEF Lists

LEMMA EmptyList == <<>> \in Lists
<1>1. <<>> \in [{} -> Row]
  <2>1. <<>> = [x \in {} |-> x] OBVIOUS
  <2> QED BY <2>1
<1>2. {} \in SUBSET Rows OBVIOUS
<1> QED BY <1>1, <1>2, IsList

\* The server answers with rows of its own.
LEMMA ShownAreRows ==
    ASSUME RowsInvariant, NEW c
    PROVE  ShownRows(rows, c) \in Lists
<1> DEFINE D == {x \in Matches(rows, c) :
                    1 + Cardinality({q \in Matches(rows, c) : q < x}) \div PageSize = c.page}
<1>1. D \in SUBSET Rows BY DEF Matches
<1>2. ShownRows(rows, c) = [r \in D |-> rows[r]] BY DEF ShownRows
<1> HIDE DEF D
<1>3. [r \in D |-> rows[r]] \in [D -> Row] BY <1>1 DEF RowsInvariant
<1>4. \A r \in D : AtHome(r, [q \in D |-> rows[q]][r]) BY <1>1 DEF RowsInvariant
<1> QED BY <1>1, <1>2, <1>3, <1>4, IsList

LEMMA AskTyped ==
    ASSUME NEW c \in AllCriteria
    PROVE  Ask(c) \in Requests /\ Ask(c) \in Fetches
<1>1. PICK e \in Lists : e = <<>> BY EmptyList
<1>2. Ask(c) = [at |-> "asked", criteria |-> c, items |-> e] BY <1>1 DEF Ask
<1> QED BY <1>2 DEF Requests, Fetches, Stages

LEMMA NoFetchTyped == NoFetch \in Fetches
<1>1. PICK e \in Lists : e = <<>> BY EmptyList
<1>2. PICK c : c = <<>> OBVIOUS
<1>3. NoFetch = [at |-> "none", criteria |-> c, items |-> e] BY <1>1, <1>2 DEF NoFetch
<1> QED BY <1>3 DEF Fetches, Stages

LEMMA RemovedTyped ==
    ASSUME NEW s \in Seq(Requests), NEW k \in DOMAIN s
    PROVE  RemoveAt(s, k) \in Seq(Requests)
<1>1. k \in 1 .. Len(s) /\ Len(s) \in Nat OBVIOUS
<1>2. SubSeq(s, 1, k - 1) \in Seq(Requests) /\ SubSeq(s, k + 1, Len(s)) \in Seq(Requests)
  BY <1>1
<1> QED BY <1>2 DEF RemoveAt

------------------------------------------------------------------------------
(* Changes in flight *)

\* Going on does not change what a change saves, or has saved.
LEMMA MovedOn ==
    ASSUME NEW c \in AllChanges, c.at # "asked", NEW stage \in Stages, NEW w \in AllCriteria
    PROVE  /\ [c EXCEPT !.at = stage] \in AllChanges
           /\ [c EXCEPT !.at = stage, !.awaits = w] \in AllChanges
BY DEF AllChanges

LEMMA ReleasedTyped ==
    ASSUME NEW all \in SUBSET AllChanges, NEW c
    PROVE  Released(all, c) \subseteq AllChanges
<1>1. ASSUME NEW x \in all, x.at = "settling" PROVE [x EXCEPT !.at = "settled"] \in AllChanges
  <2>1. x.awaits \in AllCriteria BY DEF AllChanges
  <2> QED BY <1>1, <2>1, MovedOn DEF Stages
<1> QED BY <1>1 DEF Released

\* What is sent has the fields of the dialog, which are those of its row.
LEMMA MutateTyped ==
    ASSUME ChangesInvariant, DialogsInvariant, NEW kind \in ChangeKinds, NEW row \in Rows \cup {New},
           kind = "save" => row = editing.row, kind \in {"adjust", "delete", "ban"} => row \in Rows,
           Mutate(kind, row)
    PROVE  changes' \subseteq AllChanges
<1> DEFINE c == Change(kind, row)
<1>1. c = [kind |-> kind, row |-> row, fields |-> entered, ids |-> ticked, at |-> "asked",
            awaits |-> FirstPage, saved |-> Blank]
  BY DEF Change
<1>2. c \in [kind : ChangeKinds, row : Rows \cup {New}, fields : FormFields, ids : SUBSET Rows,
             at : Stages, awaits : AllCriteria, saved : Row \cup {Blank}]
  <2>1. FirstPage \in AllCriteria BY DEF FirstPage, AllCriteria
  <2> QED BY <1>1, <2>1 DEF DialogsInvariant, Stages
<1>3. c.kind = "save" /\ c.row \in Base => c.fields.of = c.row BY <1>1 DEF DialogsInvariant
<1>4. (c.kind \in {"adjust", "delete", "ban"} => c.row \in Rows) /\ c.at = "asked" BY <1>1
<1> HIDE DEF c
<1>5. c \in AllChanges BY <1>2, <1>3, <1>4 DEF AllChanges
<1> QED BY <1>5 DEF Mutate, ChangesInvariant, c

------------------------------------------------------------------------------
(* Steps that leave the rows alone *)

LEMMA RowsStay == ASSUME RowsInvariant, UNCHANGED rows PROVE RowsInvariant'
BY DEF RowsInvariant
LEMMA ListedStays == ASSUME ListedInvariant, UNCHANGED list PROVE ListedInvariant'
BY DEF ListedInvariant, list
LEMMA ChangesStay == ASSUME ChangesInvariant, changes' \subseteq AllChanges PROVE ChangesInvariant'
BY DEF ChangesInvariant
LEMMA DialogsStay == ASSUME DialogsInvariant, UNCHANGED dialogs PROVE DialogsInvariant'
BY DEF DialogsInvariant, dialogs

\* Requests for a list.
LEMMA InvalidateTyped ==
    ASSUME ListedInvariant
    PROVE  Invalidate(criteria) \in Fetches
BY AskTyped DEF Invalidate, ListedInvariant

\* A query that is left keeps its request and what it lists.
LEMMA LeaveTyped ==
    ASSUME ListedInvariant
    PROVE  LeaveQuery \subseteq LeftBehind
BY DEF LeaveQuery, LeftBehind, ListedInvariant

LEMMA FilterKeeps ==
    ASSUME ListsInvariant, FilterForm
    PROVE  ListsInvariant'
<1>1. Criteria = AllCriteria BY DEF Criteria, AllCriteria
<1>2. CASE \E next \in Criteria : UpdateFilters(next)
  <2>1. PICK next \in AllCriteria : UpdateFilters(next) BY <1>1, <1>2
  <2>2. LeaveQuery \subseteq LeftBehind BY LeaveTyped DEF ListsInvariant, ListedInvariant
  <2>3. Ask(next) \in Fetches /\ <<>> \in Lists BY <2>1, AskTyped, EmptyList
  <2>4. RowsInvariant' /\ DialogsInvariant' /\ ChangesInvariant'
    BY <2>1, RowsStay, DialogsStay, ChangesStay DEF UpdateFilters, ListsInvariant, ChangesInvariant
  <2>5. criteria' \in AllCriteria /\ loads' \in Seq(Requests)
    BY <2>1 DEF UpdateFilters, ListsInvariant, ListedInvariant
  <2>6. CASE LeftQueries(next) = {} /\ fetch' = Ask(next) /\ seen' = <<>> /\ known' = FALSE /\ left' = LeaveQuery
    BY <2>2, <2>3, <2>4, <2>5, <2>6 DEF ListsInvariant, ListedInvariant
  <2>7. CASE \E q \in left : fetch' = q.fetch /\ seen' = q.seen /\ known' = q.known /\ left' = LeaveQuery \ {q}
    <3>1. PICK q \in LeftBehind : fetch' = q.fetch /\ seen' = q.seen /\ known' = q.known /\ left' = LeaveQuery \ {q}
      BY <2>7 DEF ListsInvariant, ListedInvariant
    <3>2. fetch' \in Fetches /\ seen' \in Lists /\ known' \in BOOLEAN BY <3>1 DEF LeftBehind
    <3> QED BY <2>2, <2>4, <2>5, <3>1, <3>2 DEF ListsInvariant, ListedInvariant
  <2> QED BY <2>1, <2>6, <2>7 DEF UpdateFilters, LeftQueries
<1>3. CASE \E next \in Criteria : SearchCommunity(next)
  <2>1. PICK next \in AllCriteria : SearchCommunity(next) BY <1>1, <1>3
  <2>2. Ask(next) \in Requests BY AskTyped
  <2>3. loads' \in Seq(Requests) BY <2>1, <2>2 DEF SearchCommunity, Load, ListsInvariant, ListedInvariant
  <2>4. RowsInvariant' /\ DialogsInvariant' /\ ChangesInvariant'
    BY <2>1, RowsStay, DialogsStay, ChangesStay DEF SearchCommunity, ListsInvariant, ChangesInvariant
  <2>5. ListedInvariant' BY <2>1, <2>3 DEF SearchCommunity, ListsInvariant, ListedInvariant
  <2> QED BY <2>4, <2>5 DEF ListsInvariant
<1>4. CASE SearchAgain
  <2>1. criteria \in AllCriteria /\ criteria' \in AllCriteria
    BY <1>4 DEF SearchAgain, ListsInvariant, ListedInvariant, AllCriteria
  <2>2. Ask(criteria) \in Requests /\ Ask(criteria') \in Requests BY <2>1, AskTyped
  <2>3. loads' \in Seq(Requests) BY <1>4, <2>2 DEF SearchAgain
  <2>4. RowsInvariant' /\ DialogsInvariant' /\ ChangesInvariant'
    BY <1>4, RowsStay, DialogsStay, ChangesStay DEF SearchAgain, ListsInvariant, ChangesInvariant
  <2>5. ListedInvariant' BY <1>4, <2>1, <2>3 DEF SearchAgain, ListsInvariant, ListedInvariant
  <2> QED BY <2>4, <2>5 DEF ListsInvariant
<1> QED BY <1>2, <1>3, <1>4
        DEF FilterForm, UsersFilter, PromptsFilter, AssetsFilter, LogsFilter, QueryFilter, CommunityFilter

LEMMA ReloadKeeps ==
    ASSUME ListsInvariant, Reload
    PROVE  ListsInvariant'
<1>2. Invalidate(criteria) \in Fetches BY InvalidateTyped DEF ListsInvariant
<1>3. RowsInvariant' /\ DialogsInvariant'
  BY RowsStay, DialogsStay DEF Reload, Refetch, LoadItems, ListsInvariant
<1>4. ChangesInvariant'
  BY ChangesStay DEF Reload, Refetch, LoadItems, ListsInvariant, ChangesInvariant
<1>5. CASE LoadItems
  <2>1. Ask(criteria) \in Requests BY AskTyped DEF ListsInvariant, ListedInvariant
  <2>2. loads' \in Seq(Requests) BY <1>5, <2>1 DEF LoadItems, Load, ListsInvariant, ListedInvariant
  <2> QED BY <1>3, <1>4, <1>5, <2>2 DEF LoadItems, ListsInvariant, ListedInvariant
<1>6. CASE Refetch
  BY <1>2, <1>3, <1>4, <1>6 DEF Refetch, ListsInvariant, ListedInvariant
<1> QED BY <1>5, <1>6 DEF Reload

LEMMA FetchKeeps ==
    ASSUME ListsInvariant, FetchServed \/ FetchArrived \/ FetchFailed
    PROVE  ListsInvariant'
<1>1. \A c : Released(changes, c) \subseteq AllChanges BY ReleasedTyped DEF ListsInvariant, ChangesInvariant
<1>2. RowsInvariant' /\ DialogsInvariant'
  BY RowsStay, DialogsStay DEF FetchServed, FetchArrived, FetchFailed, ListsInvariant
<1>3. ChangesInvariant'
  BY <1>1, ChangesStay DEF FetchServed, FetchArrived, FetchFailed, ListsInvariant, ChangesInvariant
<1>4. CASE FetchServed
  <2> DEFINE answer == ShownRows(rows, fetch.criteria)
  <2>1. answer \in Lists BY ShownAreRows DEF ListsInvariant
  <2> HIDE DEF answer
  <2>2. fetch' = [fetch EXCEPT !.at = "served", !.items = answer] BY <1>4 DEF FetchServed, answer
  <2>3. fetch' \in Fetches
    BY <2>1, <2>2 DEF ListsInvariant, ListedInvariant, Fetches, Stages
  <2> QED BY <1>2, <1>3, <1>4, <2>3 DEF FetchServed, ListsInvariant, ListedInvariant
<1>5. CASE FetchArrived
  <2>1. seen' \in Lists /\ fetch' \in Fetches
    BY <1>5, NoFetchTyped DEF FetchArrived, ListsInvariant, ListedInvariant, Fetches
  <2> QED BY <1>2, <1>3, <1>5, <2>1 DEF FetchArrived, ListsInvariant, ListedInvariant
<1>6. CASE FetchFailed
  BY <1>2, <1>3, <1>6, NoFetchTyped DEF FetchFailed, ListsInvariant, ListedInvariant
<1> QED BY <1>4, <1>5, <1>6

LEMMA LeftKeeps ==
    ASSUME ListsInvariant, NEW q \in left, LeftServed(q) \/ LeftArrived(q) \/ LeftFailed(q)
    PROVE  ListsInvariant'
<1>1. \A c : Released(changes, c) \subseteq AllChanges BY ReleasedTyped DEF ListsInvariant, ChangesInvariant
<1>2. RowsInvariant' /\ DialogsInvariant'
  BY RowsStay, DialogsStay DEF LeftServed, LeftArrived, LeftFailed, LeftEnds, ListsInvariant
<1>3. ChangesInvariant'
  BY <1>1, ChangesStay DEF LeftServed, LeftArrived, LeftFailed, LeftEnds, ListsInvariant, ChangesInvariant
<1>4. CASE LeftServed(q)
  <2> DEFINE answer == ShownRows(rows, q.fetch.criteria)
             d == [q EXCEPT !.fetch.at = "served", !.fetch.items = answer]
             f == [q.fetch EXCEPT !.at = "served", !.items = answer]
  <2>1. answer \in Lists BY ShownAreRows DEF ListsInvariant
  <2>2. left' = (left \ {q}) \cup {d} BY <1>4 DEF LeftServed
  <2> HIDE DEF answer
  <2>3. q \in LeftBehind /\ q.fetch \in Fetches BY DEF ListsInvariant, ListedInvariant, LeftBehind
  <2>4. f \in Fetches BY <2>1, <2>3 DEF Fetches, Stages
  <2>5. d = [q EXCEPT !.fetch = f] BY <2>3 DEF LeftBehind, Fetches
  <2> HIDE DEF d, f
  <2>6. d \in LeftBehind BY <2>3, <2>4, <2>5 DEF LeftBehind
  <2> QED BY <1>2, <1>3, <1>4, <2>2, <2>6 DEF LeftServed, ListsInvariant, ListedInvariant
<1>5. CASE LeftArrived(q) \/ LeftFailed(q)
  BY <1>2, <1>3, <1>5 DEF LeftArrived, LeftFailed, LeftEnds, ListsInvariant, ListedInvariant
<1> QED BY <1>4, <1>5

LEMMA LoadKeeps ==
    ASSUME ListsInvariant, NEW k \in DOMAIN loads, LoadServed(k) \/ LoadArrived(k) \/ LoadFailed(k)
    PROVE  ListsInvariant'
<1>1. RowsInvariant' /\ DialogsInvariant' /\ ChangesInvariant'
  BY RowsStay, DialogsStay, ChangesStay
     DEF LoadServed, LoadArrived, LoadFailed, ListsInvariant, ChangesInvariant
<1>2. loads \in Seq(Requests) /\ loads[k] \in Requests BY DEF ListsInvariant, ListedInvariant
<1>3. RemoveAt(loads, k) \in Seq(Requests) BY <1>2, RemovedTyped
<1>4. CASE LoadServed(k)
  <2> DEFINE answer == ShownRows(rows, loads[k].criteria)
  <2>1. answer \in Lists BY ShownAreRows DEF ListsInvariant
  <2> HIDE DEF answer
  <2>2. loads' = [loads EXCEPT ![k].at = "served", ![k].items = answer] BY <1>4 DEF LoadServed, answer
  <2>3. [loads[k] EXCEPT !.at = "served", !.items = answer] \in Requests
    BY <1>2, <2>1 DEF Requests, Stages
  <2>4. loads' = [loads EXCEPT ![k] = [loads[k] EXCEPT !.at = "served", !.items = answer]]
    BY <1>2, <2>2
  <2>5. loads' \in Seq(Requests) BY <1>2, <2>3, <2>4
  <2> QED BY <1>1, <1>4, <2>5 DEF LoadServed, ListsInvariant, ListedInvariant
<1>5. CASE LoadArrived(k)
  <2>1. seen' \in Lists BY <1>2, <1>5 DEF LoadArrived, Requests
  <2> QED BY <1>1, <1>3, <1>5, <2>1 DEF LoadArrived, ListsInvariant, ListedInvariant
<1>6. CASE LoadFailed(k)
  BY <1>1, <1>3, <1>6 DEF LoadFailed, ListsInvariant, ListedInvariant
<1> QED BY <1>4, <1>5, <1>6

------------------------------------------------------------------------------
(* The dialogs *)

\* The form is filled with the details of the row that is opened.
LEMMA EditingKeeps ==
    ASSUME ListsInvariant, NEW r \in DOMAIN seen, SetEditing(r, seen[r])
    PROVE  ListsInvariant'
<1>1. r \in Rows /\ AtHome(r, seen[r])
  BY ListValues DEF ListsInvariant, ListedInvariant
<1>2. r # New BY <1>1, BaseIsListed
<1>3. entered' = [of |-> seen[r].of, edition |-> seen[r].edition] /\ editing' = [on |-> TRUE, row |-> r]
  BY <1>2 DEF SetEditing, FillForm, Details
<1>4. RowsInvariant' /\ ListedInvariant' /\ ChangesInvariant'
  BY RowsStay, ListedStays, ChangesStay DEF SetEditing, ListsInvariant, ChangesInvariant
<1>5. DialogsInvariant'
  BY <1>1, <1>3 DEF SetEditing, ListsInvariant, DialogsInvariant, AtHome, Row, FormFields
<1> QED BY <1>4, <1>5 DEF ListsInvariant

LEMMA AddingKeeps ==
    ASSUME ListsInvariant, SetEditing(New, Blank)
    PROVE  ListsInvariant'
<1>1. entered' \in FormFields /\ editing' = [on |-> TRUE, row |-> New]
  BY BlankTyped DEF SetEditing, FillForm, ListsInvariant, DialogsInvariant
<1>2. RowsInvariant' /\ ListedInvariant' /\ ChangesInvariant'
  BY RowsStay, ListedStays, ChangesStay DEF SetEditing, ListsInvariant, ChangesInvariant
<1>3. DialogsInvariant'
  BY <1>1, BaseIsListed DEF SetEditing, ListsInvariant, DialogsInvariant
<1> QED BY <1>2, <1>3 DEF ListsInvariant

LEMMA ButtonsKeep ==
    ASSUME ListsInvariant, RowButtons \/ AddButton \/ PlanGrid
    PROVE  ListsInvariant'
<1>1. CASE AddButton \/ PlanGrid BY <1>1, AddingKeeps DEF AddButton, PlanGrid
<1>2. ASSUME NEW r \in DOMAIN seen, SetRemoving(r) PROVE ListsInvariant'
  <2>1. r \in Rows BY ListValues DEF ListsInvariant, ListedInvariant
  <2>2. RowsInvariant' /\ ListedInvariant' /\ ChangesInvariant'
    BY <1>2, RowsStay, ListedStays, ChangesStay DEF SetRemoving, ListsInvariant, ChangesInvariant
  <2>3. DialogsInvariant' BY <1>2, <2>1 DEF SetRemoving, ListsInvariant, DialogsInvariant
  <2> QED BY <2>2, <2>3 DEF ListsInvariant
<1>3. ASSUME NEW r \in DOMAIN seen, Tick(r) PROVE ListsInvariant'
  <2>1. r \in Rows BY ListValues DEF ListsInvariant, ListedInvariant
  <2>2. RowsInvariant' /\ ListedInvariant' /\ ChangesInvariant'
    BY <1>3, RowsStay, ListedStays, ChangesStay DEF Tick, ListsInvariant, ChangesInvariant
  <2>3. DialogsInvariant' BY <1>3, <2>1 DEF Tick, ListsInvariant, DialogsInvariant
  <2> QED BY <2>2, <2>3 DEF ListsInvariant
<1>4. CASE RowButtons
  BY <1>2, <1>3, <1>4, EditingKeeps
     DEF RowButtons, UsersTable, PromptsTable, AssetsTable, CommunityTable, PlanCard
<1> QED BY <1>1, <1>4

LEMMA CancelKeeps ==
    ASSUME ListsInvariant, Cancel
    PROVE  ListsInvariant'
<1>1. RowsInvariant' /\ ListedInvariant' /\ ChangesInvariant'
  BY RowsStay, ListedStays, ChangesStay DEF Cancel, ListsInvariant, ChangesInvariant
<1>2. NoEditing.row \notin Base BY BaseIsListed DEF NoEditing
<1>3. DialogsInvariant'
  BY <1>2, BlankTyped DEF Cancel, ListsInvariant, DialogsInvariant
<1> QED BY <1>1, <1>3 DEF ListsInvariant

\* What is typed for a row stays about it.
LEMMA TypeKeeps ==
    ASSUME ListsInvariant, Type
    PROVE  ListsInvariant'
<1>1. RowsInvariant' /\ ListedInvariant' /\ ChangesInvariant'
  BY RowsStay, ListedStays, ChangesStay DEF Type, ListsInvariant, ChangesInvariant
<1>2. DialogsInvariant'
  BY BaseIsListed DEF Type, ListsInvariant, DialogsInvariant, FormFields, New
<1> QED BY <1>1, <1>2 DEF ListsInvariant

\* What sends a change.
Sends(kind, row) == Mutate(kind, row) /\ UNCHANGED <<rows, list, dialogs>>

LEMMA SendsKeep ==
    ASSUME ListsInvariant, NEW kind \in ChangeKinds, NEW row \in Rows \cup {New},
           kind = "save" => row = editing.row, kind \in {"adjust", "delete", "ban"} => row \in Rows,
           Sends(kind, row)
    PROVE  ListsInvariant'
BY MutateTyped, RowsStay, ListedStays, ChangesStay, DialogsStay DEF Sends, ListsInvariant

LEMMA SentKeeps ==
    ASSUME ListsInvariant, Save \/ Adjust \/ ConfirmRemoval \/ PromptTools
    PROVE  ListsInvariant'
<1>1. editing.row \in Rows \cup {New} /\ removing \in Rows \cup {0} /\ New = 0
  BY DEF ListsInvariant, DialogsInvariant, New
<1>2. CASE Save
  <2>1. Sends("save", editing.row) BY <1>2 DEF Save, Sends
  <2> QED BY <1>1, <2>1, SendsKeep DEF ChangeKinds
<1>3. CASE Adjust
  <2>1. Sends("adjust", editing.row) /\ editing.row \in Rows BY <1>1, <1>3 DEF Adjust, Sends
  <2> QED BY <1>1, <2>1, SendsKeep DEF ChangeKinds
<1>4. CASE ConfirmRemoval
  <2>1. PICK kind \in {"ban", "delete"} : Sends(kind, removing) /\ removing \in Rows
    BY <1>1, <1>4 DEF ConfirmRemoval, Sends
  <2> QED BY <1>1, <2>1, SendsKeep DEF ChangeKinds
<1>5. CASE \E kind \in {"category", "sync", "batch"} : Sends(kind, New)
  BY <1>5, SendsKeep DEF ChangeKinds
<1>6. CASE PromptTools /\ ~\E kind \in {"category", "sync", "batch"} : Sends(kind, New)
  <2>1. UNCHANGED <<rows, list, changes, editing, entered, removing, ticked>>
    BY <1>6 DEF PromptTools, CategorySwitch, SyncDialog, BatchDelete, Sends
  <2>2. RowsInvariant' /\ ListedInvariant' /\ ChangesInvariant'
    BY <2>1, RowsStay, ListedStays, ChangesStay DEF ListsInvariant, ChangesInvariant
  <2>3. DialogsInvariant' BY <2>1 DEF ListsInvariant, DialogsInvariant
  <2> QED BY <2>2, <2>3 DEF ListsInvariant
<1> QED BY <1>2, <1>3, <1>4, <1>5, <1>6

------------------------------------------------------------------------------
(* Changes are served and answered *)

\* A row keeps whose it is when the others of its fields are set.
LEMMA RowSet ==
    ASSUME NEW r \in Rows, NEW row \in Row, AtHome(r, row), NEW b \in BOOLEAN, NEW n \in Nat
    PROVE  /\ AtHome(r, [row EXCEPT !.there = b]) /\ AtHome(r, [row EXCEPT !.off = b])
           /\ AtHome(r, [row EXCEPT !.credits = n]) /\ AtHome(r, [row EXCEPT !.edition = n])
BY DEF AtHome, Row

\* The rows stay at home when one of them is replaced by a row at home.
LEMMA RowReplaced ==
    ASSUME RowsInvariant, NEW r \in Rows, NEW row, AtHome(r, row), rows' = [rows EXCEPT ![r] = row]
    PROVE  RowsInvariant'
BY DEF RowsInvariant, AtHome

LEMMA ElsewhereKeeps ==
    ASSUME ListsInvariant, EditElsewhere
    PROVE  ListsInvariant'
<1>1. PICK r \in Rows : \/ rows' = [rows EXCEPT ![r].edition = 1]
                        \/ rows' = [rows EXCEPT ![r].there = FALSE]
  BY DEF EditElsewhere
<1>2. rows[r] \in Row /\ AtHome(r, rows[r]) BY DEF ListsInvariant, RowsInvariant
<1>3. AtHome(r, [rows[r] EXCEPT !.edition = 1]) /\ AtHome(r, [rows[r] EXCEPT !.there = FALSE])
  BY <1>2, RowSet
<1>4. RowsInvariant' BY <1>1, <1>3, RowReplaced DEF ListsInvariant
<1>5. ListedInvariant' /\ ChangesInvariant' /\ DialogsInvariant'
  BY ListedStays, ChangesStay, DialogsStay DEF EditElsewhere, ListsInvariant, ChangesInvariant
<1> QED BY <1>4, <1>5 DEF ListsInvariant

LEMMA FailedKeeps ==
    ASSUME ListsInvariant, NEW c \in changes, ChangeFailed(c)
    PROVE  ListsInvariant'
BY RowsStay, ListedStays, ChangesStay, DialogsStay DEF ChangeFailed, ListsInvariant, ChangesInvariant

\* Whatever is served, the rows stay at home.
LEMMA ServedRows ==
    ASSUME ListsInvariant, NEW c \in changes, ChangeServed(c)
    PROVE  RowsInvariant'
<1> USE DEF ListsInvariant
<1>1. c \in AllChanges BY DEF ChangesInvariant
<1>2. CASE c.kind = "save"
  <2>1. PICK r \in Rows : /\ IF c.row = New THEN r \notin Base ELSE r = c.row
                          /\ rows' = Saved(c, r)
    BY <1>2 DEF ChangeServed
  <2> DEFINE row == [there |-> TRUE, of |-> c.fields.of, edition |-> c.fields.edition,
                     credits |-> IF rows[r].there THEN rows[r].credits ELSE 0, off |-> rows[r].there /\ rows[r].off]
  <2>2. rows' = [rows EXCEPT ![r] = row] BY <2>1 DEF Saved
  <2>3. rows[r] \in Row /\ c.fields \in FormFields BY <1>1 DEF RowsInvariant, AllChanges
  <2>4. row.there \in BOOLEAN /\ row.of \in Nat /\ row.edition \in Nat /\ row.credits \in Nat
    BY <2>3 DEF Row, FormFields
  <2>5. row.off \in BOOLEAN BY <2>3 DEF Row
  <2>6. row \in Row BY <2>4, <2>5 DEF Row
  <2>7. r \in Base => row.of = r BY <1>1, <1>2, <2>1 DEF AllChanges
  <2> HIDE DEF row
  <2>8. AtHome(r, row) BY <2>6, <2>7 DEF AtHome
  <2> QED BY <2>2, <2>8, RowReplaced
<1>3. CASE c.kind \in {"adjust", "delete", "ban"}
  <2>1. c.row \in Rows BY <1>1, <1>3 DEF AllChanges
  <2>2. rows[c.row] \in Row /\ AtHome(c.row, rows[c.row]) BY <2>1 DEF RowsInvariant
  <2>3. \/ rows' = [rows EXCEPT ![c.row].credits = 1] \/ rows' = [rows EXCEPT ![c.row].there = FALSE]
        \/ rows' = [rows EXCEPT ![c.row].off = TRUE]
    BY <1>3 DEF ChangeServed
  <2>4. /\ AtHome(c.row, [rows[c.row] EXCEPT !.credits = 1]) /\ AtHome(c.row, [rows[c.row] EXCEPT !.there = FALSE])
        /\ AtHome(c.row, [rows[c.row] EXCEPT !.off = TRUE])
    BY <2>1, <2>2, RowSet
  <2> QED BY <2>1, <2>3, <2>4, RowReplaced
<1>4. CASE c.kind = "batch"
  <2>1. rows' = [r \in Rows |-> [rows[r] EXCEPT !.there = @ /\ r \notin c.ids]] BY <1>4 DEF ChangeServed
  <2>2. ASSUME NEW r \in Rows PROVE AtHome(r, rows'[r])
    <3> DEFINE b == rows[r].there /\ r \notin c.ids
    <3>1. rows[r] \in Row /\ AtHome(r, rows[r]) /\ b \in BOOLEAN BY DEF RowsInvariant
    <3>2. rows'[r] = [rows[r] EXCEPT !.there = b] BY <2>1
    <3> HIDE DEF b
    <3> QED BY <3>1, <3>2, RowSet
  <2> QED BY <2>1, <2>2 DEF RowsInvariant, AtHome
<1>5. CASE c.kind = "category"
  <2>1. rows' = [r \in Rows |-> [rows[r] EXCEPT !.off = ~@]] BY <1>5 DEF ChangeServed
  <2>2. ASSUME NEW r \in Rows PROVE AtHome(r, rows'[r])
    <3> DEFINE b == ~rows[r].off
    <3>1. rows[r] \in Row /\ AtHome(r, rows[r]) /\ b \in BOOLEAN BY DEF RowsInvariant
    <3>2. rows'[r] = [rows[r] EXCEPT !.off = b] BY <2>1
    <3> HIDE DEF b
    <3> QED BY <3>1, <3>2, RowSet
  <2> QED BY <2>1, <2>2 DEF RowsInvariant, AtHome
<1>6. CASE c.kind = "sync"
  <2>1. rows' = [rows EXCEPT ![1].there = TRUE] BY <1>6 DEF ChangeServed
  <2>2. 1 \in Rows
    <3>1. Cardinality(Base) \in Nat BY ListsAssumption, FS_CardinalityType
    <3> QED BY <3>1 DEF Rows
  <2>3. rows[1] \in Row /\ AtHome(1, rows[1]) BY <2>2 DEF RowsInvariant
  <2>4. AtHome(1, [rows[1] EXCEPT !.there = TRUE]) BY <2>2, <2>3, RowSet
  <2> QED BY <2>1, <2>2, <2>4, RowReplaced
<1> QED BY <1>1, <1>2, <1>3, <1>4, <1>5, <1>6 DEF AllChanges, ChangeKinds

\* The answer to a change is the row it was about, as it is then.
LEMMA ServedKeeps ==
    ASSUME ListsInvariant, NEW c \in changes, ChangeServed(c)
    PROVE  ListsInvariant'
<1>1. RowsInvariant' BY ServedRows
<1>2. ListedInvariant' /\ DialogsInvariant'
  BY ListedStays, DialogsStay DEF ChangeServed, ListsInvariant
<1>3. c \in AllChanges BY DEF ListsInvariant, ChangesInvariant
<1> DEFINE answer == IF c.row = New THEN Blank ELSE rows'[c.row]
           d == [c EXCEPT !.at = "served", !.saved = answer]
<1>4. answer \in Row \cup {Blank} /\ (c.row \in Rows => AtHome(c.row, answer))
  BY <1>1, <1>3, BaseIsListed DEF RowsInvariant, AllChanges
<1>5. changes' = (changes \ {c}) \cup {d} BY DEF ChangeServed, Becomes
<1> HIDE DEF answer
<1>6. d \in AllChanges
  <2>1. d \in [kind : ChangeKinds, row : Rows \cup {New}, fields : FormFields, ids : SUBSET Rows,
               at : Stages, awaits : AllCriteria, saved : Row \cup {Blank}]
    BY <1>3, <1>4 DEF AllChanges, Stages
  <2>2. d.kind = c.kind /\ d.row = c.row /\ d.fields = c.fields /\ d.saved = answer
    BY <1>3 DEF AllChanges
  <2> HIDE DEF d
  <2> QED BY <1>3, <1>4, <2>1, <2>2 DEF AllChanges
<1> HIDE DEF d
<1>7. ChangesInvariant' BY <1>5, <1>6, ChangesStay DEF ListsInvariant, ChangesInvariant
<1> QED BY <1>1, <1>2, <1>7 DEF ListsInvariant

LEMMA AnsweredChangeKeeps ==
    ASSUME ListsInvariant, NEW c \in changes, ChangeAnswered(c)
    PROVE  ListsInvariant'
<1>1. c \in AllChanges /\ c.at = "served" BY DEF ListsInvariant, ChangesInvariant, ChangeAnswered
<1>2. criteria \in AllCriteria BY DEF ListsInvariant, ListedInvariant
<1>3. [c EXCEPT !.at = "settling", !.awaits = criteria] \in AllChanges /\ [c EXCEPT !.at = "settled"] \in AllChanges
  BY <1>1, <1>2, MovedOn DEF Stages
<1>4. ChangesInvariant'
  BY <1>3, ChangesStay DEF ChangeAnswered, Becomes, ListsInvariant, ChangesInvariant
<1>5. RowsInvariant' /\ DialogsInvariant'
  BY RowsStay, DialogsStay DEF ChangeAnswered, ListsInvariant
<1>6. Invalidate(criteria) \in Fetches BY InvalidateTyped DEF ListsInvariant
<1>7. ListedInvariant' BY <1>6 DEF ChangeAnswered, ListsInvariant, ListedInvariant
<1> QED BY <1>4, <1>5, <1>7 DEF ListsInvariant

\* The dialog goes on: an adjusted user is shown with the details that were answered, a
\* banned work is listed as it was answered.
LEMMA SettledKeeps ==
    ASSUME ListsInvariant, NEW c \in changes, Settled(c)
    PROVE  ListsInvariant'
<1>1. c \in AllChanges /\ c.at = "settled" BY DEF ListsInvariant, ChangesInvariant, Settled
<1>2. RowsInvariant' /\ ChangesInvariant'
  BY RowsStay, ChangesStay DEF Settled, ListsInvariant, ChangesInvariant
<1>3. c.row \in Rows => AtHome(c.row, c.saved) BY <1>1 DEF AllChanges
<1>4. CASE c.kind = "save"
  <2>1. Ask(criteria) \in Requests BY AskTyped DEF ListsInvariant, ListedInvariant
  <2>2. loads' \in Seq(Requests) BY <1>4, <2>1 DEF Settled, Load, ListsInvariant, ListedInvariant
  <2>3. ListedInvariant' BY <1>4, <2>2 DEF Settled, ListsInvariant, ListedInvariant
  <2>4. NoEditing.row \notin Base BY BaseIsListed DEF NoEditing
  <2>5. DialogsInvariant' BY <1>4, <2>4, BlankTyped DEF Settled, ListsInvariant, DialogsInvariant
  <2> QED BY <1>2, <2>3, <2>5 DEF ListsInvariant
<1>5. CASE c.kind = "adjust"
  <2>1. c.row \in Rows /\ c.row # New BY <1>1, <1>5, BaseIsListed DEF AllChanges
  <2>2. editing' = [on |-> TRUE, row |-> c.row] /\ entered' = [of |-> c.saved.of, edition |-> c.saved.edition]
    BY <1>5, <2>1 DEF Settled, FillForm, Details
  <2>3. DialogsInvariant'
    BY <1>3, <1>5, <2>1, <2>2 DEF Settled, ListsInvariant, DialogsInvariant, AtHome, Row, FormFields
  <2>4. ListedInvariant' BY <1>5 DEF Settled, ListsInvariant, ListedInvariant
  <2> QED BY <1>2, <2>3, <2>4 DEF ListsInvariant
<1>6. CASE c.kind \in {"delete", "batch", "sync", "category"}
  <2>1. DialogsInvariant' BY <1>6 DEF Settled, ListsInvariant, DialogsInvariant, dialogs
  <2>2. ListedInvariant' BY <1>6 DEF Settled, ListsInvariant, ListedInvariant
  <2> QED BY <1>2, <2>1, <2>2 DEF ListsInvariant
<1>7. CASE c.kind = "ban"
  <2>1. c.row \in Rows BY <1>1, <1>7 DEF AllChanges
  <2>2. seen' = [r \in DOMAIN seen |-> IF r = c.row THEN c.saved ELSE seen[r]]
    BY <1>7 DEF Settled
  <2>3. DOMAIN seen \in SUBSET Rows /\ \A r \in DOMAIN seen : AtHome(r, seen[r])
    BY ListValues DEF ListsInvariant, ListedInvariant
  <2>4. \A r \in DOMAIN seen : AtHome(r, seen'[r]) BY <1>3, <2>1, <2>2, <2>3
  <2>5. seen' \in [DOMAIN seen -> Row] BY <2>2, <2>4 DEF AtHome
  <2>6. seen' \in Lists BY <2>3, <2>4, <2>5, IsList
  <2>7. ListedInvariant' BY <1>7, <2>6 DEF Settled, ListsInvariant, ListedInvariant
  <2>8. DialogsInvariant' BY <1>7 DEF Settled, ListsInvariant, DialogsInvariant
  <2> QED BY <1>2, <2>7, <2>8 DEF ListsInvariant
<1> QED BY <1>1, <1>4, <1>5, <1>6, <1>7 DEF AllChanges, ChangeKinds

------------------------------------------------------------------------------
(* The lists *)

LEMMA ListsOpen == ASSUME ListsInit PROVE ListsInvariant
<1>1. RowsInvariant
  <2>1. rows = [r \in Rows |-> [there |-> r \in Base, of |-> r, edition |-> 0, credits |-> 0, off |-> FALSE]]
    BY DEF ListsInit
  <2>2. ASSUME NEW r \in Rows PROVE AtHome(r, rows[r])
    <3>1. r \in Nat BY BaseIsListed
    <3> DEFINE b == r \in Base
    <3>2. b \in BOOLEAN OBVIOUS
    <3>3. rows[r] = [there |-> b, of |-> r, edition |-> 0, credits |-> 0, off |-> FALSE] BY <2>1
    <3> HIDE DEF b
    <3> QED BY <3>1, <3>2, <3>3 DEF AtHome, Row
  <2> QED BY <2>1, <2>2 DEF RowsInvariant, AtHome
<1>2. ListedInvariant
  <2>1. criteria \in AllCriteria /\ seen \in Lists /\ left = {} /\ known = FALSE
    BY EmptyList DEF ListsInit, AllCriteria, FirstPage
  <2>2. Ask(criteria) \in Fetches /\ Ask(criteria) \in Requests /\ NoFetch \in Fetches
    BY <2>1, AskTyped, NoFetchTyped
  <2>3. fetch \in Fetches BY <2>2 DEF ListsInit
  <2>4. loads = <<>> \/ loads = <<Ask(criteria)>> BY DEF ListsInit
  <2> DEFINE first == Ask(criteria)
  <2> HIDE DEF first
  <2>5. <<>> \in Seq(Requests) /\ <<first>> \in Seq(Requests) BY <2>2 DEF first
  <2>6. loads \in Seq(Requests) BY <2>4, <2>5 DEF first
  <2> QED BY <2>1, <2>3, <2>6 DEF ListedInvariant
<1>3. ChangesInvariant BY DEF ListsInit, ChangesInvariant
<1>4. DialogsInvariant
  BY BlankTyped, BaseIsListed DEF ListsInit, DialogsInvariant, NoEditing, New
<1> QED BY <1>1, <1>2, <1>3, <1>4 DEF ListsInvariant

LEMMA ListsKeep ==
    ASSUME ListsInvariant, [ListsNext]_listVars
    PROVE  ListsInvariant'
<1>1. CASE UNCHANGED listVars
  BY <1>1, RowsStay, ListedStays, ChangesStay, DialogsStay DEF listVars, ListsInvariant, ChangesInvariant
<1>2. CASE FilterForm \/ Reload \/ RowButtons \/ AddButton \/ PlanGrid \/ Cancel
  BY <1>2, FilterKeeps, ReloadKeeps, ButtonsKeep, CancelKeeps
<1>3. CASE UserDialog \/ PromptDialog \/ AssetDialog \/ PlanEditorModal \/ ConfirmRemoval \/ PromptTools
  BY <1>3, TypeKeeps, SentKeeps DEF UserDialog, PromptDialog, AssetDialog, PlanEditorModal
<1>4. CASE EditElsewhere BY <1>4, ElsewhereKeeps
<1>5. CASE FetchServed \/ FetchArrived \/ FetchFailed BY <1>5, FetchKeeps
<1>6. CASE \E k \in DOMAIN loads : LoadServed(k) \/ LoadArrived(k) \/ LoadFailed(k) BY <1>6, LoadKeeps
<1>7. CASE \E q \in left : LeftServed(q) \/ LeftArrived(q) \/ LeftFailed(q) BY <1>7, LeftKeeps
<1>8. CASE \E c \in changes : ChangeFailed(c) \/ ChangeServed(c) \/ ChangeAnswered(c) \/ Settled(c)
  BY <1>8, FailedKeeps, ServedKeeps, AnsweredChangeKeeps, SettledKeeps
<1> QED BY <1>1, <1>2, <1>3, <1>4, <1>5, <1>6, <1>7, <1>8 DEF ListsNext, ListReplies

\* No answer, cancellation or second click makes a dialog of the administration save the
\* details of one user, prompt or plan over another (the effects that fill the forms in
\* admin/users, prompts and plans).
THEOREM DetailsKeptHome == ListsSpec => []DetailsStayHome
<1>1. ListsInit => ListsInvariant BY ListsOpen
<1>2. ListsInvariant /\ [ListsNext]_listVars => ListsInvariant' BY ListsKeep
<1>3. ListsInvariant => DetailsStayHome
  BY BaseIsListed DEF ListsInvariant, RowsInvariant, AtHome, DetailsStayHome
<1> QED BY <1>1, <1>2, <1>3, PTL DEF ListsSpec

------------------------------------------------------------------------------
(* The workbenches *)

\* Cards that wait in the queue are cards that did; the slots are the same, or gone.
CardsFade ==
    \A i \in DOMAIN results' :
        /\ CardFields \subseteq DOMAIN results'[i]
        /\ results'[i].status = "queued" =>
              /\ i \in DOMAIN results /\ results[i].status = "queued"
              /\ results'[i].task = results[i].task
BatchGoesOn ==
    \/ batch' = batch
    \/ batch' = Idle
    \/ Running /\ batch' = [batch EXCEPT !.phase = "listing"]

LEMMA FadingKeeps ==
    ASSUME StudioInvariant, UNCHANGED bench, CardsFade, BatchGoesOn
    PROVE  StudioInvariant'
<1>1. CASE batch' = Idle
  <2>1. ~Running' /\ DOMAIN Idle = {"phase", "prompt", "references", "token", "slots"}
        /\ DOMAIN Idle.slots = {}
    BY <1>1 DEF Running, Idle
  <2> QED BY <1>1, <2>1 DEF StudioInvariant, CancelsItsOwn, CardsFade, BatchSlots
<1>2. CASE batch' # Idle
  <2>1. Running' => Running
    BY <1>2 DEF BatchGoesOn, Running
  <2>2. batch'.slots = batch.slots /\ DOMAIN batch' = DOMAIN batch
    <3>1. "slots" \in DOMAIN batch BY DEF StudioInvariant
    <3>2. CASE batch' = batch BY <3>2
    <3>3. CASE batch' = [batch EXCEPT !.phase = "listing"] BY <3>1, <3>3
    <3> QED BY <1>2, <3>2, <3>3 DEF BatchGoesOn
  <2> QED BY <2>1, <2>2 DEF StudioInvariant, CancelsItsOwn, CardsFade, BatchSlots
<1> QED BY <1>1, <1>2

\* The new cards of a batch wait for nothing yet.
LEMMA WaitingKeeps ==
    ASSUME StudioInvariant, UNCHANGED bench, NEW n, WaitingCards(n)
    PROVE  StudioInvariant'
<1>1. /\ batch' = [phase |-> "running", prompt |-> prompt, references |-> references,
                   token |-> session, slots |-> [i \in 1 .. n |-> Asked]]
      /\ IF bench = "model3d" THEN UNCHANGED results
         ELSE results' = [i \in 1 .. n |-> Card("pending")]
  BY DEF WaitingCards, Replace
<1>2. SlotFields \subseteq DOMAIN Asked BY DEF Asked, SlotFields
<1>3. CardFields \subseteq DOMAIN Card("pending") /\ Card("pending").status = "pending"
  BY DEF Card, CardFields
<1>4. /\ {"phase", "prompt", "slots"} \subseteq DOMAIN batch'
      /\ \A i \in BatchSlots' : SlotFields \subseteq DOMAIN batch'.slots[i]
  BY <1>1, <1>2 DEF BatchSlots
<1>5. \A i \in DOMAIN results' : CardFields \subseteq DOMAIN results'[i]
  BY <1>1, <1>3 DEF StudioInvariant
<1>6. CancelsItsOwn' BY <1>1, <1>3 DEF CancelsItsOwn
<1> QED BY <1>4, <1>5, <1>6 DEF StudioInvariant

\* What is shown of a slot that moves on.
Shown(i, slot) ==
    \/ results' = results /\ slot.task = batch.slots[i].task
    \/ /\ bench = "image"
       /\ \E status, item :
             results' = UpdateResultAt(results, i, [status |-> status, task |-> slot.task, item |-> item])
    \/ bench # "image" /\ results' = results
    \/ /\ bench # "image"
       /\ \E status, item : results' = <<[status |-> status, task |-> 0, item |-> item]>>

LEMMA ReportShows ==
    ASSUME NEW i, NEW status, NEW slot, Report(i, status, slot)
    PROVE  Shown(i, slot)
<1>1. CASE bench = "image" /\ ImageReport(i, status, slot)
  BY <1>1 DEF ImageReport, Shown
<1>2. CASE bench = "video" /\ VideoReport(status, slot)
  <2>1. bench # "image" BY <1>2
  <2>2. CASE status \in {"success", "failed"}
    <3>1. results' = <<[status |-> status, task |-> 0, item |-> slot.item]>>
      BY <1>2, <2>2 DEF VideoReport, Replace
    <3> QED BY <2>1, <3>1 DEF Shown
  <2>3. CASE status \notin {"success", "failed"}
    BY <1>2, <2>1, <2>3 DEF VideoReport, Shown
  <2> QED BY <2>2, <2>3
<1>3. CASE bench = "model3d" /\ ModelReport(status, slot)
  <2>1. bench # "image" BY <1>3
  <2>2. CASE status = "success"
    <3>1. results' = <<[status |-> "success", task |-> 0, item |-> slot.item]>>
      BY <1>3, <2>2 DEF ModelReport, Replace, Pictured
    <3> QED BY <2>1, <3>1 DEF Shown
  <2>3. CASE status # "success"
    BY <1>3, <2>1, <2>3 DEF ModelReport, Shown
  <2> QED BY <2>2, <2>3
<1> QED BY <1>1, <1>2, <1>3 DEF Report

LEMMA PutKeeps ==
    ASSUME StudioInvariant, UNCHANGED bench, NEW i \in BatchSlots, Running,
           NEW slot, SlotFields \subseteq DOMAIN slot, Put(i, slot), Shown(i, slot)
    PROVE  StudioInvariant'
<1> DEFINE b == [batch EXCEPT !.slots[i] = slot]
<1>1. \/ batch' = Idle \/ batch' = b \/ batch' = [b EXCEPT !.phase = "saving"]
  BY DEF Put
<1>2. /\ DOMAIN b = DOMAIN batch /\ b.slots = [batch.slots EXCEPT ![i] = slot]
  BY DEF StudioInvariant
<1> HIDE DEF b
<1>3. \A k \in DOMAIN results' : CardFields \subseteq DOMAIN results'[k]
  <2>1. CASE results' = results BY <2>1 DEF StudioInvariant
  <2>2. ASSUME NEW status, NEW item,
               results' = UpdateResultAt(results, i, [status |-> status, task |-> slot.task, item |-> item])
        PROVE  \A k \in DOMAIN results' : CardFields \subseteq DOMAIN results'[k]
    <3> DEFINE card == [status |-> status, task |-> slot.task, item |-> item]
    <3>1. CardFields \subseteq DOMAIN card BY DEF CardFields
    <3> HIDE DEF card
    <3>2. results' = [k \in DOMAIN results |-> IF k = i THEN card ELSE results[k]]
      BY <2>2 DEF UpdateResultAt, card
    <3> QED BY <3>1, <3>2 DEF StudioInvariant
  <2>3. ASSUME NEW status, NEW item,
               results' = <<[status |-> status, task |-> 0, item |-> item]>>
        PROVE  \A k \in DOMAIN results' : CardFields \subseteq DOMAIN results'[k]
    <3> DEFINE card == [status |-> status, task |-> 0, item |-> item]
    <3>1. CardFields \subseteq DOMAIN card BY DEF CardFields
    <3> HIDE DEF card
    <3>2. results' = <<card>> BY <2>3 DEF card
    <3> QED BY <3>1, <3>2
  <2> QED BY <2>1, <2>2, <2>3 DEF Shown
<1>4. CASE batch' = Idle
  <2>1. ~Running' /\ {"phase", "prompt", "slots"} \subseteq DOMAIN Idle /\ DOMAIN Idle.slots = {}
    BY <1>4 DEF Running, Idle
  <2> QED BY <1>3, <1>4, <2>1 DEF StudioInvariant, CancelsItsOwn, BatchSlots
<1>5. CASE batch' # Idle
  <2>1. DOMAIN batch' = DOMAIN batch /\ batch'.slots = [batch.slots EXCEPT ![i] = slot]
    <3>1. "slots" \in DOMAIN b BY <1>2 DEF StudioInvariant
    <3>2. CASE batch' = b BY <1>2, <3>2
    <3>3. CASE batch' = [b EXCEPT !.phase = "saving"] BY <1>2, <3>1, <3>3
    <3> QED BY <1>1, <1>5, <3>2, <3>3
  <2>2. \A k \in BatchSlots : batch'.slots[k] = IF k = i THEN slot ELSE batch.slots[k]
    BY <2>1 DEF BatchSlots
  <2>3. BatchSlots' = BatchSlots BY <2>1 DEF BatchSlots
  <2>4. CancelsItsOwn'
    <3>1. SUFFICES ASSUME bench = "image", NEW k \in DOMAIN results', results'[k].status = "queued"
                   PROVE  k \in BatchSlots /\ results'[k].task = batch'.slots[k].task
      BY <2>3 DEF CancelsItsOwn
    <3>2. CASE results' = results /\ slot.task = batch.slots[i].task
      BY <2>2, <3>1, <3>2 DEF StudioInvariant, CancelsItsOwn
    <3>3. ASSUME NEW status, NEW item,
                 results' = UpdateResultAt(results, i, [status |-> status, task |-> slot.task, item |-> item])
          PROVE  k \in BatchSlots /\ results'[k].task = batch'.slots[k].task
      <4> DEFINE card == [status |-> status, task |-> slot.task, item |-> item]
      <4>1. card.task = slot.task OBVIOUS
      <4> HIDE DEF card
      <4>2. results' = [n \in DOMAIN results |-> IF n = i THEN card ELSE results[n]]
        BY <3>3 DEF UpdateResultAt, card
      <4>3. k \in DOMAIN results /\ results'[k] = IF k = i THEN card ELSE results[k]
        BY <3>1, <4>2
      <4>4. CASE k = i BY <2>2, <4>1, <4>3, <4>4
      <4>5. CASE k # i
        BY <2>2, <3>1, <4>3, <4>5 DEF StudioInvariant, CancelsItsOwn
      <4> QED BY <4>4, <4>5
    <3> QED BY <3>1, <3>2, <3>3 DEF Shown
  <2> QED BY <1>3, <2>1, <2>2, <2>3, <2>4 DEF StudioInvariant
<1> QED BY <1>4, <1>5

LEMMA AnsweredSlotKeeps ==
    ASSUME StudioInvariant, NEW i, SlotAnswered(i)
    PROVE  StudioInvariant'
<1>1. /\ i \in BatchSlots /\ Running /\ UNCHANGED bench
  BY DEF SlotAnswered, At, Running, sameButBatch
<1>2. SlotFields \subseteq DOMAIN Asked BY DEF Asked, SlotFields
<1>3. ASSUME Ended(i, [Asked EXCEPT !.at = "done", !.item = made']) PROVE StudioInvariant'
  <2> DEFINE slot == [Asked EXCEPT !.at = "done", !.item = made']
  <2>1. SlotFields \subseteq DOMAIN slot BY <1>2
  <2> HIDE DEF slot
  <2>2. Put(i, slot) /\ Shown(i, slot) BY <1>3, ReportShows DEF Ended, slot
  <2> QED BY <1>1, <2>1, <2>2, PutKeeps
<1>4. ASSUME NEW t, Put(i, [Asked EXCEPT !.at = "waiting", !.task = t]),
             Report(i, "queued", [Asked EXCEPT !.at = "waiting", !.task = t])
      PROVE  StudioInvariant'
  <2> DEFINE slot == [Asked EXCEPT !.at = "waiting", !.task = t]
  <2>1. SlotFields \subseteq DOMAIN slot BY <1>2
  <2> HIDE DEF slot
  <2>2. Put(i, slot) /\ Shown(i, slot) BY <1>4, ReportShows DEF slot
  <2> QED BY <1>1, <2>1, <2>2, PutKeeps
<1>5. ASSUME SlotFails(i) PROVE StudioInvariant'
  <2> DEFINE slot == [batch.slots[i] EXCEPT !.at = "failed"]
  <2>1. SlotFields \subseteq DOMAIN slot BY <1>1 DEF StudioInvariant
  <2> HIDE DEF slot
  <2>2. Put(i, slot) /\ Shown(i, slot) BY <1>5, ReportShows DEF SlotFails, Ended, slot
  <2> QED BY <1>1, <2>1, <2>2, PutKeeps
<1> QED BY <1>3, <1>4, <1>5 DEF SlotAnswered

LEMMA PollKeeps ==
    ASSUME StudioInvariant, NEW i, Poll(i)
    PROVE  StudioInvariant'
<1>1. i \in BatchSlots /\ Running /\ UNCHANGED <<bench, results>>
  BY DEF Poll, At, Running, sameButBatch
<1> DEFINE slot == [batch.slots[i] EXCEPT !.at = "polling", !.seen = tasks[batch.slots[i].task]]
<1>2. SlotFields \subseteq DOMAIN slot /\ slot.task = batch.slots[i].task
  BY <1>1 DEF StudioInvariant, SlotFields
<1>3. Put(i, slot) BY DEF Poll
<1> HIDE DEF slot
<1> QED BY <1>1, <1>2, <1>3, PutKeeps DEF Shown

LEMMA PolledKeeps ==
    ASSUME StudioInvariant, NEW i, Polled(i)
    PROVE  StudioInvariant'
<1>1. i \in BatchSlots /\ Running /\ UNCHANGED bench
  BY DEF Polled, At, Running, sameButBatch
<1>2. SlotFields \subseteq DOMAIN batch.slots[i] BY <1>1 DEF StudioInvariant
<1>3. ASSUME NEW slot, NEW status, SlotFields \subseteq DOMAIN slot,
             Put(i, slot), Report(i, status, slot)
      PROVE  StudioInvariant'
  BY <1>1, <1>3, ReportShows, PutKeeps
<1> DEFINE old == batch.slots[i]
<1>4. ASSUME Ended(i, [old EXCEPT !.at = "done", !.seen = Unset, !.item = made']) PROVE StudioInvariant'
  <2> DEFINE slot == [old EXCEPT !.at = "done", !.seen = Unset, !.item = made']
  <2>1. SlotFields \subseteq DOMAIN slot BY <1>2
  <2> HIDE DEF slot
  <2> QED BY <1>3, <1>4, <2>1 DEF Ended, slot
<1>5. ASSUME Ended(i, [old EXCEPT !.at = "failed", !.seen = Unset]) PROVE StudioInvariant'
  <2> DEFINE slot == [old EXCEPT !.at = "failed", !.seen = Unset]
  <2>1. SlotFields \subseteq DOMAIN slot BY <1>2
  <2> HIDE DEF slot
  <2> QED BY <1>3, <1>5, <2>1 DEF Ended, slot
<1>6. ASSUME Put(i, [old EXCEPT !.at = "waiting", !.seen = Unset]),
             Report(i, IF old.seen = "queued" THEN "queued" ELSE "executing", old)
      PROVE  StudioInvariant'
  <2> DEFINE slot == [old EXCEPT !.at = "waiting", !.seen = Unset]
  <2>1. SlotFields \subseteq DOMAIN slot /\ slot.task = old.task BY <1>2 DEF SlotFields
  <2> HIDE DEF slot
  <2>2. Put(i, slot) BY <1>6 DEF slot
  <2>3. Shown(i, old) BY <1>6, ReportShows
  <2>4. Shown(i, slot) BY <2>1, <2>3 DEF Shown
  <2> QED BY <1>1, <2>1, <2>2, <2>4, PutKeeps
<1>7. ASSUME SlotFails(i) PROVE StudioInvariant'
  <2> DEFINE slot == [old EXCEPT !.at = "failed"]
  <2>1. SlotFields \subseteq DOMAIN slot BY <1>2
  <2> HIDE DEF slot
  <2> QED BY <1>3, <1>7, <2>1 DEF SlotFails, Ended, slot
<1> QED BY <1>4, <1>5, <1>6, <1>7 DEF Polled

\* What the user and the server do that no card and no batch is changed by.
QuietStep ==
    \/ SelectLog \/ AskDelete \/ OpenHistory \/ DeleteHistory \/ Write
    \/ AddReference \/ RemoveReference \/ ReferenceUploaded \/ AddResultToReferences \/ Logout
    \/ \E l \in DOMAIN lists : RecordsServed(l)
    \/ \E r \in deletions : DeletionAnswered(r)
    \/ \E t \in DOMAIN tasks : TaskStep(t)
    \/ \E i \in DOMAIN results : CancelQueuedResult(i)
LEMMA QuietStepKeeps ==
    ASSUME QuietStep PROVE UNCHANGED <<bench, batch, results>>
  BY DEF QuietStep, SelectLog, AskDelete, OpenHistory, DeleteHistory, Write, AddReference,
         RemoveReference, ReferenceUploaded, AddResultToReferences, Logout, RecordsServed,
         DeletionAnswered, TaskStep, CancelQueuedResult, display

\* What may show other cards while the batch stays, or the other way round.
ShowStep ==
    \/ DeleteSelectedLogs \/ NewSession \/ RecordSaved
    \/ \E r \in logs : PreviewImageLog(r) \/ PreviewVideoLog(r)
    \/ \E l \in DOMAIN lists : ListArrived(l)
    \/ \E c \in cancels : Cancelled(c)
AskStep == Generate \/ RetryResult
LEMMA StepsOfThePage ==
    ASSUME StudioNext
    PROVE  QuietStep \/ ShowStep \/ AskStep \/ \E i \in BatchSlots : SlotAnswered(i) \/ Poll(i) \/ Polled(i)
  BY DEF StudioNext, ImagePage, ImageLogs, VideoPage, VideoLogs, ModelPage, HistoryPanel, StudioReplies,
         LogPanel, ReferenceStrip, InsertPickedAsset, ResultImageCard, QueuedImageCard, ImageResults,
         ResolveQueuedImages, WaitForQueuedVideo, SlotStep, QuietStep, ShowStep, AskStep

LEMMA ShownAnewFades ==
    ASSUME StudioInvariant, ShowStep
    PROVE  StudioInvariant'
<1>1. ASSUME UNCHANGED <<bench, batch>>, results' = results \/ results' = <<>> PROVE StudioInvariant'
  BY <1>1, FadingKeeps DEF CardsFade, BatchGoesOn, StudioInvariant
<1>2. CASE DeleteSelectedLogs BY <1>1, <1>2 DEF DeleteSelectedLogs, Replace, display
<1>3. CASE NewSession BY <1>1, <1>3 DEF NewSession, Replace
<1>4. CASE RecordSaved
  <2>1. UNCHANGED <<bench, results>> /\ BatchGoesOn
    BY <1>4 DEF RecordSaved, BatchGoesOn, Running, display
  <2> QED BY <2>1, FadingKeeps DEF CardsFade, StudioInvariant
<1>5. ASSUME NEW r, Preview(r) PROVE StudioInvariant'
  <2>1. UNCHANGED <<bench, batch>> /\ results' = [i \in DOMAIN records[r].items |-> Pictured(records[r].items[i])]
    BY <1>5 DEF Preview, Replace
  <2>2. \A i \in DOMAIN results' : CardFields \subseteq DOMAIN results'[i] /\ results'[i].status # "queued"
    <3>1. \A item : CardFields \subseteq DOMAIN Pictured(item) /\ Pictured(item).status = "success"
      BY DEF Pictured, CardFields
    <3> QED BY <2>1, <3>1
  <2> QED BY <2>1, <2>2, FadingKeeps DEF CardsFade, BatchGoesOn
<1>6. ASSUME NEW l \in DOMAIN lists, ListArrived(l) PROVE StudioInvariant'
  <2>1. UNCHANGED <<bench, results>> /\ (batch' = batch \/ batch' = Idle)
    BY <1>6 DEF ListArrived, display
  <2> QED BY <2>1, FadingKeeps DEF CardsFade, BatchGoesOn, StudioInvariant
<1>7. ASSUME NEW c \in cancels, Cancelled(c) PROVE StudioInvariant'
  <2>1. UNCHANGED <<bench, batch>> /\ (results' = results \/ results' = [results EXCEPT ![c.at].status = "failed"])
    BY <1>7 DEF Cancelled
  <2>2. ASSUME results' = [results EXCEPT ![c.at].status = "failed"] PROVE StudioInvariant'
    <3> DEFINE card == [results[c.at] EXCEPT !.status = "failed"]
    <3>1. c.at \in DOMAIN results => CardFields \subseteq DOMAIN card /\ card.status = "failed"
      BY DEF StudioInvariant, CardFields
    <3>2. results' = [results EXCEPT ![c.at] = card] BY <2>2
    <3> HIDE DEF card
    <3> QED BY <2>1, <3>1, <3>2, FadingKeeps DEF CardsFade, BatchGoesOn, StudioInvariant
  <2> QED BY <1>1, <2>1, <2>2
<1> QED BY <1>2, <1>3, <1>4, <1>5, <1>6, <1>7 DEF ShowStep, PreviewImageLog, PreviewVideoLog

LEMMA StudioInvariantKept == StudioInvariant /\ [StudioNext]_studioVars => StudioInvariant'
<1> SUFFICES ASSUME StudioInvariant, [StudioNext]_studioVars PROVE StudioInvariant'
  OBVIOUS
<1>1. ASSUME UNCHANGED <<bench, batch, results>> PROVE StudioInvariant'
  BY <1>1, FadingKeeps DEF CardsFade, BatchGoesOn, StudioInvariant
<1>2. CASE AskStep
  <2>1. UNCHANGED bench /\ \E n : WaitingCards(n)
    BY <1>2 DEF AskStep, Generate, RetryResult, StartBatch
  <2> QED BY <2>1, WaitingKeeps
<1>3. CASE UNCHANGED studioVars BY <1>1, <1>3 DEF studioVars, display
<1> QED BY <1>1, <1>2, <1>3, QuietStepKeeps, StepsOfThePage, ShownAnewFades,
           AnsweredSlotKeeps, PollKeeps, PolledKeeps

(* The button of a waiting card cancels the task of its own slot.          *)
THEOREM CancelsHold == StudioSpec => []CancelsItsOwn
<1>1. StudioInit => StudioInvariant
  BY DEF StudioInit, StudioInvariant, CancelsItsOwn, Idle, BatchSlots
<1>2. StudioInvariant => CancelsItsOwn BY DEF StudioInvariant
<1> QED BY <1>1, <1>2, StudioInvariantKept, PTL DEF StudioSpec

------------------------------------------------------------------------------
(* The assistant *)

\* What holds of zero, and of the next number, holds of all of them.
LEMMA Counting ==
    ASSUME NEW G, 0 \in G, \A n \in Nat : n \in G => n + 1 \in G
    PROVE  Nat \subseteq G
<1> DEFINE T == {n \in Nat : n \notin G}
<1>1. SUFFICES ASSUME T # {} PROVE FALSE OBVIOUS
<1>3. T \subseteq Nat OBVIOUS
<1> HIDE DEF T
<1>4. PICK n \in T : \A m \in T : ~(<<m, n>> \in OpToRel(<, Nat))
  BY <1>1, <1>3, NatLessThanWellFounded, WFMin
<1>5. \A m \in T : ~(m < n)
  BY <1>3, <1>4 DEF OpToRel
<1>6. n \in Nat /\ n \notin G BY <1>3, <1>4 DEF T
<1>7. n # 0 BY <1>6
<1>8. n - 1 \in Nat BY <1>6, <1>7
<1>9. n - 1 \in G BY <1>5, <1>8 DEF T
<1>10. n - 1 + 1 \in G BY <1>8, <1>9
<1> QED BY <1>6, <1>10

\* Some numbers, none above a bound, have a last one.
LEMMA LatestExists ==
    ASSUME NEW n \in Nat, NEW S, S \subseteq 1 .. n, S # {}
    PROVE  \E j \in S : \A k \in S : k <= j
<1> DEFINE G == {m \in Nat : \A A \in SUBSET (1 .. m) : A # {} => \E j \in A : \A k \in A : k <= j}
<1>1. 0 \in G
  <2>1. 1 .. 0 = {} OBVIOUS
  <2> QED BY <2>1
<1>2. ASSUME NEW m \in Nat, m \in G PROVE m + 1 \in G
  <2>1. SUFFICES ASSUME NEW A \in SUBSET (1 .. m + 1), A # {} PROVE \E j \in A : \A k \in A : k <= j
    OBVIOUS
  <2>2. CASE m + 1 \in A BY <2>2
  <2>3. CASE m + 1 \notin A
    <3>1. A \in SUBSET (1 .. m) BY <2>3
    <3> QED BY <1>2, <2>1, <3>1
  <2> QED BY <2>2, <2>3
<1> HIDE DEF G
<1>3. n \in G BY <1>1, <1>2, Counting
<1> QED BY <1>3 DEF G

\* What is left of a sequence step by step.
Left(s, these, g, k) ==
    IF k = 0 THEN <<>> ELSE IF s[k] \in these THEN Append(g[k - 1], s[k]) ELSE g[k - 1]
Leaves(s, these, g, n) == g = [k \in 0 .. n |-> Left(s, these, g, k)]

LEMMA LeftExists ==
    ASSUME NEW s, NEW these, NEW n \in Nat
    PROVE  \E g : Leaves(s, these, g, n)
<1> DEFINE G == {k \in Nat : \E g : Leaves(s, these, g, k)}
<1>1. 0 \in G
  <2>1. Leaves(s, these, [k \in 0 .. 0 |-> <<>>], 0) BY DEF Leaves, Left
  <2> QED BY <2>1
<1>2. ASSUME NEW k \in Nat, k \in G PROVE k + 1 \in G
  <2>1. PICK g : Leaves(s, these, g, k) BY <1>2
  <2> DEFINE h == [j \in 0 .. k + 1 |-> Left(s, these, g, j)]
  <2>2. ASSUME NEW j \in 0 .. k + 1 PROVE Left(s, these, h, j) = Left(s, these, g, j)
    <3>1. CASE j = 0 BY <3>1 DEF Left
    <3>2. CASE j # 0
      <4>1. j - 1 \in 0 .. k /\ j - 1 \in 0 .. k + 1 BY <3>2
      <4>2. h[j - 1] = g[j - 1] BY <2>1, <4>1 DEF Leaves
      <4> HIDE DEF h
      <4> QED BY <3>2, <4>2 DEF Left
    <3> QED BY <3>1, <3>2
  <2>3. h = [j \in 0 .. k + 1 |-> Left(s, these, h, j)]
    <3>1. [j \in 0 .. k + 1 |-> Left(s, these, g, j)] = [j \in 0 .. k + 1 |-> Left(s, these, h, j)]
      <4> HIDE DEF h
      <4> QED BY <2>2
    <3> QED BY <3>1
  <2> HIDE DEF h
  <2>4. Leaves(s, these, h, k + 1) BY <2>3 DEF Leaves
  <2> QED BY <2>4
<1> HIDE DEF G
<1>3. n \in G BY <1>1, <1>2, Counting
<1> QED BY <1>3 DEF G

LEMMA OnlyIs ==
    ASSUME NEW s, NEW these, NEW f, Leaves(s, these, f, Len(s))
    PROVE  \E g : Leaves(s, these, g, Len(s)) /\ Only(s, these) = g[Len(s)]
<1>1. \E g : g = [k \in 0 .. Len(s) |-> IF k = 0 THEN <<>>
                                         ELSE IF s[k] \in these THEN Append(g[k - 1], s[k]) ELSE g[k - 1]]
  BY DEF Leaves, Left
<1> QED BY <1>1, Zenon DEF Only, Leaves, Left

\* What is left are elements of the sequence that were to be left.
LEMMA OnlyThese ==
    ASSUME NEW S, NEW s \in Seq(S), NEW these
    PROVE  Only(s, these) \in Seq(S \cap these)
<1>1. Len(s) \in Nat /\ \A k \in 1 .. Len(s) : s[k] \in S OBVIOUS
<1>2. PICK g : Leaves(s, these, g, Len(s)) /\ Only(s, these) = g[Len(s)]
  BY <1>1, LeftExists, OnlyIs
<1> DEFINE G == {n \in Nat : n <= Len(s) => g[n] \in Seq(S \cap these)}
<1>3. 0 \in G BY <1>1, <1>2 DEF Leaves, Left
<1>4. ASSUME NEW n \in Nat, n \in G PROVE n + 1 \in G
  <2>1. SUFFICES ASSUME n + 1 <= Len(s) PROVE g[n + 1] \in Seq(S \cap these) OBVIOUS
  <2>2. g[n] \in Seq(S \cap these) BY <1>1, <1>4, <2>1
  <2>3. n + 1 \in 0 .. Len(s) /\ n + 1 # 0 /\ n + 1 - 1 = n /\ s[n + 1] \in S BY <1>1, <2>1
  <2>4. g[n + 1] = IF s[n + 1] \in these THEN Append(g[n], s[n + 1]) ELSE g[n]
    <3>1. g[n + 1] = Left(s, these, g, n + 1) BY <1>2, <2>3 DEF Leaves
    <3> QED BY <2>3, <3>1 DEF Left
  <2> QED BY <2>2, <2>3, <2>4
<1> HIDE DEF G
<1>5. Len(s) \in G BY <1>1, <1>3, <1>4, Counting
<1> QED BY <1>1, <1>2, <1>5 DEF G

LEMMA WithoutIsOf ==
    ASSUME NEW S, NEW s \in Seq(S), NEW ids
    PROVE  Without(s, ids) \in Seq(S)
<1>1. Without(s, ids) \in Seq(S \cap {x \in ToSet(s) : x.id \notin ids}) BY OnlyThese DEF Without
<1> QED BY <1>1

LEMMA SanitizedIsFinished ==
    ASSUME NEW messages \in Seq(Messages)
    PROVE  SanitizeAgentMessages(messages) \in Seq(Finished)
<1>1. SanitizeAgentMessages(messages) \in Seq(Messages \cap {m \in ToSet(messages) : m.state # "loading"})
  BY OnlyThese DEF SanitizeAgentMessages
<1> QED BY <1>1 DEF Finished

LEMMA ActiveSessionTyped ==
    ASSUME AssistantInvariant
    PROVE  ActiveSession \in TalkRows
<1>1. talk \in Seq(TalkRows) /\ talk # <<>> BY DEF AssistantInvariant
<1>2. Only(talk, {s \in ToSet(talk) : s.id = active}) \in Seq(TalkRows)
  <2>1. Only(talk, {s \in ToSet(talk) : s.id = active}) \in Seq(TalkRows \cap {s \in ToSet(talk) : s.id = active})
    BY <1>1, OnlyThese
  <2> QED BY <2>1
<1> QED BY <1>1, <1>2 DEF ActiveSession

LEMMA RowsMade ==
    /\ \A id \in Nat : CreateSession(id) \in TalkRows
    /\ \A turn \in Nat : /\ User(turn) \in Finished
                         /\ \A ops \in BOOLEAN : /\ Assistant(turn, "said", ops) \in Finished
                                                /\ Assistant(turn, "loading", ops) \in Messages
    /\ Finished \subseteq Messages
BY DEF CreateSession, User, Assistant, Finished, Messages, TalkRows

\* A request that has been made, and what answers it.
LEMMA QuestionsGoOn ==
    ASSUME NEW s \in Questions, NEW row \in Nat, NEW at \in {"asked", "read", "saved"}
    PROVE  /\ [s EXCEPT !.at = at] \in Questions
           /\ [s EXCEPT !.at = "read", !.row = row] \in Questions
           /\ [s EXCEPT !.here = FALSE] \in Questions
BY DEF Questions

LEMMA TwoMore ==
    ASSUME NEW S, NEW messages \in Seq(S), NEW a \in S, NEW b \in S
    PROVE  messages \o <<a, b>> \in Seq(S)
OBVIOUS

LEMMA MessagesReplaced ==
    ASSUME NEW row \in TalkRows, NEW messages \in Seq(Messages)
    PROVE  [row EXCEPT !.messages = messages] \in TalkRows
BY DEF TalkRows

LEMMA AnswerIsFinished ==
    ASSUME NEW s \in Questions
    PROVE  s.history \o <<User(s.turn), Assistant(s.turn, "said", s.mode = "plan")>> \in Seq(Finished)
<1>1. s.history \in Seq(Finished) /\ s.turn \in Nat BY DEF Questions
<1>2. (s.mode = "plan") \in BOOLEAN OBVIOUS
<1>3. User(s.turn) \in Finished /\ Assistant(s.turn, "said", s.mode = "plan") \in Finished
  BY <1>1, <1>2, RowsMade
<1> QED BY <1>1, <1>3, TwoMore

\* Only the messages shown change, and they stay messages.
LEMMA TalkRewritten ==
    ASSUME NEW sessions \in Seq(TalkRows) \ {<<>>}, NEW f,
           \A i \in DOMAIN sessions : f[i] \in TalkRows
    PROVE  [i \in DOMAIN sessions |-> f[i]] \in Seq(TalkRows) \ {<<>>}
<1> DEFINE g == [i \in DOMAIN sessions |-> f[i]]
<1>1. DOMAIN sessions = 1 .. Len(sessions) /\ Len(sessions) \in Nat /\ Len(sessions) # 0
  BY EmptySeq
<1>2. g \in [1 .. Len(sessions) -> TalkRows] BY <1>1
<1>3. g \in Seq(TalkRows) /\ Len(g) = Len(sessions) BY <1>1, <1>2, SeqDef
<1> QED BY <1>1, <1>3

LEMMA SendKeepsTalk ==
    ASSUME AssistantInvariant, talks' \in Nat, NEW said \in Seq(Messages), SendMessage(said)
    PROVE  AssistantInvariant'
<1> DEFINE s == ActiveSession
           turn == talks'
           more == s.messages \o <<User(turn), Assistant(turn, "loading", FALSE)>>
           asked == [turn |-> turn, session |-> s.id, mode |-> mode, at |-> "asked", row |-> 0,
                     here |-> TRUE, history |-> SanitizeAgentMessages(said)]
<1>1. s \in TalkRows BY ActiveSessionTyped
<1>2. more \in Seq(Messages)
  <2>1. User(turn) \in Messages /\ Assistant(turn, "loading", FALSE) \in Messages BY RowsMade
  <2>2. s.messages \in Seq(Messages) BY <1>1 DEF TalkRows
  <2> HIDE DEF s, turn
  <2> QED BY <2>1, <2>2, TwoMore
<1>3. asked \in Questions
  BY <1>1, SanitizedIsFinished DEF AssistantInvariant, Questions, TalkRows
<1>4. talk' \in Seq(TalkRows) \ {<<>>}
  <2> DEFINE f == [i \in DOMAIN talk |-> IF talk[i].id = s.id THEN [talk[i] EXCEPT !.messages = more] ELSE talk[i]]
  <2>1. talk \in Seq(TalkRows) \ {<<>>} BY DEF AssistantInvariant
  <2>2. talk' = f BY DEF SendMessage, UpdateSession
  <2> HIDE DEF s, more
  <2>3. \A i \in DOMAIN talk : f[i] \in TalkRows
    <3>1. \A i \in DOMAIN talk : talk[i] \in TalkRows BY <2>1
    <3>2. \A i \in DOMAIN talk : [talk[i] EXCEPT !.messages = more] \in TalkRows
      BY <1>2, <3>1, MessagesReplaced
    <3> QED BY <3>1, <3>2
  <2>4. f = [i \in DOMAIN talk |-> f[i]] OBVIOUS
  <2> HIDE DEF f
  <2> QED BY <2>1, <2>2, <2>3, <2>4, TalkRewritten
<1>5. sends' = sends \cup {asked} BY DEF SendMessage
<1> HIDE DEF asked
<1> QED BY <1>3, <1>4, <1>5 DEF AssistantInvariant, SendMessage

\* The message that is asked for again follows the ones that are sent along.
LEMMA RetryKeepsTalk ==
    ASSUME AssistantInvariant, talks' \in Nat, RetryMessage
    PROVE  AssistantInvariant'
<1> DEFINE messages == ActiveSession.messages
<1>1. messages \in Seq(Messages) BY ActiveSessionTyped DEF TalkRows
<1>2. PICK i \in DOMAIN messages :
          LET users == {j \in 1 .. i - 1 : messages[j].role = "user"}
          IN  users # {} /\ SendMessage(SubSeq(messages, 1, (CHOOSE j \in users : \A k \in users : k <= j) - 1))
  BY DEF RetryMessage
<1> HIDE DEF messages
<1> DEFINE users == {j \in 1 .. i - 1 : messages[j].role = "user"}
           last == CHOOSE j \in users : \A k \in users : k <= j
<1>3. i \in 1 .. Len(messages) /\ Len(messages) \in Nat BY <1>1
<1>4. users \subseteq 1 .. Len(messages) BY <1>3
<1>5. users # {} /\ SendMessage(SubSeq(messages, 1, last - 1)) BY <1>2
<1> HIDE DEF users
<1>6. \E j \in users : \A k \in users : k <= j BY <1>3, <1>4, <1>5, LatestExists
<1>7. last \in users BY <1>6
<1> HIDE DEF last
<1>8. SubSeq(messages, 1, last - 1) \in Seq(Messages)
  BY <1>1, <1>3, <1>4, <1>7, SubSeqProperties
<1> QED BY <1>5, <1>8, SendKeepsTalk

LEMMA ServedKeepsTalk == AssistantInvariant /\ SessionsServed => AssistantInvariant'
<1> SUFFICES ASSUME AssistantInvariant, SessionsServed PROVE AssistantInvariant' OBVIOUS
<1> DEFINE lasting == Only(kept, {row \in ToSet(kept) : ~row.deleted})
<1>1. lasting \in Seq(KeptRows \cap {row \in ToSet(kept) : ~row.deleted})
  BY OnlyThese DEF AssistantInvariant
<1>2. lasting \in Seq(KeptRows) BY <1>1
<1>3. fetching' = [at |-> "served", items |-> lasting] BY DEF SessionsServed
<1> HIDE DEF lasting
<1> QED BY <1>2, <1>3 DEF AssistantInvariant, SessionsServed, composer

LEMMA FetchedKeepsTalk == AssistantInvariant /\ SessionsFetched => AssistantInvariant'
<1> SUFFICES ASSUME AssistantInvariant, SessionsFetched PROVE AssistantInvariant' OBVIOUS
<1> DEFINE items == fetching.items
           theirs == [i \in DOMAIN items |-> [id |-> items[i].id, messages |-> items[i].messages]]
           next == IF items = <<>> THEN <<CreateSession(born + 1)>> ELSE theirs
<1>1. born \in Nat /\ items \in Seq(KeptRows) /\ talks \in Nat BY DEF AssistantInvariant
<1> HIDE DEF items
<1>2. next \in Seq(TalkRows) \ {<<>>}
  <2>1. CASE items = <<>>
    <3>1. CreateSession(born + 1) \in TalkRows BY <1>1, RowsMade
    <3> QED BY <2>1, <3>1
  <2>2. CASE items # <<>>
    <3>1. \A i \in DOMAIN items : items[i] \in KeptRows BY <1>1
    <3>2. \A row \in KeptRows : [id |-> row.id, messages |-> row.messages] \in TalkRows
      BY RowsMade DEF KeptRows, TalkRows
    <3>3. \A i \in DOMAIN items : theirs[i] \in TalkRows BY <3>1, <3>2
    <3>4. DOMAIN items = 1 .. Len(items) /\ Len(items) \in Nat /\ Len(items) # 0
      BY <1>1, <2>2, EmptySeq
    <3>5. theirs \in [1 .. Len(items) -> TalkRows] BY <3>3, <3>4
    <3> HIDE DEF theirs
    <3>6. theirs \in Seq(TalkRows) /\ Len(theirs) = Len(items) BY <3>4, <3>5, SeqDef
    <3> QED BY <2>2, <3>4, <3>6
  <2> QED BY <2>1, <2>2
<1>3. talk' = next \/ talk' = talk BY DEF SessionsFetched, items
<1> HIDE DEF next
<1>4. /\ born' \in Nat /\ talks' \in Nat /\ fetching' = [at |-> "none", items |-> <<>>]
      /\ UNCHANGED <<kept, sends, mode>>
  BY <1>1 DEF SessionsFetched, Say, composer
<1> QED BY <1>2, <1>3, <1>4 DEF AssistantInvariant

LEMMA ReadKeepsTalk ==
    ASSUME AssistantInvariant, NEW s, SessionRead(s)
    PROVE  AssistantInvariant'
<1>1. s \in Questions /\ born \in Nat BY DEF AssistantInvariant, SessionRead
<1>2. PICK row \in {s.session, born + 1} : sends' = (sends \ {s}) \cup {[s EXCEPT !.at = "read", !.row = row]}
  BY DEF SessionRead
<1>3. row \in Nat BY <1>1, <1>2 DEF Questions
<1>4. [s EXCEPT !.at = "read", !.row = row] \in Questions BY <1>1, <1>3, QuestionsGoOn
<1>5. born' = born \/ born' = born + 1 BY DEF SessionRead
<1>6. UNCHANGED <<talk, talks, kept, fetching, mode>> BY DEF SessionRead, composer
<1>7. born' \in Nat BY <1>1, <1>5
<1> QED BY <1>2, <1>6, <1>7, <1>4, <1>5 DEF AssistantInvariant

LEMMA SavedKeepsTalk ==
    ASSUME AssistantInvariant, NEW s, SaveCanvasAssistantSession(s)
    PROVE  AssistantInvariant'
<1> DEFINE messages == s.history \o <<User(s.turn), Assistant(s.turn, "said", s.mode = "plan")>>
           row == [id |-> s.row, messages |-> messages, deleted |-> FALSE]
           others == Without(kept, {s.row})
<1>1. s \in Questions BY DEF AssistantInvariant, SaveCanvasAssistantSession
<1>2. messages \in Seq(Finished) BY <1>1, AnswerIsFinished
<1>3. kept' = <<row>> \o others /\ sends' = (sends \ {s}) \cup {[s EXCEPT !.at = "saved"]}
  BY DEF SaveCanvasAssistantSession
<1> HIDE DEF messages
<1>4. row \in KeptRows BY <1>1, <1>2 DEF KeptRows, Questions
<1>5. others \in Seq(KeptRows) BY WithoutIsOf DEF AssistantInvariant
<1> HIDE DEF row, others
<1>6. kept' \in Seq(KeptRows) BY <1>3, <1>4, <1>5
<1>7. [s EXCEPT !.at = "saved"] \in Questions BY <1>1, QuestionsGoOn
<1>8. UNCHANGED <<talk, born, talks, fetching, mode>> BY DEF SaveCanvasAssistantSession, composer
<1> QED BY <1>3, <1>6, <1>7, <1>8 DEF AssistantInvariant

LEMMA AnsweredKeepsTalk ==
    ASSUME AssistantInvariant, NEW s, SendAnswered(s)
    PROVE  AssistantInvariant'
<1> DEFINE messages == s.history \o <<User(s.turn), Assistant(s.turn, "said", s.mode = "plan")>>
           row == [id |-> s.row, messages |-> messages]
           others == Without(talk, {s.row, s.session})
<1>1. s \in Questions BY DEF AssistantInvariant, SendAnswered
<1>2. messages \in Seq(Messages) BY <1>1, AnswerIsFinished, RowsMade
<1>3. talk' = talk \/ talk' = <<row>> \o others BY DEF SendAnswered
<1> HIDE DEF messages
<1>4. row \in TalkRows BY <1>1, <1>2 DEF TalkRows, Questions
<1>5. others \in Seq(TalkRows) BY WithoutIsOf DEF AssistantInvariant
<1> HIDE DEF row, others
<1>6. <<row>> \o others \in Seq(TalkRows) \ {<<>>} BY <1>4, <1>5
<1>7. sends' \subseteq sends /\ UNCHANGED <<kept, born, talks, fetching, mode>> BY DEF SendAnswered, composer
<1> QED BY <1>3, <1>6, <1>7 DEF AssistantInvariant

LEMMA FailedKeepsTalk ==
    ASSUME AssistantInvariant, NEW s, SendFailed(s)
    PROVE  AssistantInvariant'
<1>1. talk \in Seq(TalkRows) \ {<<>>} BY DEF AssistantInvariant
<1>2. UpdateMessage(s) \in Seq(TalkRows) \ {<<>>}
  <2> DEFINE told(row) == [k \in DOMAIN row.messages |->
                 IF row.messages[k].role = "assistant" /\ row.messages[k].turn = s.turn
                 THEN [row.messages[k] EXCEPT !.state = "failed"] ELSE row.messages[k]]
             f == [i \in DOMAIN talk |-> IF talk[i].id # MessageOf(s) THEN talk[i]
                                         ELSE [talk[i] EXCEPT !.messages = told(talk[i])]]
  <2>1. UpdateMessage(s) = f BY DEF UpdateMessage
  <2>2. ASSUME NEW row \in TalkRows PROVE told(row) \in Seq(Messages)
    <3> DEFINE ms == row.messages
    <3>1. ms \in Seq(Messages) BY DEF TalkRows
    <3> HIDE DEF ms
    <3>2. \A m \in Messages : [m EXCEPT !.state = "failed"] \in Messages BY DEF Messages
    <3>3. \A k \in DOMAIN ms : ms[k] \in Messages BY <3>1
    <3>4. \A k \in DOMAIN ms : (IF ms[k].role = "assistant" /\ ms[k].turn = s.turn
                                 THEN [ms[k] EXCEPT !.state = "failed"] ELSE ms[k]) \in Messages
      BY <3>2, <3>3
    <3>5. told(row) = [k \in DOMAIN ms |-> IF ms[k].role = "assistant" /\ ms[k].turn = s.turn
                                 THEN [ms[k] EXCEPT !.state = "failed"] ELSE ms[k]]
      BY DEF ms
    <3>6. DOMAIN ms = 1 .. Len(ms) /\ Len(ms) \in Nat BY <3>1
    <3>7. told(row) \in [1 .. Len(ms) -> Messages] BY <3>4, <3>5, <3>6
    <3> HIDE DEF told
    <3> QED BY <3>6, <3>7, SeqDef
  <2> HIDE DEF told
  <2>3. \A i \in DOMAIN talk : talk[i] \in TalkRows BY <1>1
  <2>4. \A i \in DOMAIN talk : [talk[i] EXCEPT !.messages = told(talk[i])] \in TalkRows
    BY <2>2, <2>3, MessagesReplaced
  <2>5. \A i \in DOMAIN talk : f[i] \in TalkRows BY <2>3, <2>4
  <2>6. f = [i \in DOMAIN talk |-> f[i]] OBVIOUS
  <2> HIDE DEF f
  <2> QED BY <1>1, <2>1, <2>5, <2>6, TalkRewritten
<1>3. /\ talk' = talk \/ talk' = UpdateMessage(s)
      /\ sends' \subseteq sends /\ UNCHANGED <<kept, born, fetching, mode>>
  BY DEF SendFailed, composer
<1>4. talks' \in Nat BY DEF SendFailed, Say, AssistantInvariant
<1> QED BY <1>2, <1>3, <1>4 DEF AssistantInvariant

LEMMA RemovedKeepsTalk ==
    ASSUME AssistantInvariant, NEW ids, SessionsRemoved(ids)
    PROVE  AssistantInvariant'
<1> DEFINE f == [i \in DOMAIN kept |-> IF kept[i].id \in ids THEN [kept[i] EXCEPT !.deleted = TRUE] ELSE kept[i]]
<1>1. kept' = f \/ kept' = kept BY DEF SessionsRemoved
<1>2. kept \in Seq(KeptRows) BY DEF AssistantInvariant
<1>3. f \in Seq(KeptRows)
  <2>1. \A i \in DOMAIN kept : kept[i] \in KeptRows BY <1>2
  <2>2. \A row \in KeptRows : [row EXCEPT !.deleted = TRUE] \in KeptRows BY DEF KeptRows
  <2>3. \A i \in DOMAIN kept : f[i] \in KeptRows BY <2>1, <2>2
  <2>4. DOMAIN kept = 1 .. Len(kept) /\ Len(kept) \in Nat BY <1>2
  <2>5. f \in [1 .. Len(kept) -> KeptRows] BY <2>3, <2>4
  <2> HIDE DEF f
  <2> QED BY <2>4, <2>5, SeqDef
<1>4. talks' \in Nat BY DEF SessionsRemoved, Say, AssistantInvariant
<1> HIDE DEF f
<1>5. UNCHANGED <<talk, sends, born, fetching, mode>> BY DEF SessionsRemoved, composer
<1> QED BY <1>1, <1>2, <1>3, <1>4, <1>5 DEF AssistantInvariant

LEMMA DeleteKeepsTalk ==
    ASSUME AssistantInvariant, ConfirmDelete
    PROVE  AssistantInvariant'
<1>1. born \in Nat /\ talk \in Seq(TalkRows) \ {<<>>} BY DEF AssistantInvariant
<1>2. CreateSession(born + 1) \in TalkRows BY <1>1, RowsMade
<1> DEFINE only == <<CreateSession(born + 1)>>
           next == Without(talk, asking)
<1>3. only \in Seq(TalkRows) \ {<<>>} BY <1>2
<1>4. next \in Seq(TalkRows) BY <1>1, WithoutIsOf
<1>5. /\ talk' \in {talk, only} \/ talk' = IF next = <<>> THEN only ELSE next
      /\ born' = born \/ born' = born + 1
  BY DEF ConfirmDelete, ClearSessions, RemoveSessions
<1> HIDE DEF only, next
<1>6. talk' \in Seq(TalkRows) \ {<<>>} BY <1>1, <1>3, <1>4, <1>5
<1>7. UNCHANGED <<kept, sends, fetching, mode, talks>> BY DEF ConfirmDelete, composer
<1> QED BY <1>1, <1>5, <1>6, <1>7 DEF AssistantInvariant

LEMMA StartKeepsTalk ==
    ASSUME AssistantInvariant, talks' \in Nat, StartChatSession
    PROVE  AssistantInvariant'
<1>1. born \in Nat /\ talk \in Seq(TalkRows) \ {<<>>} BY DEF AssistantInvariant
<1>2. CreateSession(born + 1) \in TalkRows BY <1>1, RowsMade
<1>3. <<CreateSession(born + 1)>> \o talk \in Seq(TalkRows) \ {<<>>} BY <1>1, <1>2
<1>4. /\ talk' = talk \/ talk' = <<CreateSession(born + 1)>> \o talk
      /\ born' \in Nat
  BY <1>1 DEF StartChatSession
<1>5. UNCHANGED <<kept, sends, fetching, mode>> BY DEF StartChatSession, composer
<1> QED BY <1>1, <1>3, <1>4, <1>5 DEF AssistantInvariant

LEMMA AssistantInvariantKept == AssistantInvariant /\ [AssistantNext]_assistantVars => AssistantInvariant'
<1> SUFFICES ASSUME AssistantInvariant, [AssistantNext]_assistantVars PROVE AssistantInvariant'
  OBVIOUS
<1>1. Say => talks' \in Nat BY DEF Say, AssistantInvariant
<1>2. CASE UNCHANGED assistantVars BY <1>2 DEF assistantVars, composer, AssistantInvariant
<1>3. ASSUME Say, AssistantPanel PROVE AssistantInvariant'
  <2>1. CASE RetryMessage BY <1>1, <1>3, <2>1, RetryKeepsTalk
  <2>2. CASE Submit
    <3>1. ActiveSession.messages \in Seq(Messages) BY ActiveSessionTyped DEF TalkRows
    <3> QED BY <1>1, <1>3, <2>2, <3>1, SendKeepsTalk DEF Submit
  <2>3. CASE StartChatSession BY <1>1, <1>3, <2>3, StartKeepsTalk
  <2>4. CASE Collapse \/ SwitchView \/ PreviewOps \/ AssistantHistory \/ EndPreview
    <3>1. UNCHANGED <<talk, kept, sends, fetching, born, mode>>
      BY <2>4 DEF Collapse, SwitchView, PreviewOps, AssistantHistory, EndPreview, composer
    <3> QED BY <1>1, <1>3, <3>1 DEF AssistantInvariant
  <2>5. CASE AssistantComposer
    <3>1. UNCHANGED <<talk, kept, sends, fetching, born>> /\ mode' \in {"plan", "chat"}
      BY <2>5 DEF AssistantComposer, AssistantInvariant
    <3> QED BY <1>1, <1>3, <3>1 DEF AssistantInvariant
  <2> QED BY <1>3, <2>1, <2>2, <2>3, <2>4, <2>5 DEF AssistantPanel, AssistantMessages
<1>4. ASSUME Say, Expand PROVE AssistantInvariant'
  <2>1. UNCHANGED <<talk, kept, sends, born, mode>> /\ fetching' = [at |-> "asked", items |-> <<>>]
    BY <1>4 DEF Expand, composer
  <2> QED BY <1>1, <1>4, <2>1 DEF AssistantInvariant
<1>5. ASSUME Collapsed PROVE AssistantInvariant'
  <2>1. UNCHANGED <<talk, kept, fetching, born, talks>> /\ mode' = "plan"
        /\ sends' = {[s EXCEPT !.here = FALSE] : s \in sends}
    BY <1>5 DEF Collapsed
  <2>2. sends' \subseteq Questions BY <2>1, QuestionsGoOn DEF AssistantInvariant
  <2> QED BY <2>1, <2>2 DEF AssistantInvariant
<1> QED BY <1>2, <1>3, <1>4, <1>5, DeleteKeepsTalk, ServedKeepsTalk, FetchedKeepsTalk, ReadKeepsTalk,
           SavedKeepsTalk, AnsweredKeepsTalk,
           FailedKeepsTalk, RemovedKeepsTalk DEF AssistantNext, AssistantReplies

(* What stands in place of an answer is never kept.                        *)
THEOREM PlaceholdersNeverKept == AssistantSpec => []NoPlaceholdersKept
<1>1. AssistantInit => AssistantInvariant
  <2> SUFFICES ASSUME AssistantInit PROVE AssistantInvariant OBVIOUS
  <2>1. CreateSession(1) \in TalkRows BY RowsMade
  <2>2. <<CreateSession(1)>> \in Seq(TalkRows) \ {<<>>} BY <2>1
  <2>3. talk = <<CreateSession(1)>> BY DEF AssistantInit
  <2> QED BY <2>2, <2>3 DEF AssistantInit, AssistantInvariant
<1>2. AssistantInvariant => NoPlaceholdersKept
  <2> SUFFICES ASSUME AssistantInvariant, NEW row \in ToSet(kept), NEW m \in ToSet(row.messages)
               PROVE  m.state # "loading"
    BY DEF NoPlaceholdersKept
  <2>1. row \in KeptRows BY DEF AssistantInvariant, ToSet
  <2>2. row.messages \in Seq(Finished) BY <2>1 DEF KeptRows
  <2>3. m \in Finished BY <2>2 DEF ToSet
  <2> QED BY <2>3 DEF Finished
<1> QED BY <1>1, <1>2, AssistantInvariantKept, PTL DEF AssistantSpec

------------------------------------------------------------------------------
(* The settings page: lists *)

LEMMA ListElements ==
    ASSUME NEW s, IsSequence(s)
    PROVE  /\ Len(s) \in Nat /\ DOMAIN s = 1 .. Len(s)
           /\ s = [i \in DOMAIN s |-> s[i]]
BY DEF IsSequence

LEMMA SequenceMade ==
    ASSUME NEW n \in Nat, NEW f, f = [i \in 1 .. n |-> f[i]]
    PROVE  IsSequence(f) /\ Len(f) = n
<1>1. DOMAIN f = 1 .. n OBVIOUS
<1>2. f \in [1 .. n -> ToSet(f)] BY <1>1 DEF ToSet
<1>3. f \in Seq(ToSet(f)) BY <1>2, SeqDef
<1>4. Len(f) = n BY <1>1, <1>3
<1> QED BY <1>3, <1>4 DEF IsSequence

\* A list of any elements is one of its own.
LEMMA SequenceOf ==
    ASSUME NEW S, NEW s \in Seq(S)
    PROVE  IsSequence(s)
<1>1. Len(s) \in Nat /\ DOMAIN s = 1 .. Len(s) /\ s = [i \in 1 .. Len(s) |-> s[i]] OBVIOUS
<1> QED BY <1>1, SequenceMade

LEMMA AppendIsSequence ==
    ASSUME NEW s, IsSequence(s), NEW e
    PROVE  /\ IsSequence(Append(s, e)) /\ Len(Append(s, e)) = Len(s) + 1
           /\ DOMAIN Append(s, e) = DOMAIN s \cup {Len(s) + 1}
           /\ \A i \in DOMAIN s : Append(s, e)[i] = s[i]
           /\ Append(s, e)[Len(s) + 1] = e
<1> DEFINE S == ToSet(s) \cup {e}
<1>1. s \in Seq(S) /\ e \in S
  <2>1. s \in Seq(ToSet(s)) BY DEF IsSequence
  <2>2. ToSet(s) \subseteq S OBVIOUS
  <2> HIDE DEF S
  <2> QED BY <2>1, <2>2, SeqMonotonic DEF S
<1> HIDE DEF S
<1>2. Append(s, e) \in Seq(S) BY <1>1
<1>3. IsSequence(Append(s, e)) BY <1>2, SequenceOf
<1> QED BY <1>1, <1>2, <1>3, AppendProperties

LEMMA RemoveIsSequence ==
    ASSUME NEW s, IsSequence(s), NEW i \in DOMAIN s
    PROVE  /\ IsSequence(RemoveAt(s, i)) /\ Len(RemoveAt(s, i)) = Len(s) - 1
           /\ \A k \in DOMAIN RemoveAt(s, i) : \E j \in DOMAIN s : RemoveAt(s, i)[k] = s[j]
<1> DEFINE S == ToSet(s)
           a == SubSeq(s, 1, i - 1)
           b == SubSeq(s, i + 1, Len(s))
<1>1. s \in Seq(S) BY DEF IsSequence
<1>2. S = {s[j] : j \in DOMAIN s} BY DEF ToSet
<1> HIDE DEF S
<1>3. Len(s) \in Nat /\ i \in 1 .. Len(s) BY <1>1
<1>4. a \in Seq(S) /\ Len(a) = i - 1
  BY <1>1, <1>3, SubSeqProperties
<1>5. b \in Seq(S) /\ Len(b) = Len(s) - i
  BY <1>1, <1>3, SubSeqProperties
<1>6. RemoveAt(s, i) = a \o b BY DEF RemoveAt
<1> HIDE DEF a, b
<1>7. a \o b \in Seq(S) /\ Len(a \o b) = Len(s) - 1 BY <1>3, <1>4, <1>5, ConcatProperties
<1>8. IsSequence(RemoveAt(s, i)) BY <1>6, <1>7, SequenceOf
<1>9. \A k \in DOMAIN RemoveAt(s, i) : RemoveAt(s, i)[k] \in S BY <1>6, <1>7
<1> QED BY <1>2, <1>6, <1>7, <1>8, <1>9

\* Elements may be replaced, one by one.
LEMMA MapIsChannels ==
    ASSUME NEW s, IsChannels(s), NEW f, f = [i \in DOMAIN s |-> f[i]],
           \A i \in DOMAIN s : DOMAIN f[i] = FieldsOfChannel
    PROVE  IsChannels(f) /\ DOMAIN f = DOMAIN s
BY ListElements, SequenceMade DEF IsChannels

------------------------------------------------------------------------------
(* Documents of the settings *)

\* What a document is given in place of another field.
LEMMA FieldsReplaced ==
    ASSUME NEW d, IsDocument(d), NEW v
    PROVE  /\ IsDocument([d EXCEPT !.rest = v]) /\ IsDocument([d EXCEPT !.open = v])
           /\ IsDocument([d EXCEPT !.default = v]) /\ IsDocument([d EXCEPT !.prices = v])
           /\ IsChannels(v) => IsDocument([d EXCEPT !.channels = v])
BY DEF IsDocument, DocumentFields

LEMMA NormalizedIsDocument ==
    ASSUME NEW d, IsDocument(d)
    PROVE  IsDocument(NormalizeSettings(d))
BY FieldsReplaced DEF NormalizeSettings, NormalizePublicSetting, NormalizePrivateSetting

LEMMA ScopedIs ==
    ASSUME NEW d, IsDocument(d)
    PROVE  LET open == d.open \cap Offered(d.channels)
           IN  /\ IsDocument(Scoped(d)) /\ Scoped(d).channels = d.channels /\ Scoped(d).open = open
               /\ Scoped(d).prices = SyncModelCosts(d.prices, open, d.channels)
<1> DEFINE open == d.open \cap Offered(d.channels)
           prices == SyncModelCosts(d.prices, open, d.channels)
           default == ModelInScope(d.default, open)
<1>1. Scoped(d) = [d EXCEPT !.open = open, !.default = default, !.prices = prices]
  BY DEF Scoped
<1> HIDE DEF open, prices, default
<1>2. /\ IsDocument(Scoped(d)) /\ Scoped(d).channels = d.channels /\ Scoped(d).open = open
      /\ Scoped(d).prices = prices
  BY <1>1 DEF IsDocument, DocumentFields
<1> QED BY <1>2 DEF open, prices

LEMMA ServedIs ==
    ASSUME NEW d, IsDocument(d)
    PROVE  IsDocument(ScopedByServer(d)) /\ ScopedByServer(d).channels = d.channels
<1>1. PICK open, default, prices :
          ScopedByServer(d) = [d EXCEPT !.open = open, !.default = default, !.prices = prices]
  BY DEF ScopedByServer
<1> QED BY <1>1 DEF IsDocument, DocumentFields

LEMMA CollectedIsDocument ==
    ASSUME ShownInvariant, NEW d, IsDocument(d)
    PROVE  /\ \A tab \in Tabs : json[tab].mode = "json" => IsDocument(ParseTabJson(d, tab))
           /\ IsDocument(CollectSettings(d))
<1>1. ASSUME NEW tab \in Tabs, NEW e, IsDocument(e), json[tab].mode = "json"
      PROVE  IsDocument(ParseTabJson(e, tab))
  <2>1. IsDocument(json[tab].doc) BY <1>1 DEF ShownInvariant
  <2> DEFINE from == json[tab].doc
  <2>2. IsDocument(PublicOf(e, from)) BY <1>1 DEF PublicOf, IsDocument, DocumentFields
  <2>3. IsDocument(PrivateOf(e, from)) BY <1>1, <2>1 DEF PrivateOf, IsDocument, DocumentFields
  <2> HIDE DEF from
  <2>4. CASE tab = "public" BY <2>2, <2>4, NormalizedIsDocument DEF ParseTabJson, from
  <2>5. CASE tab # "public" BY <2>3, <2>5, NormalizedIsDocument DEF ParseTabJson, from
  <2> QED BY <2>4, <2>5
<1>2. "public" \in Tabs /\ "private" \in Tabs BY DEF Tabs
<1> DEFINE public == IF json["public"].mode = "json" THEN ParseTabJson(d, "public") ELSE d
           both == IF json["private"].mode = "json" THEN ParseTabJson(public, "private") ELSE public
<1>3. IsDocument(public) BY <1>1, <1>2
<1> HIDE DEF public
<1>4. IsDocument(both) BY <1>1, <1>2, <1>3
<1>5. CollectSettings(d) = Scoped(both) BY DEF CollectSettings, public
<1> HIDE DEF both
<1>6. IsDocument(CollectSettings(d)) BY <1>4, <1>5, ScopedIs
<1> QED BY <1>1, <1>6

\* A field of every channel is replaced.
LEMMA ChannelsReplaced ==
    ASSUME NEW d, IsDocument(d), NEW f, f = [i \in DOMAIN d.channels |-> f[i]],
           \A i \in DOMAIN d.channels : DOMAIN f[i] = FieldsOfChannel
    PROVE  IsDocument([d EXCEPT !.channels = f]) /\ [d EXCEPT !.channels = f].channels = f
<1>1. IsChannels(f) BY MapIsChannels DEF IsDocument
<1>2. [d EXCEPT !.channels = f].channels = f BY DEF IsDocument, DocumentFields
<1> QED BY <1>1, <1>2, FieldsReplaced

LEMMA HiddenIsDocument ==
    ASSUME NEW d, IsDocument(d)
    PROVE  IsDocument(Hidden(d))
<1> DEFINE f == [i \in DOMAIN d.channels |-> [d.channels[i] EXCEPT !.key = 0]]
<1>1. Hidden(d) = [d EXCEPT !.channels = f] BY DEF Hidden
<1>2. \A i \in DOMAIN d.channels : DOMAIN f[i] = FieldsOfChannel BY DEF IsDocument, IsChannels
<1>3. f = [i \in DOMAIN d.channels |-> f[i]] OBVIOUS
<1> HIDE DEF f
<1> QED BY <1>1, <1>2, <1>3, ChannelsReplaced

LEMMA MergedIsDocument ==
    ASSUME NEW d, IsDocument(d), NEW current
    PROVE  IsDocument(MergeSavedSecrets(current, d))
<1> DEFINE key(i) == IF i \in DOMAIN current.channels /\ current.channels[i].key # 0
                     THEN current.channels[i].key ELSE d.channels[i].key
           f == [i \in DOMAIN d.channels |-> [d.channels[i] EXCEPT !.key = key(i)]]
<1>1. MergeSavedSecrets(current, d) = [d EXCEPT !.channels = f] BY DEF MergeSavedSecrets
<1> HIDE DEF key
<1>2. \A i \in DOMAIN d.channels : DOMAIN f[i] = FieldsOfChannel BY DEF IsDocument, IsChannels
<1>3. f = [i \in DOMAIN d.channels |-> f[i]] OBVIOUS
<1> HIDE DEF f
<1> QED BY <1>1, <1>2, <1>3, ChannelsReplaced

\* Models that are new get identities: only these change, and the last one given.
Identified(d, seq, ids) ==
    [d EXCEPT !.seq = seq, !.channels = [i \in DOMAIN d.channels |-> [d.channels[i] EXCEPT !.ids = ids[i]]]]
LEMMA WithIdsKeepsKeys ==
    ASSUME NEW d, IsDocument(d)
    PROVE  /\ IsDocument(WithIds(d)) /\ DOMAIN WithIds(d).channels = DOMAIN d.channels
           /\ \A i \in DOMAIN d.channels : WithIds(d).channels[i].key = d.channels[i].key
<1>1. \E seq, ids : WithIds(d) = Identified(d, seq, ids)
  <2> DEFINE new == Unidentified(d)
             order == SetToSeq(new)
             last == Max({d.seq} \cup UNION {Range(c.ids) : c \in ToSet(d.channels)})
             id(i, m) == IF <<i, m>> \in new THEN last + CHOOSE k \in DOMAIN order : order[k] = <<i, m>>
                         ELSE d.channels[i].ids[m]
             row(i) == [m \in DOMAIN d.channels[i].ids |-> id(i, m)]
             s == last + Cardinality(new)
             t == [i \in DOMAIN d.channels |-> row(i)]
  <2>1. WithIds(d) = [d EXCEPT !.seq = s,
                !.channels = [i \in DOMAIN d.channels |-> [d.channels[i] EXCEPT !.ids = row(i)]]]
    BY DEF WithIds
  <2> HIDE DEF row, s
  <2>2. [i \in DOMAIN d.channels |-> [d.channels[i] EXCEPT !.ids = row(i)]]
        = [i \in DOMAIN d.channels |-> [d.channels[i] EXCEPT !.ids = t[i]]]
    OBVIOUS
  <2>3. WithIds(d) = [d EXCEPT !.seq = s,
                !.channels = [i \in DOMAIN d.channels |-> [d.channels[i] EXCEPT !.ids = t[i]]]]
    BY <2>1, <2>2
  <2> HIDE DEF t
  <2>4. WithIds(d) = Identified(d, s, t) BY <2>3 DEF Identified
  <2> QED BY <2>4
<1>0. PICK seq, ids : WithIds(d) = Identified(d, seq, ids) BY <1>1
<1> DEFINE f == [i \in DOMAIN d.channels |-> [d.channels[i] EXCEPT !.ids = ids[i]]]
<1>2. WithIds(d) = [d EXCEPT !.seq = seq, !.channels = f] BY <1>0 DEF Identified
<1>3. \A i \in DOMAIN d.channels : DOMAIN f[i] = FieldsOfChannel /\ f[i].key = d.channels[i].key
  BY DEF IsDocument, IsChannels, FieldsOfChannel
<1>4. f = [i \in DOMAIN d.channels |-> f[i]] /\ DOMAIN f = DOMAIN d.channels OBVIOUS
<1> HIDE DEF f
<1>5. IsChannels(f) BY <1>3, <1>4, MapIsChannels DEF IsDocument
<1>6. DOMAIN WithIds(d) = DOMAIN d /\ WithIds(d).channels = f BY <1>2 DEF IsDocument, DocumentFields
<1> QED BY <1>3, <1>4, <1>5, <1>6 DEF IsDocument

\* What is saved has the channels that were sent, each with the key that was kept for it.
LEMMA SavedKeys ==
    ASSUME NEW d, IsDocument(d)
    PROVE  /\ IsDocument(SaveSettings(d)) /\ DOMAIN SaveSettings(d).channels = DOMAIN d.channels
           /\ \A i \in DOMAIN d.channels : SaveSettings(d).channels[i].key = KeepKey(d.channels[i], i)
<1> DEFINE key(i) == KeepKey(d.channels[i], i)
           f == [i \in DOMAIN d.channels |-> [d.channels[i] EXCEPT !.key = key(i)]]
           keyed == [d EXCEPT !.channels = f]
<1>1. SaveSettings(d) = ScopedByServer(WithIds(keyed)) BY DEF SaveSettings
<1> HIDE DEF key
<1>2. \A i \in DOMAIN d.channels : DOMAIN f[i] = FieldsOfChannel /\ f[i].key = key(i)
  BY DEF IsDocument, IsChannels, FieldsOfChannel
<1>3. f = [i \in DOMAIN d.channels |-> f[i]] /\ DOMAIN f = DOMAIN d.channels OBVIOUS
<1> HIDE DEF f
<1>4. IsDocument(keyed) /\ keyed.channels = f BY <1>2, <1>3, ChannelsReplaced
<1> HIDE DEF keyed
<1>5. /\ IsDocument(WithIds(keyed)) /\ DOMAIN WithIds(keyed).channels = DOMAIN f
      /\ \A i \in DOMAIN f : WithIds(keyed).channels[i].key = f[i].key
  BY <1>4, WithIdsKeepsKeys
<1> QED BY <1>1, <1>2, <1>3, <1>5, ServedIs DEF key

------------------------------------------------------------------------------
(* What the steps of the page do to the documents *)

LEMMA SendKeepsRequests ==
    ASSUME RequestsInvariant, NEW kind, NEW d, IsDocument(d), Send(kind, d)
    PROVE  /\ RequestsInvariant' /\ Len(requests') = Len(requests) + 1
           /\ requests'[Len(requests')].kind = kind /\ requests'[Len(requests')].doc = d
<1> DEFINE r == [kind |-> kind, doc |-> d, served |-> FALSE, answer |-> d]
<1>1. requests' = Append(requests, r) BY DEF Send
<1>2. DOMAIN r = {"kind", "doc", "served", "answer"} /\ r.kind = kind /\ r.doc = d /\ r.answer = d
  OBVIOUS
<1> HIDE DEF r
<1>3. IsSequence(requests) BY DEF RequestsInvariant
<1>4. /\ IsSequence(requests') /\ Len(requests') = Len(requests) + 1
      /\ DOMAIN requests' = DOMAIN requests \cup {Len(requests) + 1}
      /\ \A k \in DOMAIN requests : requests'[k] = requests[k]
      /\ requests'[Len(requests) + 1] = r
  BY <1>1, <1>3, AppendIsSequence
<1> QED BY <1>2, <1>4 DEF RequestsInvariant

LEMMA RemoveKeepsRequests ==
    ASSUME RequestsInvariant, NEW k \in DOMAIN requests, requests' = RemoveAt(requests, k)
    PROVE  RequestsInvariant' /\ Len(requests') < Len(requests)
<1>1. IsSequence(requests) BY DEF RequestsInvariant
<1>2. /\ IsSequence(requests') /\ Len(requests') = Len(requests) - 1
      /\ \A n \in DOMAIN requests' : \E j \in DOMAIN requests : requests'[n] = requests[j]
  BY <1>1, RemoveIsSequence
<1>3. Len(requests) \in Nat BY <1>1, ListElements
<1> QED BY <1>2, <1>3 DEF RequestsInvariant

LEMMA ServedKeepsSettings ==
    ASSUME SettingsInvariant, NEW k \in DOMAIN requests, Served(k)
    PROVE  SettingsInvariant' /\ Len(requests') = Len(requests)
<1>1. IsDocument(stored) /\ IsDocument(requests[k].doc)
  BY DEF SettingsInvariant, StoredInvariant, RequestsInvariant
<1>2. IsDocument(stored') BY <1>1, SavedKeys DEF Served
<1>3. IsDocument(Hidden(stored')) BY <1>2, HiddenIsDocument
<1> DEFINE r == [requests[k] EXCEPT !.served = TRUE, !.answer = Hidden(stored')]
<1>4. DOMAIN r = {"kind", "doc", "served", "answer"} /\ IsDocument(r.doc) /\ IsDocument(r.answer)
  BY <1>1, <1>3 DEF SettingsInvariant, RequestsInvariant
<1>5. requests' = [requests EXCEPT ![k] = r]
  <2>1. requests' = [requests EXCEPT ![k].served = TRUE, ![k].answer = Hidden(stored')] BY DEF Served
  <2> QED BY <2>1
<1> HIDE DEF r
<1>6. IsSequence(requests) BY DEF SettingsInvariant, RequestsInvariant
<1>7. requests' = [n \in 1 .. Len(requests) |-> requests'[n]] /\ Len(requests) \in Nat
  BY <1>5, <1>6, ListElements
<1>8. IsSequence(requests') /\ Len(requests') = Len(requests) BY <1>7, SequenceMade
<1>9. RequestsInvariant' BY <1>4, <1>5, <1>8 DEF SettingsInvariant, RequestsInvariant
<1>10. UNCHANGED <<form, listed, json, drawer, editor>> BY DEF Served, sheet, windows
<1> QED BY <1>2, <1>8, <1>9, <1>10 DEF SettingsInvariant, StoredInvariant, ShownInvariant, WindowsInvariant

LEMMA ShowKeepsShown ==
    ASSUME ShownInvariant, NEW d, IsDocument(d), ShowDocument(d)
    PROVE  ShownInvariant'
<1>1. form' = d /\ listed' = d.channels BY DEF ShowDocument
<1>2. json' = [tab \in Tabs |-> IF json[tab].mode = "visual" THEN json[tab] ELSE [mode |-> "json", doc |-> d]]
  BY DEF ShowDocument
<1>3. ASSUME NEW tab \in Tabs
      PROVE  DOMAIN json'[tab] = {"mode", "doc"} /\ (json'[tab].mode # "visual" => IsDocument(json'[tab].doc))
  BY <1>2 DEF ShownInvariant
<1> QED BY <1>1, <1>2, <1>3 DEF ShownInvariant, IsDocument

LEMMA NoDrawerShape == DOMAIN NoDrawer = {"open", "index", "channel"} /\ DOMAIN NoDrawer.channel = FieldsOfChannel
BY DEF NoDrawer, FieldsOfChannel

LEMMA ArrivedKeepsSettings ==
    ASSUME SettingsInvariant, NEW k \in DOMAIN requests, Arrived(k)
    PROVE  SettingsInvariant' /\ Len(requests') < Len(requests)
<1>1. RequestsInvariant' /\ Len(requests') < Len(requests)
  BY RemoveKeepsRequests DEF Arrived, SettingsInvariant
<1>2. IsDocument(requests[k].answer) BY DEF SettingsInvariant, RequestsInvariant
<1>3. IsDocument(MergeSavedSecrets(requests[k].doc, requests[k].answer)) BY <1>2, MergedIsDocument
<1>4. ShownInvariant'
  <2>1. \/ ShowDocument(requests[k].answer)
        \/ ShowDocument(MergeSavedSecrets(requests[k].doc, requests[k].answer))
    BY DEF Arrived
  <2> QED BY <1>2, <1>3, <2>1, ShowKeepsShown DEF SettingsInvariant
<1>5. UNCHANGED <<stored, editor>> /\ (drawer' = drawer \/ drawer' = NoDrawer)
  BY DEF Arrived
<1> QED BY <1>1, <1>4, <1>5, NoDrawerShape DEF SettingsInvariant, StoredInvariant, WindowsInvariant

LEMMA FailedKeepsSettings ==
    ASSUME SettingsInvariant, NEW k \in DOMAIN requests, Failed(k)
    PROVE  SettingsInvariant' /\ Len(requests') < Len(requests)
<1>1. RequestsInvariant' /\ Len(requests') < Len(requests)
  BY RemoveKeepsRequests DEF Failed, SettingsInvariant
<1>2. UNCHANGED <<stored, form, listed, json, drawer, editor>> BY DEF Failed, windows
<1> QED BY <1>1, <1>2 DEF SettingsInvariant, StoredInvariant, ShownInvariant, WindowsInvariant

\* Steps that only open, fill and close windows, or ask of others than the server's document.
WindowStep ==
    \/ MailTemplateBlock \/ SetTemplateField \/ OpenChannelDrawer \/ CloseChannelDrawer \/ ChannelFields
    \/ OpenChannelModelSelector \/ CloseChannelModelSelector \/ ToggleSelectedModel
    \/ ConfirmChannelModelSelector \/ FetchChannelModelList \/ SendTestMail \/ TestCurrentCloudStorage
    \/ OpenTestDialog \/ CloseTestDialog \/ TestModelOnline
    \/ \E kind \in Providers : OpenAuthProviderEditor(kind)
    \/ ProbeAnswered
LEMMA ChannelFieldsReplaced ==
    ASSUME NEW c, DOMAIN c = FieldsOfChannel, NEW v
    PROVE  /\ DOMAIN [c EXCEPT !.name = v] = FieldsOfChannel /\ DOMAIN [c EXCEPT !.on = v] = FieldsOfChannel
           /\ DOMAIN [c EXCEPT !.key = v] = FieldsOfChannel /\ DOMAIN [c EXCEPT !.ids = v] = FieldsOfChannel
           /\ DOMAIN [c EXCEPT !.id = v] = FieldsOfChannel
OBVIOUS

\* The drawer after one of the fields of its channel is filled.
DrawerKept == DOMAIN drawer' = {"open", "index", "channel"} /\ DOMAIN drawer'.channel = FieldsOfChannel

LEMMA WindowStepKeepsSettings ==
    ASSUME SettingsInvariant, WindowStep
    PROVE  SettingsInvariant' /\ requests' = requests
<1>1. UNCHANGED <<stored, form, listed, json, requests>>
  BY DEF WindowStep, MailTemplateBlock, SetTemplateField, OpenChannelDrawer, CloseChannelDrawer, ChannelFields,
         OpenChannelModelSelector, CloseChannelModelSelector, ToggleSelectedModel, ConfirmChannelModelSelector,
         FetchChannelModelList, SendTestMail, TestCurrentCloudStorage, OpenTestDialog, CloseTestDialog,
         TestModelOnline, OpenAuthProviderEditor, ProbeAnswered, ModelTested, ChannelModelsFetched,
         sameButProbes, sheet
<1>2. DOMAIN drawer = {"open", "index", "channel"} /\ DOMAIN drawer.channel = FieldsOfChannel
  BY DEF SettingsInvariant, WindowsInvariant
<1>3. ASSUME NEW c, DOMAIN c = FieldsOfChannel, drawer' = [drawer EXCEPT !.channel = c] PROVE DrawerKept
  BY <1>2, <1>3 DEF DrawerKept
<1>4. DrawerKept
  <2>1. CASE UNCHANGED drawer BY <1>2, <2>1 DEF DrawerKept
  <2>2. CASE OpenChannelDrawer
    <3>1. IsChannels(listed) BY DEF SettingsInvariant, ShownInvariant
    <3>2. CASE \E i \in DOMAIN listed : drawer' = [open |-> TRUE, index |-> i, channel |-> listed[i]]
      BY <3>1, <3>2 DEF IsChannels, DrawerKept
    <3>3. CASE drawer' = [open |-> TRUE, index |-> 0, channel |-> [NoDrawer.channel EXCEPT !.id = 10 + edits]]
      BY <3>3, NoDrawerShape, ChannelFieldsReplaced DEF DrawerKept
    <3> QED BY <2>2, <3>2, <3>3 DEF OpenChannelDrawer
  <2>3. CASE CloseChannelDrawer BY <2>3, NoDrawerShape DEF CloseChannelDrawer, DrawerKept
  <2>4. CASE ChannelFields
    <3>1. ASSUME NEW name, drawer' = [drawer EXCEPT !.channel.name = name] PROVE DrawerKept
      BY <1>2, <3>1 DEF DrawerKept
    <3>2. ASSUME NEW on, drawer' = [drawer EXCEPT !.channel.on = on] PROVE DrawerKept
      BY <1>2, <3>2 DEF DrawerKept
    <3>3. ASSUME NEW key, drawer' = [drawer EXCEPT !.channel.key = key] PROVE DrawerKept
      BY <1>2, <3>3 DEF DrawerKept
    <3>4. ASSUME NEW ids, drawer' = [drawer EXCEPT !.channel.ids = ids] PROVE DrawerKept
      BY <1>2, <3>4 DEF DrawerKept
    <3> QED BY <2>4, <3>1, <3>2, <3>3, <3>4 DEF ChannelFields
  <2>5. CASE ConfirmChannelModelSelector
    <3>4. ASSUME NEW ids, drawer' = [drawer EXCEPT !.channel.ids = ids] PROVE DrawerKept
      BY <1>2, <3>4 DEF DrawerKept
    <3> QED BY <2>5, <3>4 DEF ConfirmChannelModelSelector
  <2> QED BY <2>1, <2>2, <2>3, <2>4, <2>5
       DEF WindowStep, MailTemplateBlock, SetTemplateField,
         OpenChannelModelSelector, CloseChannelModelSelector, ToggleSelectedModel,
         FetchChannelModelList, SendTestMail, TestCurrentCloudStorage, OpenTestDialog, CloseTestDialog,
         TestModelOnline, OpenAuthProviderEditor, ProbeAnswered, ModelTested, ChannelModelsFetched,
         sameButProbes, windows
<1>5. /\ "on" \in DOMAIN editor'
      /\ editor'.on \in Providers => IsDocument(Head(editor'.snapshot))
  <2>1. CASE UNCHANGED editor BY <2>1 DEF SettingsInvariant, WindowsInvariant
  <2>2. CASE MailTemplateBlock BY <2>2 DEF MailTemplateBlock, Providers
  <2>3. CASE SetTemplateField
    BY <2>3 DEF SetTemplateField, Providers, SettingsInvariant, WindowsInvariant
  <2>4. ASSUME NEW kind, OpenAuthProviderEditor(kind)
        PROVE  "on" \in DOMAIN editor' /\ editor'.snapshot = <<form>>
    BY <2>4 DEF OpenAuthProviderEditor
  <2>5. IsDocument(form) /\ Head(<<form>>) = form BY DEF SettingsInvariant, ShownInvariant
  <2> QED BY <2>1, <2>2, <2>3, <2>4, <2>5
       DEF WindowStep, OpenChannelDrawer, CloseChannelDrawer, ChannelFields,
         OpenChannelModelSelector, CloseChannelModelSelector, ToggleSelectedModel, ConfirmChannelModelSelector,
         FetchChannelModelList, SendTestMail, TestCurrentCloudStorage, OpenTestDialog, CloseTestDialog,
         TestModelOnline, ProbeAnswered, ModelTested, ChannelModelsFetched, sameButProbes, windows
<1>6. WindowsInvariant' BY <1>4, <1>5 DEF WindowsInvariant, DrawerKept
<1> QED BY <1>1, <1>6 DEF SettingsInvariant, StoredInvariant, ShownInvariant, RequestsInvariant

\* Steps that change the form, or what is edited as text.
FormStep == Rest \/ PublicModels \/ SetModelCost \/ JsonTabs \/ AddCustomAuthProvider
LEMMA FormStepKeepsSettings ==
    ASSUME SettingsInvariant, FormStep
    PROVE  SettingsInvariant' /\ requests' = requests
<1>1. /\ IsDocument(form) /\ IsChannels(listed) /\ DOMAIN json = Tabs
      /\ \A tab \in Tabs : /\ DOMAIN json[tab] = {"mode", "doc"}
                           /\ json[tab].mode # "visual" => IsDocument(json[tab].doc)
  BY DEF SettingsInvariant, ShownInvariant
<1>2. UNCHANGED <<stored, requests, drawer>>
  BY DEF FormStep, Rest, PublicModels, SetModelCost, JsonTabs, ToggleMode, WriteJson, AddCustomAuthProvider,
         ChangeForm, windows
<1>3. ASSUME IsDocument(form'), UNCHANGED <<listed, json>> PROVE ShownInvariant'
  BY <1>1, <1>3 DEF ShownInvariant
<1>4. ASSUME NEW tab \in Tabs, NEW row, DOMAIN row = {"mode", "doc"},
             row.mode # "visual" => IsDocument(row.doc), json' = [json EXCEPT ![tab] = row],
             IsDocument(form'), IsChannels(listed')
      PROVE  ShownInvariant'
  BY <1>1, <1>4 DEF ShownInvariant
<1>5. ASSUME UNCHANGED editor, ShownInvariant' PROVE SettingsInvariant'
  BY <1>2, <1>5 DEF SettingsInvariant, StoredInvariant, RequestsInvariant, WindowsInvariant
<1>6. ASSUME NEW d, IsDocument(d), ChangeForm(d) PROVE SettingsInvariant'
  BY <1>3, <1>5, <1>6 DEF ChangeForm, windows
<1>0. \A v : /\ IsDocument([form EXCEPT !.rest = v]) /\ IsDocument([form EXCEPT !.open = v])
              /\ IsDocument([form EXCEPT !.default = v]) /\ IsDocument([form EXCEPT !.prices = v])
  BY <1>1, FieldsReplaced
<1>7. CASE Rest BY <1>0, <1>2, <1>6, <1>7 DEF Rest
<1>8. CASE PublicModels
  <2>1. ASSUME NEW v, ChangeForm([form EXCEPT !.open = v]) PROVE SettingsInvariant'
    BY <1>0, <1>6, <2>1
  <2>2. ASSUME NEW v, ChangeForm([form EXCEPT !.default = v]) PROVE SettingsInvariant'
    BY <1>0, <1>6, <2>2
  <2> QED BY <1>2, <1>8, <2>1, <2>2 DEF PublicModels
<1>9. CASE SetModelCost
  <2>1. ASSUME NEW v, ChangeForm([form EXCEPT !.prices = v]) PROVE SettingsInvariant'
    BY <1>0, <1>6, <2>1
  <2> QED BY <1>2, <1>9, <2>1 DEF SetModelCost
<1>10. ASSUME NEW tab \in Tabs, ToggleMode(tab) PROVE SettingsInvariant'
  <2>1. CASE json[tab].mode = "visual"
    <3> DEFINE row == [mode |-> "json", doc |-> form]
    <3>1. DOMAIN row = {"mode", "doc"} /\ IsDocument(row.doc) BY <1>1
    <3>2. json' = [json EXCEPT ![tab] = row] /\ UNCHANGED <<form, listed, editor>>
      BY <1>10, <2>1 DEF ToggleMode, windows
    <3> HIDE DEF row
    <3> QED BY <1>1, <1>4, <1>5, <3>1, <3>2
  <2>2. CASE json[tab].mode # "visual"
    <3> DEFINE row == [mode |-> "visual", doc |-> <<>>]
    <3>1. DOMAIN row = {"mode", "doc"} /\ row.mode = "visual" OBVIOUS
    <3>2. /\ json' = [json EXCEPT ![tab] = row] /\ UNCHANGED editor /\ json[tab].mode = "json"
          /\ form' = ParseTabJson(form, tab) /\ (listed' = json[tab].doc.channels \/ listed' = listed)
      BY <1>10, <2>2 DEF ToggleMode, windows
    <3> HIDE DEF row
    <3>3. IsDocument(form') BY <1>1, <3>2, CollectedIsDocument DEF SettingsInvariant
    <3>4. IsChannels(listed') BY <1>1, <2>2, <3>2 DEF IsDocument
    <3> QED BY <1>4, <1>5, <3>1, <3>2, <3>3, <3>4
  <2> QED BY <2>1, <2>2
<1>11. ASSUME NEW tab \in Tabs, WriteJson(tab) PROVE SettingsInvariant'
  <2> DEFINE old == json[tab]
  <2>1. UNCHANGED <<form, listed, editor>> /\ old.mode # "visual" BY <1>11 DEF WriteJson, windows
  <2>2. DOMAIN old = {"mode", "doc"} /\ IsDocument(old.doc) BY <1>1, <2>1
  <2>3. ASSUME NEW row, json' = [json EXCEPT ![tab] = row], DOMAIN row = {"mode", "doc"}, IsDocument(row.doc)
        PROVE  SettingsInvariant'
    BY <1>1, <1>4, <1>5, <2>1, <2>3
  <2>4. CASE json' = [json EXCEPT ![tab].mode = "broken"]
    <3> DEFINE row == [old EXCEPT !.mode = "broken"]
    <3>1. json' = [json EXCEPT ![tab] = row] /\ DOMAIN row = {"mode", "doc"} /\ IsDocument(row.doc)
      BY <2>2, <2>4
    <3> HIDE DEF row
    <3> QED BY <2>3, <3>1
  <2>5. ASSUME NEW text, json' = [json EXCEPT ![tab].mode = "json", ![tab].doc.rest = text]
        PROVE  SettingsInvariant'
    <3> DEFINE d == [old.doc EXCEPT !.rest = text]
               row == [mode |-> "json", doc |-> d]
    <3>1. IsDocument(d) BY <2>2, FieldsReplaced
    <3>2. json' = [json EXCEPT ![tab] = [old EXCEPT !.mode = "json", !.doc = d]] BY <2>5, <1>1, <2>2
    <3> HIDE DEF d
    <3>3. DOMAIN [old EXCEPT !.mode = "json", !.doc = d] = {"mode", "doc"}
          /\ [old EXCEPT !.mode = "json", !.doc = d].doc = d BY <2>2
    <3> QED BY <2>3, <3>1, <3>2, <3>3
  <2>6. ASSUME NEW open, json' = [json EXCEPT ![tab].mode = "json", ![tab].doc.open = open]
        PROVE  SettingsInvariant'
    <3> DEFINE d == [old.doc EXCEPT !.open = open]
    <3>1. IsDocument(d) BY <2>2, FieldsReplaced
    <3>2. json' = [json EXCEPT ![tab] = [old EXCEPT !.mode = "json", !.doc = d]] BY <2>6, <1>1, <2>2
    <3> HIDE DEF d
    <3>3. DOMAIN [old EXCEPT !.mode = "json", !.doc = d] = {"mode", "doc"}
          /\ [old EXCEPT !.mode = "json", !.doc = d].doc = d BY <2>2
    <3> QED BY <2>3, <3>1, <3>2, <3>3
  <2>7. ASSUME NEW m, json' = [json EXCEPT ![tab].mode = "json", ![tab].doc.prices[m].credits = -1]
        PROVE  SettingsInvariant'
    <3> DEFINE d == [old.doc EXCEPT !.prices[m].credits = -1]
    <3>1. IsDocument(d) BY <2>2 DEF IsDocument, DocumentFields
    <3>2. json' = [json EXCEPT ![tab] = [old EXCEPT !.mode = "json", !.doc = d]] BY <2>7, <1>1, <2>2
    <3> HIDE DEF d
    <3>3. DOMAIN [old EXCEPT !.mode = "json", !.doc = d] = {"mode", "doc"}
          /\ [old EXCEPT !.mode = "json", !.doc = d].doc = d BY <2>2
    <3> QED BY <2>3, <3>1, <3>2, <3>3
  <2>8. WriteJson(tab) =>
          \/ json' = [json EXCEPT ![tab].mode = "broken"]
          \/ \E text : json' = [json EXCEPT ![tab].mode = "json", ![tab].doc.rest = text]
          \/ \E open : json' = [json EXCEPT ![tab].mode = "json", ![tab].doc.open = open]
          \/ \E m : json' = [json EXCEPT ![tab].mode = "json", ![tab].doc.prices[m].credits = -1]
    BY DEF WriteJson
  <2> QED BY <1>11, <2>4, <2>5, <2>6, <2>7, <2>8
<1>12. CASE AddCustomAuthProvider
  <2>1. /\ editor' = [on |-> "custom", draft |-> None, snapshot |-> <<form>>]
        /\ \E text : form' = [form EXCEPT !.rest = text]
        /\ UNCHANGED <<listed, json>>
    BY <1>12 DEF AddCustomAuthProvider
  <2>2. "on" \in DOMAIN editor' /\ Head(editor'.snapshot) = form BY <2>1
  <2>3. IsDocument(form') BY <1>0, <2>1
  <2>4. ShownInvariant' BY <1>3, <2>1, <2>3
  <2> QED BY <1>1, <1>2, <2>2, <2>4
      DEF SettingsInvariant, StoredInvariant, RequestsInvariant, WindowsInvariant
<1> QED BY <1>2, <1>7, <1>8, <1>9, <1>10, <1>11, <1>12 DEF FormStep, JsonTabs

\* Steps that send the document, and leave what the page shows.
PageStep == StartLoad \/ SectionSaveButton
ChannelStep == DeleteChannel \/ SaveChannel
LEMMA AskStepKeepsSettings ==
    ASSUME SettingsInvariant, PageStep
    PROVE  /\ SettingsInvariant'
           /\ requests' = requests \/ requests'[Len(requests')].kind \in {"load", "page"}
<1>1. IsDocument(form) /\ IsDocument(CollectSettings(form))
  BY CollectedIsDocument DEF SettingsInvariant, ShownInvariant
<1>2. UNCHANGED <<stored, form, listed, json, drawer, editor>>
  BY DEF PageStep, StartLoad, SectionSaveButton, sheet, windows
<1>3. \/ requests' = requests \/ Send("load", form) \/ Send("page", CollectSettings(form))
  BY DEF PageStep, StartLoad, SectionSaveButton, StartSave
<1>4. /\ RequestsInvariant'
      /\ requests' = requests \/ requests'[Len(requests')].kind \in {"load", "page"}
  <2>1. CASE requests' = requests BY <2>1 DEF SettingsInvariant, RequestsInvariant
  <2>2. CASE Send("load", form) BY <1>1, <2>2, SendKeepsRequests DEF SettingsInvariant
  <2>3. CASE Send("page", CollectSettings(form)) BY <1>1, <2>3, SendKeepsRequests DEF SettingsInvariant
  <2> QED BY <1>3, <2>1, <2>2, <2>3
<1> QED BY <1>2, <1>4 DEF SettingsInvariant, StoredInvariant, ShownInvariant, WindowsInvariant

\* The channels that are sent are those of the table, but for one of them.
LEMMA ChannelStepSends ==
    ASSUME SettingsInvariant, ChannelStep
    PROVE  \E kind, channels : IsChannels(channels) /\ Send(kind, Scoped([form EXCEPT !.channels = channels]))
<1>1. IsChannels(listed) /\ DOMAIN drawer.channel = FieldsOfChannel
  BY DEF SettingsInvariant, ShownInvariant, WindowsInvariant
<1>2. IsSequence(listed) BY <1>1 DEF IsChannels
<1>3. CASE DeleteChannel
  <2>1. PICK i \in DOMAIN listed : Send("channels", Scoped([form EXCEPT !.channels = RemoveAt(listed, i)]))
    BY <1>3 DEF DeleteChannel, PersistChannels
  <2>2. IsChannels(RemoveAt(listed, i)) BY <1>1, <1>2, RemoveIsSequence DEF IsChannels
  <2> QED BY <2>1, <2>2
<1>4. CASE SaveChannel
  <2> DEFINE channels == IF drawer.index \in DOMAIN listed THEN [listed EXCEPT ![drawer.index] = drawer.channel]
                         ELSE Append(listed, drawer.channel)
  <2>1. Send("drawer", Scoped([form EXCEPT !.channels = channels])) BY <1>4 DEF SaveChannel
  <2>2. IsChannels(channels)
    <3>1. CASE drawer.index \in DOMAIN listed
      <4> DEFINE f == [listed EXCEPT ![drawer.index] = drawer.channel]
      <4>1. f = [i \in DOMAIN listed |-> f[i]] OBVIOUS
      <4>2. \A i \in DOMAIN listed : DOMAIN f[i] = FieldsOfChannel BY <1>1 DEF IsChannels
      <4> HIDE DEF f
      <4>3. IsChannels(f) BY <1>1, <4>1, <4>2, MapIsChannels
      <4> QED BY <3>1, <4>3 DEF f
    <3>2. CASE drawer.index \notin DOMAIN listed
      <4>1. IsChannels(Append(listed, drawer.channel)) BY <1>1, <1>2, AppendIsSequence DEF IsChannels
      <4> QED BY <3>2, <4>1
    <3> QED BY <3>1, <3>2
  <2> HIDE DEF channels
  <2> QED BY <2>1, <2>2
<1> QED BY <1>3, <1>4 DEF ChannelStep

LEMMA ChannelStepKeepsSettings ==
    ASSUME SettingsInvariant, ChannelStep
    PROVE  SettingsInvariant'
<1>1. PICK kind, channels : IsChannels(channels) /\ Send(kind, Scoped([form EXCEPT !.channels = channels]))
  BY ChannelStepSends
<1>2. IsDocument(Scoped([form EXCEPT !.channels = channels]))
  BY <1>1, FieldsReplaced, ScopedIs DEF SettingsInvariant, ShownInvariant
<1>3. RequestsInvariant' BY <1>1, <1>2, SendKeepsRequests DEF SettingsInvariant
<1>4. UNCHANGED <<stored, form, listed, json, drawer, editor>>
  BY DEF ChannelStep, DeleteChannel, SaveChannel, sheet, windows
<1> QED BY <1>3, <1>4 DEF SettingsInvariant, StoredInvariant, ShownInvariant, WindowsInvariant

\* An editor closes: the form is what it was, or is saved as it is.
EditorStep == OAuthProviderEditor \/ MailTemplateEditor
LEMMA EditorStepKeepsSettings ==
    ASSUME SettingsInvariant, EditorStep
    PROVE  /\ SettingsInvariant'
           /\ requests' = requests \/ requests'[Len(requests')].kind = "page"
<1>1. IsDocument(form) /\ ShownInvariant /\ RequestsInvariant
      /\ (editor.on \in Providers => IsDocument(Head(editor.snapshot)))
  BY DEF SettingsInvariant, ShownInvariant, WindowsInvariant
<1>2. UNCHANGED <<stored, listed, json, drawer>> /\ editor' = NoEditor
  BY DEF EditorStep, OAuthProviderEditor, MailTemplateEditor
<1>3. \/ form' = form
      \/ editor.on \in Providers /\ form' = Head(editor.snapshot)
      \/ \E text : form' = [form EXCEPT !.rest = text]
  BY DEF EditorStep, OAuthProviderEditor, MailTemplateEditor
<1>4. IsDocument(form')
  <2>1. \A v : IsDocument([form EXCEPT !.rest = v]) BY <1>1, FieldsReplaced
  <2> QED BY <1>1, <1>3, <2>1
<1>5. requests' = requests \/ Send("page", CollectSettings(form'))
  BY Zenon DEF EditorStep, OAuthProviderEditor, MailTemplateEditor, StartSave
<1>6. IsDocument(CollectSettings(form')) BY <1>1, <1>4, CollectedIsDocument
<1>7. /\ RequestsInvariant'
      /\ requests' = requests \/ requests'[Len(requests')].kind = "page"
  <2>1. CASE requests' = requests BY <1>1, <2>1 DEF RequestsInvariant
  <2>2. CASE Send("page", CollectSettings(form')) BY <1>1, <1>6, <2>2, SendKeepsRequests
  <2> QED BY <1>5, <2>1, <2>2
<1>8. "on" \in DOMAIN NoEditor /\ NoEditor.on \notin Providers BY DEF NoEditor, Providers, None
<1> QED BY <1>1, <1>2, <1>4, <1>7, <1>8 DEF SettingsInvariant, StoredInvariant, ShownInvariant, WindowsInvariant

LEMMA StepsOfSettings ==
    ASSUME SettingsNext
    PROVE  \/ WindowStep \/ FormStep \/ PageStep \/ ChannelStep \/ EditorStep
           \/ \E k \in DOMAIN requests : Served(k) \/ Arrived(k) \/ Failed(k)
<1>1. SettingsReplies => WindowStep \/ \E k \in DOMAIN requests : Served(k) \/ Arrived(k) \/ Failed(k)
  BY DEF SettingsReplies, WindowStep
<1>2. Admin => WindowStep \/ FormStep \/ PageStep \/ ChannelStep \/ EditorStep
  BY DEF Admin, Header, PublicModelsTab, BillingTab, ChannelsTab, PublicTab, PrivateTab, RuntimeTab, PagesTab,
         BillingKycTab, CloudStorageTab, MailTab, AuthProviderSummaryCard, ThirdPartyTab, RefreshSettings,
         LoadSettings, ChannelDrawer, ModelSelector, TestDialog, OAuthProviderFields, MetaMaskProviderFields,
         CustomProviderFields, WindowStep, FormStep, PageStep, ChannelStep, EditorStep
<1> QED BY <1>1, <1>2 DEF SettingsNext

LEMMA SettingsInvariantKept == SettingsInvariant /\ [SettingsNext]_settingsVars => SettingsInvariant'
<1> SUFFICES ASSUME SettingsInvariant, [SettingsNext]_settingsVars PROVE SettingsInvariant' OBVIOUS
<1>1. CASE UNCHANGED settingsVars
  BY <1>1 DEF settingsVars, sheet, windows, SettingsInvariant, StoredInvariant, ShownInvariant,
              RequestsInvariant, WindowsInvariant
<1> QED BY <1>1, StepsOfSettings, WindowStepKeepsSettings, FormStepKeepsSettings, AskStepKeepsSettings,
           ChannelStepKeepsSettings, EditorStepKeepsSettings, ServedKeepsSettings, ArrivedKeepsSettings,
           FailedKeepsSettings

LEMMA SettingsOpen == SettingsInit => SettingsInvariant
<1> SUFFICES ASSUME SettingsInit PROVE SettingsInvariant OBVIOUS
<1>1. IsDocument(EmptySettings)
  <2>1. IsChannels(<<>>)
    <3>1. <<>> \in Seq(ToSet(<<>>)) /\ DOMAIN <<>> = {} OBVIOUS
    <3> QED BY <3>1 DEF IsChannels, IsSequence
  <2> QED BY <2>1 DEF EmptySettings, IsDocument, DocumentFields
<1>2. ASSUME NEW names PROVE IsDocument(Start(names))
  <2> DEFINE m == CHOOSE x \in Models : TRUE
             f == [i \in 1 .. 2 |->
                      [id |-> i, name |-> names[i], on |-> TRUE, key |-> i,
                       ids |-> IF i = 1 THEN [x \in {m} |-> 1] ELSE [x \in Models |-> IF x = m THEN 2 ELSE 3]]]
  <2>1. DOMAIN Start(names) = DocumentFields /\ Start(names).channels = f
    BY DEF Start, DocumentFields
  <2>2. \A i \in 1 .. 2 : DOMAIN f[i] = FieldsOfChannel BY DEF FieldsOfChannel
  <2>3. f = [i \in 1 .. 2 |-> f[i]] /\ DOMAIN f = 1 .. 2 OBVIOUS
  <2> HIDE DEF f
  <2>4. IsSequence(f) BY <2>3, SequenceMade
  <2> QED BY <2>1, <2>2, <2>3, <2>4 DEF IsDocument, IsChannels
<1>3. IsDocument(stored) /\ form = EmptySettings /\ listed = <<>>
  BY <1>2 DEF SettingsInit
<1>4. IsChannels(listed) BY <1>1, <1>3 DEF IsDocument, EmptySettings
<1>5. json = [tab \in Tabs |-> [mode |-> "visual", doc |-> <<>>]] BY DEF SettingsInit
<1>6. RequestsInvariant
  <2> DEFINE r == [kind |-> "load", doc |-> form, served |-> FALSE, answer |-> form]
  <2>1. requests = <<r>> BY DEF SettingsInit
  <2>2. DOMAIN r = {"kind", "doc", "served", "answer"} /\ IsDocument(r.doc) /\ IsDocument(r.answer)
    BY <1>1, <1>3
  <2> HIDE DEF r
  <2>3. IsSequence(<<r>>)
    <3>1. <<r>> \in Seq({r}) OBVIOUS
    <3> QED BY <3>1, SequenceOf
  <2> QED BY <2>1, <2>2, <2>3 DEF RequestsInvariant
<1>7. WindowsInvariant
  <2>1. drawer = NoDrawer /\ editor = NoEditor BY DEF SettingsInit
  <2>2. "on" \in DOMAIN NoEditor /\ NoEditor.on \notin Providers BY DEF NoEditor, Providers, None
  <2> QED BY <2>1, <2>2, NoDrawerShape DEF WindowsInvariant
<1>8. ShownInvariant BY <1>1, <1>3, <1>4, <1>5 DEF ShownInvariant
<1> QED BY <1>3, <1>6, <1>7, <1>8 DEF SettingsInvariant, StoredInvariant

LEMMA FirstOf ==
    ASSUME NEW S, S \subseteq Nat, S # {}
    PROVE  Min(S) \in S
<1>1. PICK m \in S : \A k \in S : ~(<<k, m>> \in OpToRel(<, Nat))
  BY NatLessThanWellFounded, WFMin
<1>2. S \subseteq Nat OBVIOUS
<1>3. \A k \in S : ~(k < m) BY <1>1, <1>2 DEF OpToRel
<1>4. m \in S /\ \A k \in S : m <= k BY <1>2, <1>3
<1> QED BY <1>4 DEF Min

\* Only a save that is served changes what is stored.
LEMMA StoredStays ==
    ASSUME WindowStep \/ FormStep \/ PageStep \/ ChannelStep \/ EditorStep
           \/ \E k \in DOMAIN requests : Arrived(k) \/ Failed(k)
    PROVE  stored' = stored
<1>1. WindowStep => stored' = stored
  BY DEF WindowStep, MailTemplateBlock, SetTemplateField, OpenChannelDrawer, CloseChannelDrawer, ChannelFields,
         OpenChannelModelSelector, CloseChannelModelSelector, ToggleSelectedModel, ConfirmChannelModelSelector,
         FetchChannelModelList, SendTestMail, TestCurrentCloudStorage, OpenTestDialog, CloseTestDialog,
         TestModelOnline, OpenAuthProviderEditor, ProbeAnswered, ModelTested, ChannelModelsFetched, sameButProbes
<1>2. FormStep => stored' = stored
  BY DEF FormStep, Rest, PublicModels, SetModelCost, JsonTabs, ToggleMode, WriteJson, AddCustomAuthProvider,
         ChangeForm
<1>3. PageStep \/ ChannelStep \/ EditorStep => stored' = stored
  BY DEF PageStep, StartLoad, SectionSaveButton, ChannelStep, DeleteChannel, SaveChannel,
         EditorStep, OAuthProviderEditor, MailTemplateEditor
<1>4. ASSUME NEW k, Arrived(k) \/ Failed(k) PROVE stored' = stored BY <1>4 DEF Arrived, Failed
<1> QED BY <1>1, <1>2, <1>3, <1>4

(* A channel in the place of one keeps its key, while every one of the     *)
(* document has one.                                                       *)
THEOREM KeysNeverLost == SettingsSpec => KeysStay
<1>1. ASSUME SettingsInvariant, [SettingsNext]_settingsVars,
             \A j \in DOMAIN stored.channels : stored.channels[j].key # 0,
             NEW i \in DOMAIN stored.channels \cap DOMAIN stored'.channels
      PROVE  stored'.channels[i].key # 0
  <2>1. CASE stored' = stored BY <1>1, <2>1
  <2>2. CASE stored' # stored
    <3>0. ~UNCHANGED settingsVars BY <2>2 DEF settingsVars
    <3>1. PICK k \in DOMAIN requests : Served(k)
      BY <1>1, <2>2, <3>0, StepsOfSettings, StoredStays
    <3> DEFINE d == requests[k].doc
               same == {j \in DOMAIN stored.channels : stored.channels[j].name = d.channels[i].name}
    <3>2. stored' = SaveSettings(d) BY <2>2, <3>1 DEF Served
    <3>3. IsDocument(d) /\ IsDocument(stored)
      BY <1>1 DEF SettingsInvariant, StoredInvariant, RequestsInvariant
    <3> HIDE DEF d
    <3>4. i \in DOMAIN d.channels /\ stored'.channels[i].key = KeepKey(d.channels[i], i)
      BY <1>1, <3>2, <3>3, SavedKeys
    <3>5. same \subseteq Nat
      BY <3>3, ListElements DEF IsDocument, IsChannels
    <3>6. same # {} => Min(same) \in DOMAIN stored.channels BY <3>5, FirstOf
    <3>7. KeepKey(d.channels[i], i) # 0
      <4>1. KeepKey(d.channels[i], i) = IF d.channels[i].key # 0 THEN d.channels[i].key
                                        ELSE IF same # {} THEN stored.channels[Min(same)].key
                                        ELSE IF i \in DOMAIN stored.channels THEN stored.channels[i].key ELSE 0
        BY DEF KeepKey
      <4> HIDE DEF same
      <4> QED BY <1>1, <3>6, <4>1
    <3> QED BY <3>4, <3>7
  <2> QED BY <2>1, <2>2
<1>2. SettingsInvariant /\ [SettingsNext]_settingsVars =>
        [(\A j \in DOMAIN stored.channels : stored.channels[j].key # 0) =>
           \A i \in DOMAIN stored.channels \cap DOMAIN stored'.channels : stored'.channels[i].key # 0]_settingsVars
  BY <1>1
<1> QED BY <1>2, SettingsOpen, SettingsInvariantKept, PTL DEF SettingsSpec, KeysStay

\* The price that is found by an identity is the model's own, while none is renamed.
LEMMA PriceFound ==
    ASSUME NEW d, NEW channels, IsChannels(channels), PricesNamed(d), NamesKept(d.channels, channels),
           NEW open, NEW m \in open \cap Offered(channels), m \in DOMAIN d.prices
    PROVE  SyncModelCosts(d.prices, open, channels)[m].credits = d.prices[m].credits
<1> DEFINE id == ChannelModelId(channels, m)
           same == {k \in DOMAIN d.prices : id # 0 /\ d.prices[k].id = id}
           with == {i \in DOMAIN channels : /\ channels[i].on
                                            /\ m \in DOMAIN channels[i].ids /\ channels[i].ids[m] # 0}
<1>1. SyncModelCosts(d.prices, open, channels)[m].credits
      = IF same # {} THEN d.prices[CHOOSE k \in same : TRUE].credits
        ELSE IF m \in DOMAIN d.prices THEN d.prices[m].credits ELSE 0
  BY DEF SyncModelCosts, Costs
<1>2. ASSUME NEW k \in same PROVE k = m
  <2>1. id # 0 /\ d.prices[k].id = id OBVIOUS
  <2>2. with # {} BY <2>1 DEF ChannelModelId
  <2>3. with \subseteq Nat BY ListElements DEF IsChannels
  <2>4. Min(with) \in with BY <2>2, <2>3, FirstOf
  <2>5. id = channels[Min(with)].ids[m] BY <2>2 DEF ChannelModelId
  <2>6. PICK a \in ToSet(channels) : m \in DOMAIN a.ids /\ a.ids[m] = id
    BY <2>4, <2>5 DEF ToSet
  <2>7. PICK c \in ToSet(d.channels) : k \in DOMAIN c.ids /\ c.ids[k] = id
    BY <2>1 DEF PricesNamed
  <2> HIDE DEF id
  <2> QED BY <2>1, <2>6, <2>7 DEF NamesKept
<1> HIDE DEF same
<1>3. CASE same = {} BY <1>1, <1>3
<1>4. CASE same # {}
  <2>1. (CHOOSE k \in same : TRUE) \in same BY <1>4
  <2>2. (CHOOSE k \in same : TRUE) = m BY <1>2, <2>1
  <2> QED BY <1>1, <1>4, <2>2
<1> QED BY <1>3, <1>4

(* A change of the channels sends every model that stays open with its own *)
(* price.                                                                  *)
THEOREM PricesNeverMove == SettingsSpec => PricesStay
<1>1. ASSUME SettingsInvariant, [SettingsNext]_settingsVars,
             Len(requests') > Len(requests), requests'[Len(requests')].kind \in {"channels", "drawer"},
             PricesNamed(form), NamesKept(form.channels, requests'[Len(requests')].doc.channels),
             NEW m \in requests'[Len(requests')].doc.open \cap DOMAIN form.prices
      PROVE  requests'[Len(requests')].doc.prices[m].credits = form.prices[m].credits
  <2>0. Len(requests) \in Nat /\ IsDocument(form)
    BY <1>1, ListElements DEF SettingsInvariant, RequestsInvariant, ShownInvariant
  <2>1. requests' # requests BY <1>1, <2>0
  <2>2. ~UNCHANGED settingsVars BY <2>1 DEF settingsVars
  <2>3. ~WindowStep /\ ~FormStep BY <1>1, <2>1, WindowStepKeepsSettings, FormStepKeepsSettings
  <2>4. ~PageStep /\ ~EditorStep BY <1>1, <2>1, AskStepKeepsSettings, EditorStepKeepsSettings
  <2>5. ASSUME NEW k \in DOMAIN requests, Served(k) \/ Arrived(k) \/ Failed(k) PROVE FALSE
    <3>1. Len(requests') = Len(requests) \/ Len(requests') < Len(requests)
      BY <1>1, <2>5, ServedKeepsSettings, ArrivedKeepsSettings, FailedKeepsSettings
    <3>2. Len(requests') \in Nat
      BY <1>1, SettingsInvariantKept, ListElements DEF SettingsInvariant, RequestsInvariant
    <3> QED BY <1>1, <2>0, <3>1, <3>2
  <2>6. ChannelStep BY <1>1, <2>2, <2>3, <2>4, <2>5, StepsOfSettings
  <2>7. PICK kind, channels : IsChannels(channels) /\ Send(kind, Scoped([form EXCEPT !.channels = channels]))
    BY <1>1, <2>6, ChannelStepSends
  <2> DEFINE d == [form EXCEPT !.channels = channels]
  <2>8. IsDocument(d) BY <2>0, <2>7, FieldsReplaced
  <2>9. d.channels = channels /\ d.prices = form.prices /\ d.open = form.open
    BY <2>0 DEF IsDocument, DocumentFields
  <2> HIDE DEF d
  <2>10. /\ IsDocument(Scoped(d)) /\ Scoped(d).channels = channels
         /\ Scoped(d).open = form.open \cap Offered(channels)
         /\ Scoped(d).prices = SyncModelCosts(form.prices, form.open \cap Offered(channels), channels)
    BY <2>8, <2>9, ScopedIs
  <2>11. requests'[Len(requests')].doc = Scoped(d)
    BY <1>1, <2>7, <2>10, SendKeepsRequests DEF SettingsInvariant, d
  <2> QED BY <1>1, <2>7, <2>10, <2>11, PriceFound
<1>2. SettingsInvariant /\ [SettingsNext]_settingsVars =>
        [Len(requests') > Len(requests) /\ requests'[Len(requests')].kind \in {"channels", "drawer"} =>
           LET sent == requests'[Len(requests')].doc
           IN  PricesNamed(form) /\ NamesKept(form.channels, sent.channels) =>
                   \A m \in sent.open \cap DOMAIN form.prices : sent.prices[m].credits = form.prices[m].credits]_settingsVars
  BY <1>1
<1> QED BY <1>2, SettingsOpen, SettingsInvariantKept, PTL DEF SettingsSpec, PricesStay
=============================================================================
