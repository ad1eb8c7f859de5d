------------------------------ MODULE AdminLists ------------------------------
(***************************************************************************)
(* The list pages of the administration, (admin)/admin/*: users, prompts,  *)
(* assets and logs, which ask through react-query, and plans, community    *)
(* works and the database, which keep their own state.  A page shows rows  *)
(* that were read some time ago, edits one of them in a dialog and sends   *)
(* it back whole, while answers of earlier requests come in.               *)
(*                                                                         *)
(* Of a row: whose details it carries and which edition of them, the       *)
(* balance of a user, and whether it is out of the lists (the group of a   *)
(* prompt switched off, a work banned).                                    *)
(***************************************************************************)
EXTENDS Integers, Sequences, FiniteSets, SequencesExt

CONSTANTS
    Base,        \* the rows there are, numbered from 1; one more may be added
    MaxChanges,  \* bound: changes in flight
    MaxClicks    \* bound: things done at the page, and requests that fail

\* The rows there are, are numbered from 1.
ASSUME ListsAssumption == IsFiniteSet(Base) /\ Base = 1 .. Cardinality(Base)

VARIABLES
    office,      \* which page it is
    rows,        \* the server's
    seen,        \* the rows that are listed
    known,       \* the query of these criteria has been answered once
    criteria,    \* the keyword and the page of the list
    fetch,       \* the request of the query under way
    left,        \* queries of criteria that were left while their request was under way
    loads,       \* the requests of a page that keeps its own state
    spinning,    \* its isLoading: whichever of them ends first ends it
    changes,     \* mutations under way
    editing,     \* the row in the dialog that edits
    entered,     \* the fields of its form, which outlive the dialog
    removing,    \* the row in the dialog that deletes, 0 for none
    ticked, over, \* prompts that are ticked; the other dialog that is open
    unseen,      \* something has changed that the page does not ask for: it was not told of
                 \* it, or it awaits an answer that was read before
    clicks

dialogs == <<editing, entered, removing, ticked, over>>
list == <<seen, known, criteria, fetch, left, loads, spinning>>
listVars == <<office, rows, list, changes, dialogs, unseen, clicks>>

Queried == {"users", "prompts", "assets", "logs"}
Offices == Queried \cup {"plans", "community", "database"}
New == 0
Rows == 1 .. Cardinality(Base) + 1
Blank == [of |-> 0, edition |-> 0]
FirstPage == [keyword |-> "", page |-> 1]
NoFetch == [at |-> "none", criteria |-> <<>>, items |-> <<>>]
NoEditing == [on |-> FALSE, row |-> New]
Click == clicks < MaxClicks /\ clicks' = clicks + 1

------------------------------------------------------------------------------
(* What a request for a list is answered *)

PageSize == 1
Matches(all, c) ==
    {r \in Rows : all[r].there /\ (c.keyword = "" \/ r = 1) /\ (office = "prompts" => ~all[r].off)}
ShownRows(all, c) ==
    LET found == Matches(all, c)
    IN  [r \in {x \in found : 1 + Cardinality({q \in found : q < x}) \div PageSize = c.page} |-> all[r]]

------------------------------------------------------------------------------
(* The pages that ask through a query *)

Ask(c) == [at |-> "asked", criteria |-> c, items |-> <<>>]

\* Whoever awaits the request for these criteria goes on when it is answered or fails; what
\* takes its place is awaited instead.
Released(all, c) ==
    {IF x.at = "settling" /\ x.awaits = c THEN [x EXCEPT !.at = "settled"] ELSE x : x \in all}

\* Mutant: a request that is under way serves as the refetch.
InvalidateUnlessAsked(c) == IF fetch.at = "none" THEN Ask(c) ELSE fetch

\* The refetch of an invalidated query takes the place of the one under way, except when
\* nothing is known yet: then it is the one under way.
Joins == fetch.at # "none" /\ ~known
Invalidate(c) == IF Joins THEN fetch ELSE Ask(c)

\* Nothing cancels the request of criteria that are left, and the query lasts as long as it
\* does.
LeaveQuery ==
    IF fetch.at = "none" THEN left
    ELSE left \cup {[fetch |-> fetch, seen |-> seen, known |-> known]}

\* updateFilters: another keyword starts at the first page; other criteria are another
\* query.  One that was left is joined again, with what it lists and the request under way,
\* though that may have been read before a change; of any other nothing is known yet.
LeftQueries(next) == {q \in left : q.fetch.criteria = next}
UpdateFilters(next) ==
    /\ office \in Queried /\ next # criteria /\ criteria' = next
    /\ \/ /\ LeftQueries(next) = {}
          /\ fetch' = Ask(next) /\ seen' = <<>> /\ known' = FALSE /\ left' = LeaveQuery
          /\ UNCHANGED unseen
       \/ \E q \in LeftQueries(next) :
             /\ fetch' = q.fetch /\ seen' = q.seen /\ known' = q.known /\ left' = LeaveQuery \ {q}
             /\ unseen' = (q.fetch.at = "served" /\ q.fetch.items # ShownRows(rows, next))
    /\ UNCHANGED <<office, rows, loads, spinning, changes, dialogs>>

\* The reload button; a window that is looked at again asks only when no request is under way.
Refetch ==
    /\ office \in Queried /\ fetch' = Invalidate(criteria)
    /\ UNCHANGED <<office, rows, seen, known, criteria, left, loads, spinning, changes, dialogs, unseen>>

FetchServed ==
    /\ fetch.at = "asked"
    /\ fetch' = [fetch EXCEPT !.at = "served", !.items = ShownRows(rows, fetch.criteria)]
    /\ unseen' = FALSE
    /\ UNCHANGED <<office, rows, seen, known, criteria, left, loads, spinning, changes, dialogs, clicks>>

FetchArrived ==
    /\ fetch.at = "served"
    /\ seen' = fetch.items /\ known' = TRUE /\ fetch' = NoFetch
    /\ changes' = Released(changes, criteria)
    /\ UNCHANGED <<office, rows, criteria, left, loads, spinning, dialogs, unseen, clicks>>

\* What was listed stays.
FetchFailed ==
    /\ fetch.at # "none" /\ Click
    /\ fetch' = NoFetch /\ unseen' = TRUE /\ changes' = Released(changes, criteria)
    /\ UNCHANGED <<office, rows, seen, known, criteria, left, loads, spinning, dialogs>>

LeftServed(q) ==
    /\ q \in left /\ q.fetch.at = "asked"
    /\ LET answer == ShownRows(rows, q.fetch.criteria)
       IN  left' = (left \ {q}) \cup {[q EXCEPT !.fetch.at = "served", !.fetch.items = answer]}
    /\ UNCHANGED <<office, rows, seen, known, criteria, fetch, loads, spinning, changes, dialogs, unseen, clicks>>

\* Nobody looks at the query any more: it is dropped with its answer.
LeftEnds(q) ==
    /\ left' = left \ {q} /\ changes' = Released(changes, q.fetch.criteria)
    /\ UNCHANGED <<office, rows, seen, known, criteria, fetch, loads, spinning, dialogs, unseen>>
LeftArrived(q) == q \in left /\ q.fetch.at = "served" /\ LeftEnds(q) /\ UNCHANGED clicks
LeftFailed(q) == q \in left /\ LeftEnds(q) /\ Click

------------------------------------------------------------------------------
(* The pages that keep their own state: the last answer that comes in is listed *)

Load(c) == Append(loads, Ask(c))

LoadServed(k) ==
    /\ k \in DOMAIN loads /\ loads[k].at = "asked"
    /\ loads' = [loads EXCEPT ![k].at = "served", ![k].items = ShownRows(rows, loads[k].criteria)]
    /\ UNCHANGED <<office, rows, seen, known, criteria, fetch, left, spinning, changes, dialogs, unseen, clicks>>

LoadArrived(k) ==
    /\ k \in DOMAIN loads /\ loads[k].at = "served"
    /\ seen' = loads[k].items /\ loads' = RemoveAt(loads, k) /\ spinning' = FALSE
    /\ UNCHANGED <<office, rows, known, criteria, fetch, left, changes, dialogs, unseen, clicks>>

LoadFailed(k) ==
    /\ k \in DOMAIN loads /\ loads' = RemoveAt(loads, k) /\ spinning' = FALSE
    /\ UNCHANGED <<office, rows, seen, known, criteria, fetch, left, changes, dialogs, unseen>>

LoadItems ==
    /\ office \notin Queried /\ Len(loads) < 2 /\ loads' = Load(criteria) /\ spinning' = TRUE
    /\ UNCHANGED <<office, rows, seen, known, criteria, fetch, left, changes, dialogs, unseen>>

\* The effect of the community page loads with the new criteria.
SearchCommunity(next) ==
    /\ office = "community" /\ Len(loads) < 2 /\ next # criteria
    /\ criteria' = next /\ loads' = Load(next) /\ spinning' = TRUE
    /\ UNCHANGED <<office, rows, seen, known, fetch, left, changes, dialogs, unseen>>

\* The same keyword is searched again on the page that was shown, and the effect loads
\* the first one.
SearchAgain ==
    /\ office = "community" /\ loads = <<>>
    /\ criteria' = [criteria EXCEPT !.page = 1] /\ spinning' = TRUE
    /\ loads' = <<Ask(criteria)>> \o (IF criteria.page = 1 THEN <<>> ELSE <<Ask(criteria')>>)
    /\ UNCHANGED <<office, rows, seen, known, fetch, left, changes, dialogs, unseen>>

------------------------------------------------------------------------------
(* Changes: asked, served, then the list is asked again (settling), and the dialog goes on *)

Change(kind, row) ==
    [kind |-> kind, row |-> row, fields |-> entered, ids |-> ticked, at |-> "asked",
     awaits |-> FirstPage, saved |-> Blank]
Mutate(kind, row) == Cardinality(changes) < MaxChanges /\ changes' = changes \cup {Change(kind, row)}
Becomes(c, d) == changes' = (changes \ {c}) \cup {d}

\* SaveUser, SavePrompt, SaveAsset, SavePlan: the whole row, which is there again if it was
\* deleted; the balance is the server's.
Saved(c, r) ==
    [rows EXCEPT ![r] = [there |-> TRUE, of |-> c.fields.of, edition |-> c.fields.edition,
                         credits |-> IF @.there THEN @.credits ELSE 0, off |-> @.there /\ @.off]]

ChangeServed(c) ==
    /\ c \in changes /\ c.at = "asked"
    /\ \/ /\ c.kind = "save"
          /\ \E r \in Rows :
                /\ IF c.row = New THEN r \notin Base /\ ~rows[r].there ELSE r = c.row
                /\ rows' = Saved(c, r)
       \/ /\ c.kind = "adjust" /\ rows[c.row].there
          /\ rows' = [rows EXCEPT ![c.row].credits = 1]
       \/ /\ c.kind = "delete" /\ rows' = [rows EXCEPT ![c.row].there = FALSE]
       \/ /\ c.kind = "batch"
          /\ rows' = [r \in Rows |-> [rows[r] EXCEPT !.there = @ /\ r \notin c.ids]]
       \/ /\ c.kind = "sync" /\ rows' = [rows EXCEPT ![1].there = TRUE]
       \/ /\ c.kind = "category" /\ rows' = [r \in Rows |-> [rows[r] EXCEPT !.off = ~@]]
       \/ /\ c.kind = "ban" /\ rows[c.row].there /\ rows' = [rows EXCEPT ![c.row].off = TRUE]
    /\ Becomes(c, [c EXCEPT !.at = "served", !.saved = IF c.row = New THEN Blank ELSE rows'[c.row]])
    /\ UNCHANGED <<office, list, dialogs, unseen, clicks>>

\* onSuccess
ChangeAnswered(c) ==
    /\ c \in changes /\ c.at = "served"
    /\ IF office \in Queried
       THEN /\ fetch' = Invalidate(criteria)
            /\ Becomes(c, [c EXCEPT !.at = "settling", !.awaits = criteria])
            /\ unseen' = (unseen \/ (Joins /\ fetch.at = "served"))
       ELSE Becomes(c, [c EXCEPT !.at = "settled"]) /\ UNCHANGED <<fetch, unseen>>
    /\ UNCHANGED <<office, rows, seen, known, criteria, left, loads, spinning, dialogs, clicks>>

\* onError: the dialog stays; the server may have done it.
ChangeFailed(c) ==
    /\ c \in changes /\ Click
    /\ \/ c.at = "asked" /\ UNCHANGED unseen
       \/ c.at = "served" /\ unseen' = TRUE
    /\ changes' = changes \ {c}
    /\ UNCHANGED <<office, rows, list, dialogs>>

Details(row) == [of |-> row.of, edition |-> row.edition]

\* Mutant: the form is only filled when a dialog opens.
FillOnOpen(was, is, row) == IF was.on THEN entered ELSE Details(row)

\* The effect of the dialog: the fields of a row take the place of those in the form, and
\* those of a row to be added leave them; the plans page has a blank row for that.
FillForm(was, is, row) ==
    IF is.row # New THEN Details(row)
    ELSE IF office = "plans" THEN Blank ELSE entered

\* What awaited the change: the dialog of it, or whatever is open in its place, is put
\* away; an adjusted user is shown again.
Settled(c) ==
    /\ c \in changes /\ c.at = "settled" /\ changes' = changes \ {c}
    /\ CASE c.kind = "save" ->
                /\ editing' = NoEditing
                /\ entered' = IF office = "plans" THEN Blank ELSE entered
                /\ loads' = IF office = "plans" THEN Load(criteria) ELSE loads
                /\ UNCHANGED <<seen, removing, ticked, over>>
         [] c.kind = "adjust" ->
                /\ editing' = [on |-> TRUE, row |-> c.row]
                /\ entered' = FillForm(editing, [on |-> TRUE, row |-> c.row], c.saved)
                /\ UNCHANGED <<seen, loads, removing, ticked, over>>
         [] c.kind = "delete" -> removing' = 0 /\ UNCHANGED <<seen, loads, editing, entered, ticked, over>>
         [] c.kind = "batch" -> ticked' = {} /\ over' = "none" /\ UNCHANGED <<seen, loads, editing, entered, removing>>
         [] c.kind = "sync" -> over' = "none" /\ UNCHANGED <<seen, loads, editing, entered, removing, ticked>>
         [] c.kind = "category" -> UNCHANGED <<seen, loads, dialogs>>
         [] OTHER -> /\ seen' = [r \in DOMAIN seen |-> IF r = c.row THEN c.saved ELSE seen[r]]
                     /\ removing' = 0 /\ UNCHANGED <<loads, editing, entered, ticked, over>>
    /\ UNCHANGED <<office, rows, known, criteria, fetch, left, spinning, unseen, clicks>>

------------------------------------------------------------------------------
(* What the pages offer.  A dialog covers the page, and a list that loads its rows. *)

Free == ~editing.on /\ removing = 0 /\ over = "none"
Pending(kinds) == \E c \in changes : c.kind \in kinds
Loading == fetch.at # "none" \/ spinning \/ Pending({"save", "adjust", "delete", "batch", "category"})

SetEditing(row, details) ==
    /\ editing' = [on |-> TRUE, row |-> row]
    /\ entered' = FillForm(editing, [on |-> TRUE, row |-> row], details)
    /\ UNCHANGED <<office, rows, list, changes, removing, ticked, over, unseen>>

SetRemoving(r) ==
    removing' = r /\ UNCHANGED <<office, rows, list, changes, editing, entered, ticked, over, unseen>>

Tick(r) ==
    /\ ticked' = IF r \in ticked THEN ticked \ {r} ELSE ticked \cup {r}
    /\ UNCHANGED <<office, rows, list, changes, editing, entered, removing, over, unseen>>

UsersTable(r) == office = "users" /\ (SetEditing(r, seen[r]) \/ SetRemoving(r))
PromptsTable(r) == office = "prompts" /\ (SetEditing(r, seen[r]) \/ SetRemoving(r) \/ Tick(r))
AssetsTable(r) == office = "assets" /\ (SetEditing(r, seen[r]) \/ SetRemoving(r))
CommunityTable(r) == office = "community" /\ ~seen[r].off /\ SetRemoving(r)
PlanCard(r) == office = "plans" /\ SetEditing(r, seen[r])

RowButtons ==
    /\ Free
    /\ \E r \in DOMAIN seen :
          \/ ~Loading /\ (UsersTable(r) \/ PromptsTable(r) \/ AssetsTable(r) \/ CommunityTable(r))
          \/ PlanCard(r)

AddButton == Free /\ office \in {"users", "prompts", "assets"} /\ SetEditing(New, Blank)
PlanGrid == Free /\ office = "plans" /\ SetEditing(New, Blank)

Cancel ==
    /\ \/ /\ editing.on /\ editing' = NoEditing
          /\ entered' = IF office = "plans" THEN Blank ELSE entered
          /\ UNCHANGED <<removing, over>>
       \/ removing # 0 /\ removing' = 0 /\ UNCHANGED <<editing, entered, over>>
       \/ over # "none" /\ ~(over = "sync" /\ Pending({"sync"})) /\ over' = "none" /\ UNCHANGED <<editing, entered, removing>>
    /\ UNCHANGED <<office, rows, list, changes, ticked, unseen>>

\* What is typed for a new row are details of its own.
Type ==
    /\ editing.on /\ entered' = [entered EXCEPT !.edition = 2, !.of = IF editing.row = New THEN New ELSE @]
    /\ UNCHANGED <<office, rows, list, changes, editing, removing, ticked, over, unseen>>

Save ==
    /\ editing.on /\ (office = "plans" => ~Pending({"save"})) /\ Mutate("save", editing.row)
    /\ UNCHANGED <<office, rows, list, dialogs, unseen>>

Adjust ==
    /\ editing.on /\ editing.row # New /\ Mutate("adjust", editing.row)
    /\ UNCHANGED <<office, rows, list, dialogs, unseen>>

ConfirmRemoval ==
    /\ removing # 0 /\ Mutate(IF office = "community" THEN "ban" ELSE "delete", removing)
    /\ UNCHANGED <<office, rows, list, dialogs, unseen>>

UserDialog == office = "users" /\ (Type \/ Save \/ Adjust)
PromptDialog == office = "prompts" /\ (Type \/ Save)
AssetDialog == office = "assets" /\ (Type \/ Save)
PlanEditorModal == office = "plans" /\ (Type \/ Save)

\* The groups of prompts may be switched, also where the sources are synchronised.
CategorySwitch ==
    /\ Free \/ over = "sync"
    /\ Mutate("category", New) /\ UNCHANGED dialogs
SyncDialog == over = "sync" /\ ~Pending({"sync"}) /\ Mutate("sync", New) /\ UNCHANGED dialogs
BatchDelete == over = "batch" /\ Mutate("batch", New) /\ UNCHANGED dialogs

PromptTools ==
    /\ office = "prompts"
    /\ \/ /\ Free /\ over' \in (IF ticked = {} THEN {"sync"} ELSE {"sync", "batch"})
          /\ UNCHANGED <<changes, editing, entered, removing, ticked>>
       \/ CategorySwitch \/ SyncDialog \/ BatchDelete
    /\ UNCHANGED <<office, rows, list, unseen>>

Criteria == [keyword : {"", "one"}, page : {1, 2}]
Turned(next) == next.keyword # criteria.keyword => next.page = 1
QueryFilter(place) == office = place /\ \E next \in Criteria : Turned(next) /\ UpdateFilters(next)
UsersFilter == QueryFilter("users")
PromptsFilter == QueryFilter("prompts")
AssetsFilter == QueryFilter("assets")
LogsFilter == QueryFilter("logs")
CommunityFilter == SearchAgain \/ \E next \in Criteria : Turned(next) /\ SearchCommunity(next)
FilterForm == Free /\ (UsersFilter \/ PromptsFilter \/ AssetsFilter \/ LogsFilter \/ CommunityFilter)

Reload == Refetch \/ LoadItems

\* Another administrator, or the user.
EditElsewhere ==
    /\ \E r \in Rows :
          /\ rows[r].there
          /\ \/ rows' = [rows EXCEPT ![r].edition = 1] \/ rows' = [rows EXCEPT ![r].there = FALSE]
    /\ unseen' = TRUE
    /\ UNCHANGED <<office, list, changes, dialogs>>

ListReplies ==
    \/ FetchServed \/ FetchArrived \/ \E q \in left : LeftServed(q) \/ LeftArrived(q)
    \/ \E k \in DOMAIN loads : LoadServed(k) \/ LoadArrived(k)
    \/ \E c \in changes : ChangeServed(c) \/ ChangeAnswered(c) \/ Settled(c)

ListsInit ==
    /\ office \in Offices
    /\ rows = [r \in Rows |-> [there |-> r \in Base, of |-> r, edition |-> 0, credits |-> 0, off |-> FALSE]]
    /\ criteria = FirstPage /\ left = {} /\ seen = <<>> /\ known = FALSE
    /\ fetch = (IF office \in Queried THEN Ask(criteria) ELSE NoFetch)
    /\ loads = (IF office \in Queried THEN <<>> ELSE <<Ask(criteria)>>)
    /\ spinning = (office \notin Queried)
    /\ changes = {} /\ editing = NoEditing /\ entered = Blank /\ removing = 0
    /\ ticked = {} /\ over = "none" /\ unseen = FALSE /\ clicks = 0

ListsNext ==
    \/ Click /\ (FilterForm \/ Reload \/ RowButtons \/ AddButton \/ PlanGrid \/ Cancel)
    \/ Click /\ (UserDialog \/ PromptDialog \/ AssetDialog \/ PlanEditorModal \/ ConfirmRemoval \/ PromptTools \/ EditElsewhere)
    \/ Click /\ \E k \in DOMAIN loads : LoadFailed(k)
    \/ FetchFailed \/ \E q \in left : LeftFailed(q)
    \/ \E c \in changes : ChangeFailed(c)
    \/ ListReplies

\* Every request is answered, and the page takes the answer.
ListsFairness == WF_listVars(ListReplies)

ListsSpec == ListsInit /\ [][ListsNext]_listVars /\ ListsFairness
=============================================================================
