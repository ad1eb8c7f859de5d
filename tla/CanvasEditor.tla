---------------------------- MODULE CanvasEditor ----------------------------
(***************************************************************************)
(* The document of an open canvas page (canvas-client-page.tsx): its nodes *)
(* and connections, the undo history with its debounced commit, the        *)
(* assistant's preview, and the generations, retries and uploads whose     *)
(* answers arrive while the user goes on editing.                          *)
(*                                                                         *)
(* Nodes are numbered in the order in which they are made (nanoid never    *)
(* repeats).  A node's content is the number of the node whose request or  *)
(* upload made it; positions, sizes, titles and prompts are left out: an   *)
(* edit of those is Touch, which changes the references the page compares  *)
(* but no value that is modelled.                                          *)
(***************************************************************************)
EXTENDS Integers, FiniteSets, Sequences

CONSTANTS
    MaxNodes,   \* bound: nodes ever made
    Depth,      \* the entries the undo history keeps (50 in the code)
    MaxActs,    \* bound: operations of the user
    MaxCount,   \* bound: pictures asked for in one generation
    MaxJobs,    \* bound: requests in progress together
    Starts      \* the documents a page may open with

ASSUME DepthAssumption == Depth \in Nat \ {0}
ASSUME BoundsAssumption == MaxNodes \in Nat /\ MaxCount \in Nat

VARIABLES
    nodes, links,   \* the document: node number -> node, set of <<from, to>>
    born,           \* the nodes made so far
    past, last, future,  \* historyRef and lastHistoryRef
    dirty,          \* the document's references are not those of last
    commit,         \* historyCommitTimerRef is set
    replaying,      \* applyingHistoryRef
    applying,       \* the entries whose setTimeout of applyHistory is pending
    held,           \* historyPausedRef: the mouse is down on a node
    preview,        \* agentPreview
    jobs,           \* the requests in progress
    running,        \* runningNodeId
    clipboard,      \* clipboardRef
    acts            \* operations performed, for the bound

docVars == <<nodes, links, born>>
historyVars == <<past, last, future, dirty, commit, replaying, applying, held>>
vars == <<docVars, historyVars, preview, jobs, running, clipboard, acts>>

Node == 1 .. MaxNodes
Unset == 0
NoPreview == [on |-> FALSE]
Kinds == {"text", "image", "video", "config"}
Modes == {"text", "image", "video"}
Statuses == {"idle", "loading", "success", "error"}

Blank(kind) ==
    [kind |-> kind, status |-> "idle", shows |-> Unset,
     root |-> Unset, kids |-> {}, primary |-> Unset]

Doc(ns, ls) == [nodes |-> ns, links |-> ls]

\* What a node may say, and a document, when k nodes have been made.
NodeData(k) == [kind : Kinds, status : Statuses, shows : 0 .. k,
                root : 0 .. k, kids : SUBSET (1 .. k), primary : 0 .. k]
IsDrawing(f, k) ==
    /\ f = [n \in DOMAIN f |-> f[n]] /\ DOMAIN f \subseteq 1 .. k
    /\ \A n \in DOMAIN f : f[n] \in NodeData(k)
AreLinks(ls, k) == ls \subseteq (1 .. k) \X (1 .. k)

ASSUME StartsAssumption ==
    \A start \in Starts : /\ start.born \in 0 .. MaxNodes
                          /\ IsDrawing(start.nodes, start.born)
                          /\ AreLinks(start.links, start.born)

Filled(kind, n) == [Blank(kind) EXCEPT !.status = "success", !.shows = n]
Fresh(k) == born + 1 .. born + k
Pick(f, set) == [x \in DOMAIN f \cap set |-> f[x]]
Without(f, set) == [x \in DOMAIN f \ set |-> f[x]]
\* f, and g where f says nothing; f with one more node or request.
Join(f, g) == [x \in DOMAIN f \cup DOMAIN g |-> IF x \in DOMAIN f THEN f[x] ELSE g[x]]
Added(f, x, rec) == Join(f, [y \in {x} |-> rec])
Update(f, n, rec) == [x \in DOMAIN f |-> IF x = n THEN rec ELSE f[x]]
Mark(f, set, status) ==
    [x \in DOMAIN f |-> IF x \in set THEN [f[x] EXCEPT !.status = status] ELSE f[x]]

(***************************************************************************)
(* The history effect runs after a render in which one of its dependencies *)
(* changed: it drops the pending timer, and sets a new one unless a        *)
(* history entry is being applied, the mouse is down or a preview is open. *)
(***************************************************************************)
\* Mutant: a change during a press is not noticed at all.
HistoryEffectUnheld(changed) ==
    /\ dirty' = (changed /\ held' = "no")
    /\ commit' = (changed /\ ~replaying' /\ held' = "no" /\ ~preview'.on)

HistoryEffect(changed) ==
    /\ dirty' = changed
    /\ commit' = (changed /\ ~replaying' /\ held' = "no" /\ ~preview'.on)

SetDoc(ns, ls) ==
    /\ nodes' = ns
    /\ links' = ls
    /\ HistoryEffect(TRUE)

\* An operation of the user, while the page can still be worked on.
Act ==
    /\ acts < MaxActs
    /\ acts' = acts + 1

\* The keyboard, the toolbar, the nodes and the canvas are inert in a preview;
\* the menu of the top bar, the asset picker and the assistant are not.
Editing == Act /\ ~preview.on

keepHistory == UNCHANGED <<past, last, future, replaying, applying, held>>
keepRest == UNCHANGED <<preview, jobs, running, clipboard>>

------------------------------------------------------------------------------
(* Editing the document *)

CreateNode(kind) ==
    /\ Editing
    /\ keepHistory /\ keepRest
    /\ born < MaxNodes
    /\ born' = born + 1
    /\ SetDoc(Added(nodes, born', Blank(kind)), links)

\* normalizeConnection: two configuration nodes are not joined; a line drawn
\* from a configuration, which has its input handle only, ends there.
Oriented(a, b, ns) == IF ns[a].kind = "config" THEN <<b, a>> ELSE <<a, b>>
Joinable(a, b, ns) == a # b /\ ~(ns[a].kind = "config" /\ ns[b].kind = "config")

ConnectNodes(a, b) ==
    /\ Editing
    /\ keepHistory /\ keepRest
    /\ {a, b} \subseteq DOMAIN nodes
    /\ Joinable(a, b, nodes)
    /\ Oriented(a, b, nodes) \notin links
    /\ SetDoc(nodes, links \cup {Oriented(a, b, nodes)})
    /\ UNCHANGED born

CreateConnectedNode(a, kind) ==
    /\ Editing
    /\ keepHistory /\ keepRest
    /\ born < MaxNodes
    /\ a \in DOMAIN nodes
    /\ born' = born + 1
    /\ LET ns == Added(nodes, born', Blank(kind))
       IN  /\ Joinable(a, born', ns)
           /\ SetDoc(ns, links \cup {Oriented(a, born', ns)})

\* A group that loses children keeps its picture, or takes that of the first
\* child that is left.
Regrouped(ns, gone) ==
    [n \in DOMAIN ns |->
        LET kids == ns[n].kids \ gone
            chosen == IF ns[n].primary \in kids THEN ns[n].primary
                      ELSE IF kids = {} THEN Unset
                      ELSE CHOOSE k \in kids : \A other \in kids : k <= other
        IN  IF kids = ns[n].kids THEN ns[n]
            ELSE [ns[n] EXCEPT !.kids = kids, !.primary = chosen,
                     !.shows = IF chosen \in DOMAIN ns /\ ns[chosen].shows # Unset
                               THEN ns[chosen].shows ELSE @]]

Unlinked(ls, gone) == {l \in ls : l[1] \notin gone /\ l[2] \notin gone}

DeleteNodes(ids) ==
    /\ Editing
    /\ keepHistory
    /\ UNCHANGED <<born, preview, jobs, clipboard>>
    /\ ids # {} /\ ids \subseteq DOMAIN nodes
    /\ LET gone == ids \cup UNION {nodes[n].kids : n \in ids}
       IN  /\ SetDoc(Regrouped(Without(nodes, gone), gone), Unlinked(links, gone))
           /\ running' = IF running \in gone THEN Unset ELSE running

DeleteLink(l) ==
    /\ Editing
    /\ keepHistory /\ keepRest
    /\ l \in links
    /\ SetDoc(nodes, links \ {l})
    /\ UNCHANGED born

ClearCanvas ==
    /\ Editing
    /\ keepHistory
    /\ UNCHANGED <<born, preview, jobs, clipboard>>
    /\ SetDoc(<<>>, {})
    /\ running' = Unset

\* The copy keeps the metadata of its source, the members of its group too.
DuplicateNode(n) ==
    /\ Editing
    /\ keepHistory /\ keepRest
    /\ born < MaxNodes
    /\ n \in DOMAIN nodes
    /\ born' = born + 1
    /\ SetDoc(Added(nodes, born', nodes[n]), links)

CopySelected(ids) ==
    /\ Editing
    /\ ids # {} /\ ids \subseteq DOMAIN nodes
    /\ clipboard' = Doc(Pick(nodes, ids), {l \in links : l[1] \in ids /\ l[2] \in ids})
    /\ UNCHANGED <<docVars, historyVars, preview, jobs, running>>

\* The copies are numbered anew, the links between them with them; the groups
\* named in their metadata are not.
Paste ==
    /\ Editing
    /\ keepHistory /\ keepRest
    /\ LET from == DOMAIN clipboard.nodes
           place(n) == born + Cardinality({m \in from : m <= n})
           source(k) == CHOOSE n \in from : place(n) = k
       IN  /\ from # {}
           /\ born + Cardinality(from) <= MaxNodes
           /\ born' = born + Cardinality(from)
           /\ SetDoc(Join(nodes, [k \in Fresh(Cardinality(from)) |-> clipboard.nodes[source(k)]]),
                     links \cup {<<place(l[1]), place(l[2])>> : l \in clipboard.links})

\* A size, a prompt, a setting, a group folded, the background: nothing that
\* is modelled, but a change to record.
Touch ==
    /\ Editing
    /\ keepHistory /\ keepRest
    /\ SetDoc(nodes, links)
    /\ UNCHANGED born

ResizeNode == Touch
ToggleBatch == Touch
ChangeNodeConfig == Touch

EditText(n) ==
    /\ Editing
    /\ keepHistory /\ keepRest
    /\ n \in DOMAIN nodes /\ nodes[n].kind = "text"
    /\ \E content \in {Unset, n} : SetDoc(Update(nodes, n, [nodes[n] EXCEPT !.shows = content]), links)
    /\ UNCHANGED born

SetBatchPrimary(k) ==
    /\ Editing
    /\ keepHistory /\ keepRest
    /\ k \in DOMAIN nodes
    /\ nodes[k].root # Unset /\ nodes[k].shows # Unset
    /\ SetDoc([n \in DOMAIN nodes |->
                  IF n = nodes[k].root
                  THEN [nodes[n] EXCEPT !.shows = nodes[k].shows, !.primary = k]
                  ELSE nodes[n]], links)
    /\ UNCHANGED born

\* The text button of a text node: a configuration node fed by it.
ConfigFromText(n) ==
    /\ Editing
    /\ keepHistory /\ keepRest
    /\ born < MaxNodes
    /\ n \in DOMAIN nodes /\ nodes[n].kind = "text" /\ nodes[n].shows # Unset
    /\ born' = born + 1
    /\ SetDoc(Added(Mark(nodes, {n}, "success"), born', Blank("config")), links \cup {<<n, born'>>})

\* A text or a stored file put in by the assistant or the asset picker, which
\* stay usable in a preview.
InsertContent(kind) ==
    /\ Act
    /\ keepHistory /\ keepRest
    /\ born < MaxNodes
    /\ born' = born + 1
    /\ SetDoc(Added(nodes, born', Filled(kind, born')), links)

------------------------------------------------------------------------------
(* The undo history *)

Recent(seq, k) == IF Len(seq) <= k THEN seq ELSE SubSeq(seq, Len(seq) - k + 1, Len(seq))
Top(seq) == seq[Len(seq)]
Popped(seq) == SubSeq(seq, 1, Len(seq) - 1)

\* The 180 ms timer: what was last recorded becomes undoable.
CommitHistory ==
    /\ commit
    /\ past' = Append(Recent(past, Depth - 1), last)
    /\ future' = <<>>
    /\ last' = Doc(nodes, links)
    /\ dirty' = FALSE /\ commit' = FALSE
    /\ UNCHANGED <<docVars, replaying, applying, held, preview, jobs, running, clipboard, acts>>

ApplyHistory(entry) ==
    /\ nodes' = entry.nodes /\ links' = entry.links
    /\ replaying' = TRUE
    /\ applying' = Append(applying, entry)
    /\ dirty' = TRUE /\ commit' = FALSE
    /\ UNCHANGED <<born, last, held, preview, jobs, running, clipboard>>

\* The shortcuts and the toolbar ignore a preview; the menu does not.
Undo ==
    /\ Act
    /\ past # <<>>
    /\ past' = Popped(past)
    /\ future' = Append(future, last)
    /\ ApplyHistory(Top(past))

\* (Not counted as an operation: there are no more of them than undos.)
Redo ==
    /\ future # <<>> /\ UNCHANGED acts
    /\ future' = Popped(future)
    /\ past' = Append(past, last)
    /\ ApplyHistory(Top(future))

\* The setTimeout of applyHistory: only now is the entry the recorded one.
HistoryApplied ==
    /\ applying # <<>>
    /\ last' = Head(applying)
    /\ applying' = Tail(applying)
    /\ replaying' = FALSE
    /\ dirty' = (Doc(nodes, links) # Head(applying))
    /\ UNCHANGED <<docVars, past, future, commit, held, preview, jobs, running, clipboard, acts>>

\* The mouse goes down on a node: nothing is recorded until it is up again.
PressNode ==
    /\ Editing
    /\ held = "no" /\ DOMAIN nodes # {}
    /\ held' = "down"
    /\ UNCHANGED <<docVars, past, last, future, dirty, commit, replaying, applying>>
    /\ keepRest

DragNode ==
    /\ held = "down"
    /\ held' = "moved"
    /\ UNCHANGED <<past, last, future, replaying, applying, born, acts>> /\ keepRest
    /\ SetDoc(nodes, links)

\* A drag that moved sets the positions once more; a press that did not, or a
\* drag the browser cancelled, sets nothing.
ReleaseNode(cancelled) ==
    /\ held # "no"
    /\ held' = "no"
    /\ UNCHANGED <<past, last, future, replaying, applying, born, acts>> /\ keepRest
    /\ IF held = "moved" /\ ~cancelled
       THEN SetDoc(nodes, links)
       ELSE UNCHANGED <<nodes, links, dirty, commit>>

------------------------------------------------------------------------------
(* The assistant's preview *)

\* applyCanvasAgentOps, for one operation.  An update keeps of the metadata of
\* a node only the fields the sanitizer lists: not its group, and not the
\* content of a picture or a video.
Sanitized(node) ==
    [node EXCEPT !.root = Unset, !.kids = {}, !.primary = Unset,
                 !.shows = IF node.kind \in {"image", "video"} THEN Unset ELSE @]

AgentOps ==
    [op : {"add_node"}, kind : Kinds] \cup [op : {"update_node", "delete_node"}, node : Node]
        \cup [op : {"connect_nodes"}, from : Node, to : Node]
        \cup [op : {"delete_connections"}] \cup [op : {"run_generation"}, node : Node, mode : Modes]

Applied(p, op) ==
    CASE op.op = "add_node" -> [p EXCEPT !.nodes = Added(@, born + 1, Blank(op.kind))]
      [] op.op = "update_node" -> [p EXCEPT !.nodes = Update(@, op.node, Sanitized(@[op.node]))]
      [] op.op = "delete_node" ->
            [p EXCEPT !.nodes = Without(@, {op.node}), !.links = Unlinked(@, {op.node})]
      [] op.op = "connect_nodes" -> [p EXCEPT !.links = @ \cup {<<op.from, op.to>>}]
      [] op.op = "delete_connections" -> [p EXCEPT !.links = {}]
      [] op.op = "run_generation" -> [p EXCEPT !.runs = Join([n \in {op.node} |-> op.mode], @)]

Applicable(p, op) ==
    CASE op.op = "add_node" -> born < MaxNodes
      [] op.op = "connect_nodes" -> {op.from, op.to} \subseteq DOMAIN p.nodes
      [] op.op = "delete_connections" -> p.links # {}
      [] OTHER -> op.node \in DOMAIN p.nodes

\* A further answer of the assistant is applied to the preview there is.
StartPreview(op) ==
    LET source == IF preview.on THEN preview
                  ELSE [on |-> TRUE, nodes |-> nodes, links |-> links, runs |-> <<>>]
    IN  /\ Act
        /\ Applicable(source, op)
        /\ preview' = Applied(source, op)
        /\ born' = IF op.op = "add_node" THEN born + 1 ELSE born
        /\ keepHistory
        /\ HistoryEffect(dirty)
        /\ UNCHANGED <<nodes, links, jobs, running, clipboard>>

\* Mutant: the nodes of the preview stay.
CancelPreviewKeeps ==
    /\ preview.on
    /\ preview' = NoPreview
    /\ keepHistory
    /\ SetDoc(preview.nodes, links)
    /\ UNCHANGED <<born, jobs, running, clipboard, acts>>

CancelPreview ==
    /\ preview.on
    /\ preview' = NoPreview
    /\ keepHistory
    /\ HistoryEffect(dirty)
    /\ UNCHANGED <<docVars, jobs, running, clipboard, acts>>

------------------------------------------------------------------------------
(* Requests: generations, retries, other angles, crops and uploads *)

JobId == 1 .. MaxJobs
FreeJob == CHOOSE j \in JobId \ DOMAIN jobs : \A k \in JobId \ DOMAIN jobs : j <= k
CanAsk == DOMAIN jobs # JobId

NewJob(task, n, node, count) ==
    [task |-> task, owner |-> n, src |-> node, count |-> count, phase |-> "preparing",
     root |-> Unset, kids |-> {}, waiting |-> {}, won |-> FALSE]

Request(task, n, node, count) == Added(jobs, FreeJob, NewJob(task, n, node, count))

\* A text node that has a text is rewritten into a new node.
Rewrites(job) == job.task = "text" /\ job.src.kind = "text" /\ job.src.shows # Unset
FillsItself(job) == job.src.kind = job.task /\ job.src.shows = Unset
MarksSource(job) == job.src.kind # "image" /\ ~Rewrites(job)

\* handleGenerateNode up to its first await: the node as it is now, and the
\* inputs that lead to it, are what the generation will use.
Generate(n, mode, count) ==
    /\ Editing
    /\ CanAsk
    /\ n \in DOMAIN nodes
    /\ running' = n
    /\ jobs' = Request(mode, n, nodes[n], count)
    /\ UNCHANGED <<docVars, historyVars, preview, clipboard>>

\* The preview becomes the document, and its generations are started.
ConfirmPreview(count) ==
    LET runs == DOMAIN preview.runs \cap DOMAIN preview.nodes
    IN  /\ preview.on
        /\ Cardinality(runs) <= (IF CanAsk THEN 1 ELSE 0)
        /\ preview' = NoPreview
        /\ keepHistory
        /\ SetDoc(preview.nodes, preview.links)
        /\ IF runs = {} THEN UNCHANGED <<jobs, running>>
           ELSE \E n \in runs :
                    /\ running' = n
                    /\ jobs' = Request(preview.runs[n], n, preview.nodes[n], count)
        /\ UNCHANGED <<born, clipboard, acts>>

Ended(j) == Without(jobs, {j})

\* The preparation ends with no prompt for a text, or fails to read a
\* reference picture: that is not caught, and the node stays marked running.
GiveUp(j) ==
    /\ jobs[j].phase = "preparing" /\ jobs[j].task \in Modes
    /\ jobs' = Ended(j)
    /\ running' = IF jobs[j].task = "text" THEN Unset ELSE running
    /\ UNCHANGED <<docVars, historyVars, preview, clipboard, acts>>

PreparationFails(j) ==
    /\ jobs[j].phase = "preparing" /\ jobs[j].task \in Modes
    /\ jobs' = Ended(j)
    /\ UNCHANGED <<docVars, historyVars, preview, running, clipboard, acts>>

Asking(j, root, kids) ==
    [jobs EXCEPT ![j].phase = "asking", ![j].root = root, ![j].kids = kids,
                 ![j].waiting = IF kids # {} THEN kids ELSE {root}]
jobsStep == keepHistory /\ UNCHANGED <<preview, clipboard, acts>>
\* Mutant: everything that is loading is settled with it.
SettledAll(ns, n, ok) ==
    Mark(ns, {x \in DOMAIN ns : ns[x].status = "loading"}, IF ok THEN "success" ELSE "error")

Settled(ns, n, ok) == Mark(ns, {n}, IF ok THEN "success" ELSE "error")
\* Mutant: the answer is put in, whether or not its node is still there.
ShownAnyway(ns, set) == Join([x \in set |-> Filled("video", x)], ns)

Shown(ns, set) ==
    [x \in DOMAIN ns |->
        IF x \in set THEN [ns[x] EXCEPT !.shows = x, !.status = "success"] ELSE ns[x]]

\* The pictures: the node itself when it is an empty picture, otherwise a new
\* one; several are put in a group around it.
LaunchImage(j) ==
    LET job == jobs[j]
        n == job.owner
        self == FillsItself(job)
        many == job.count > 1
        root == IF self THEN n ELSE born + 1
        first == IF self THEN born ELSE born + 1
        kids == IF many THEN first + 1 .. first + job.count ELSE {}
        owner == CASE job.src.kind = "config" -> [nodes[n] EXCEPT !.status = "loading"]
                   [] self -> [nodes[n] EXCEPT !.status = "loading", !.kids = kids]
                   [] job.src.kind = "image" -> [nodes[n] EXCEPT !.status = "success"]
                   [] OTHER -> [nodes[n] EXCEPT !.kind = "text", !.shows = n, !.status = "success"]
        made == [x \in (IF self THEN {} ELSE {root}) \cup kids |->
                    IF x = root THEN [Blank("image") EXCEPT !.status = "loading", !.kids = kids]
                    ELSE [Blank("image") EXCEPT !.status = "loading", !.root = root]]
    IN  /\ job.task = "image" /\ job.phase = "preparing"
        /\ born + Cardinality(DOMAIN made) <= MaxNodes
        /\ born' = born + Cardinality(DOMAIN made)
        /\ jobs' = Asking(j, root, kids)
        /\ jobsStep /\ UNCHANGED running
        /\ SetDoc(Join(Update(nodes, n, owner), made),
                  links \cup {<<root, k>> : k \in kids} \cup (IF self THEN {} ELSE {<<n, root>>}))

LaunchVideo(j) ==
    LET job == jobs[j]
        n == job.owner
        loading == [Blank("video") EXCEPT !.status = "loading"]
    IN  /\ job.task = "video" /\ job.phase = "preparing"
        /\ jobsStep /\ UNCHANGED running
        /\ IF FillsItself(job)
           THEN /\ born' = born
                /\ jobs' = Asking(j, n, {})
                /\ SetDoc(IF n \in DOMAIN nodes THEN Update(nodes, n, loading) ELSE nodes, links)
           ELSE /\ born < MaxNodes
                /\ born' = born + 1
                /\ jobs' = Asking(j, born', {})
                /\ SetDoc(Added(Mark(nodes, {n}, "success"), born', loading), links \cup {<<n, born'>>})

\* A configuration node gets its texts in new nodes, a rewritten text in one.
LaunchText(j) ==
    LET job == jobs[j]
        n == job.owner
        k == IF job.src.kind = "config" THEN job.count ELSE IF Rewrites(job) THEN 1 ELSE 0
        made == [x \in Fresh(k) |-> [Blank("text") EXCEPT !.status = "loading"]]
        marked == IF MarksSource(job) THEN Mark(nodes, {n}, "loading") ELSE nodes
    IN  /\ job.task = "text" /\ job.phase = "preparing"
        /\ born + k <= MaxNodes
        /\ born' = born + k
        /\ jobs' = Asking(j, n, Fresh(k))
        /\ jobsStep /\ UNCHANGED running
        /\ IF k > 0 \/ MarksSource(job)
           THEN SetDoc(Join(marked, made), links \cup {<<n, x>> : x \in DOMAIN made})
           ELSE UNCHANGED <<nodes, links, dirty, commit>>

Streams(job) ==
    \/ job.task = "text" /\ job.src.kind # "config"
    \/ job.task = "retry" /\ job.src.kind = "text"

\* A piece of a streamed text is shown at once, except under a configuration.
StreamText(j) ==
    /\ jobs[j].phase = "asking"
    /\ Streams(jobs[j])
    /\ jobsStep /\ UNCHANGED <<born, jobs, running>>
    /\ \E t \in jobs[j].waiting \cap DOMAIN nodes :
          SetDoc(Update(nodes, t, [nodes[t] EXCEPT !.kind = "text", !.shows = t, !.status = "loading"]), links)

\* The end of a request: `finally' clears the running mark, whoever has it.
Finish(j) == jobs' = Ended(j) /\ running' = Unset

\* One picture of a generation: the first of a group is also the picture of
\* its root.  With the last one the owner and the root are settled.
AnswerImage(j, t, ok) ==
    LET job == jobs[j]
        n == job.owner
        config == job.src.kind = "config"
        leads == t = job.root \/ (job.root \in DOMAIN nodes /\ nodes[job.root].primary = Unset)
        got == [x \in DOMAIN nodes |->
                   IF x = job.root /\ leads
                   THEN [nodes[x] EXCEPT !.shows = t, !.status = "success", !.primary = t]
                   ELSE Shown(nodes, {t})[x]]
        lone == IF ok THEN (IF config THEN Settled(got, n, TRUE) ELSE got) ELSE Settled(nodes, t, FALSE)
        won == job.won \/ ok
        closed == IF config \/ FillsItself(job) THEN Settled(lone, n, won) ELSE lone
    IN  /\ job.task = "image" /\ job.phase = "asking" /\ t \in job.waiting
        /\ jobsStep /\ UNCHANGED born
        /\ IF job.waiting = {t}
           THEN /\ Finish(j)
                /\ SetDoc(IF won THEN closed ELSE Settled(closed, job.root, FALSE), links)
           ELSE /\ jobs' = [jobs EXCEPT ![j].waiting = @ \ {t}, ![j].won = won]
                /\ UNCHANGED running
                /\ SetDoc(lone, links)

AnswerVideo(j, ok) ==
    LET job == jobs[j]
        lost == {job.root} \cup (IF MarksSource(job) THEN {job.owner} ELSE {})
    IN  /\ job.task = "video" /\ job.phase = "asking"
        /\ jobsStep /\ UNCHANGED born
        /\ Finish(j)
        /\ SetDoc(IF ok THEN Shown(nodes, {job.root}) ELSE Mark(nodes, lost, "error"), links)

\* The texts are written when all are there; one that fails ends them all.
AnswerText(j, t, ok) ==
    LET job == jobs[j]
        n == job.owner
        itself == job.src.kind # "config" /\ ~Rewrites(job)
        done == IF job.src.kind = "config" THEN Settled(Shown(nodes, job.kids), n, TRUE)
                ELSE [x \in DOMAIN nodes |->
                        IF x = n /\ itself THEN [nodes[x] EXCEPT !.kind = "text", !.shows = x, !.status = "success"]
                        ELSE Shown(nodes, job.kids)[x]]
        lost == job.kids \cup (IF MarksSource(job) THEN {n} ELSE {})
    IN  /\ job.task = "text" /\ job.phase = "asking" /\ t \in job.waiting
        /\ jobsStep /\ UNCHANGED born
        /\ IF ok /\ job.waiting # {t}
           THEN /\ jobs' = [jobs EXCEPT ![j].waiting = @ \ {t}]
                /\ UNCHANGED <<nodes, links, dirty, commit, running>>
           ELSE /\ Finish(j)
                /\ SetDoc(IF ok THEN done ELSE Mark(nodes, lost \ (IF MarksSource(job) THEN {} ELSE {n}), "error"), links)

\* Another view of a picture, asked for in a child of it.
Angle(n) ==
    /\ Editing
    /\ CanAsk /\ born < MaxNodes
    /\ n \in DOMAIN nodes /\ nodes[n].kind = "image" /\ nodes[n].shows # Unset
    /\ born' = born + 1
    /\ running' = born'
    /\ jobs' = Added(jobs, FreeJob,
                 [NewJob("angle", n, nodes[n], 1) EXCEPT !.phase = "asking", !.root = born', !.waiting = {born'}])
    /\ keepHistory /\ UNCHANGED <<preview, clipboard>>
    /\ SetDoc(Added(nodes, born', [Blank("image") EXCEPT !.status = "loading"]), links \cup {<<n, born'>>})

Retry(n) ==
    /\ Editing
    /\ CanAsk
    /\ n \in DOMAIN nodes /\ nodes[n].status = "error"
    /\ jobs' = Request("retry", n, nodes[n], 1)
    /\ UNCHANGED <<docVars, historyVars, preview, running, clipboard>>

\* The prompt and the reference pictures are looked up first.
RetryPrepared(j) ==
    /\ jobs[j].task = "retry" /\ jobs[j].phase = "preparing"
    /\ jobsStep /\ UNCHANGED born
    /\ \/ /\ jobs' = Asking(j, jobs[j].owner, {})
          /\ running' = jobs[j].owner
          /\ SetDoc(Mark(nodes, {jobs[j].owner}, "loading"), links)
       \/ /\ jobs' = Ended(j)
          /\ UNCHANGED running
          /\ \/ UNCHANGED <<nodes, links, dirty, commit>>
             \/ SetDoc(Settled(nodes, jobs[j].owner, FALSE), links)

\* The answer of a retry or of another view is for one node.  A retry makes a
\* text of a text and a picture of everything else but a video.
AnswerOne(j, ok) ==
    LET t == jobs[j].root
        kindOf == [k \in Kinds |-> IF k = "text" THEN "text" ELSE "image"]
        turns == jobs[j].task = "retry" /\ jobs[j].src.kind # "video"
        got == [x \in DOMAIN nodes |->
                  IF x # t THEN nodes[x]
                  ELSE [nodes[x] EXCEPT !.shows = t, !.status = "success",
                           !.kind = IF turns THEN kindOf[jobs[j].src.kind] ELSE @]]
    IN  /\ jobs[j].task \in {"retry", "angle"} /\ jobs[j].phase = "asking"
        /\ jobsStep /\ UNCHANGED born
        /\ Finish(j)
        /\ SetDoc(IF ok THEN got ELSE Settled(nodes, t, FALSE), links)

\* Uploads: a cropped picture, a file for a new node, or one for a node that
\* is there.  Their failure is not caught and changes nothing.
Upload(task, n, kind) ==
    /\ Act
    /\ CanAsk
    /\ CASE task = "crop" -> ~preview.on /\ n \in DOMAIN nodes /\ nodes[n].kind = "image"
                             /\ nodes[n].shows # Unset /\ kind = "image"
         [] task = "replace" -> ~preview.on /\ n \in DOMAIN nodes
         [] task = "insert" -> n = Unset
    /\ jobs' = Request(task, n, Blank(kind), 1)
    /\ UNCHANGED <<docVars, historyVars, preview, running, clipboard>>

Uploading == {"crop", "replace", "insert"}

CropAdded(j) ==
    /\ jobs[j].task = "crop"
    /\ jobs' = Ended(j)
    /\ jobsStep /\ UNCHANGED running
    /\ born < MaxNodes
    /\ born' = born + 1
    /\ SetDoc(Added(nodes, born', Filled("image", born')), links \cup {<<jobs[j].owner, born'>>})

FileAdded(j) ==
    /\ jobs[j].task = "insert"
    /\ jobs' = Ended(j)
    /\ jobsStep /\ UNCHANGED running
    /\ born < MaxNodes
    /\ born' = born + 1
    /\ SetDoc(Added(nodes, born', Filled(jobs[j].src.kind, born')), links)

\* A picture takes the node out of its group; a video leaves the group fields.
FileReplaced(j) ==
    LET n == jobs[j].owner
        new == IF jobs[j].src.kind = "image" THEN Filled("image", n)
               ELSE [nodes[n] EXCEPT !.kind = "video", !.shows = n, !.status = "success"]
    IN  /\ jobs[j].task = "replace"
        /\ jobs' = Ended(j)
        /\ jobsStep /\ UNCHANGED <<running, born>>
        /\ SetDoc(IF n \in DOMAIN nodes THEN Update(nodes, n, new) ELSE nodes, links)

UploadFails(j) ==
    /\ jobs[j].task \in Uploading
    /\ jobs' = Ended(j)
    /\ UNCHANGED <<docVars, historyVars, preview, running, clipboard, acts>>

------------------------------------------------------------------------------
(* Opening the page: what was loading has no request any more. *)

Opened(ns) == Mark(ns, {n \in DOMAIN ns : ns[n].status = "loading"}, "error")

Init ==
    /\ \E start \in Starts :
          /\ nodes = start.nodes /\ links = start.links /\ born = start.born
          /\ last = Doc(start.nodes, start.links)
    /\ past = <<>> /\ future = <<>>
    /\ dirty = FALSE /\ commit = FALSE
    /\ replaying = FALSE /\ applying = <<>> /\ held = "no"
    /\ preview = NoPreview
    /\ jobs = <<>> /\ running = Unset
    /\ clipboard = Doc(<<>>, {})
    /\ acts = 0

Reload ==
    /\ Act
    /\ nodes' = Opened(nodes)
    /\ last' = Doc(nodes', links)
    /\ past' = <<>> /\ future' = <<>>
    /\ dirty' = FALSE /\ commit' = FALSE
    /\ replaying' = FALSE /\ applying' = <<>> /\ held' = "no"
    /\ preview' = NoPreview
    /\ jobs' = <<>> /\ running' = Unset
    /\ clipboard' = Doc(<<>>, {})
    /\ UNCHANGED <<links, born>>

------------------------------------------------------------------------------
(* The surfaces of the page, and what each offers in which state *)

Selections == {DOMAIN nodes} \cup {{n} : n \in DOMAIN nodes}

\* Without a copied node, the clipboard of the system is pasted.
Keyboard ==
    \/ Undo /\ ~preview.on
    \/ Redo /\ ~preview.on
    \/ \E ids \in Selections : CopySelected(ids) \/ DeleteNodes(ids)
    \/ \E l \in links : DeleteLink(l)
    \/ Paste
    \/ DOMAIN clipboard.nodes = {} /\ ~preview.on /\ (InsertContent("text") \/ Upload("insert", Unset, "image"))
    \/ CancelPreview

TopBarMenu == Undo \/ Redo \/ \E kind \in {"image", "video"} : Upload("insert", Unset, kind)

BottomToolbar ==
    \/ \E kind \in Kinds : CreateNode(kind)
    \/ ~preview.on /\ (Undo \/ Redo \/ \E kind \in {"image", "video"} : Upload("insert", Unset, kind))
    \/ \E ids \in Selections : DeleteNodes(ids)
    \/ ClearCanvas
    \/ Touch

HoverToolbar(n) ==
    \/ DeleteNodes({n})
    \/ Retry(n)
    \/ ChangeNodeConfig
    \/ ConfigFromText(n)
    \/ nodes[n].kind \in {"image", "video"} /\ \E kind \in {"image", "video"} : Upload("replace", n, kind)
    \/ Angle(n)
    \/ Upload("crop", n, "image")

ContextMenu(n) == DuplicateNode(n) \/ DeleteNodes({n})

\* The node itself: it is dragged, resized, joined to another.
NodeFrame(n) == PressNode \/ ResizeNode \/ \E b \in DOMAIN nodes : ConnectNodes(n, b)

TextContent(n) == EditText(n) \/ ConfigFromText(n)
ImageContent(n) == ToggleBatch \/ SetBatchPrimary(n)
ErrorContent(n) == nodes[n].kind # "config" /\ Retry(n)
NodeContent(n) == TextContent(n) \/ ImageContent(n) \/ ErrorContent(n)

\* The prompt panel of a text, picture or video generates of the node's own
\* kind; both panels are closed to the node that is marked running.
PromptPanel(n) ==
    /\ nodes[n].kind # "config" /\ n # running
    /\ \E count \in 1 .. MaxCount : Generate(n, nodes[n].kind, count)

\* What leads to a configuration is its prompt and its reference pictures.
Inputs(n) == {m \in DOMAIN nodes : <<m, n>> \in links}

ConfigPanel(n) ==
    /\ nodes[n].kind = "config" /\ n # running
    /\ Inputs(n) # {}
    /\ \E mode \in Modes, count \in 1 .. MaxCount : Generate(n, mode, count)

ConnectionCreateMenu(n) == \E kind \in Kinds : CreateConnectedNode(n, kind)

NodeSurfaces(n) ==
    \/ NodeFrame(n) \/ NodeContent(n) \/ PromptPanel(n) \/ ConfigPanel(n)
    \/ HoverToolbar(n) \/ ContextMenu(n) \/ ConnectionCreateMenu(n)

AssetPicker == \E kind \in {"text", "video"} : InsertContent(kind) \/ Upload("insert", Unset, "image")

AssistantPanel ==
    \/ \E op \in AgentOps : StartPreview(op)
    \/ CancelPreview \/ \E count \in 1 .. MaxCount : ConfirmPreview(count)
    \/ InsertContent("text") \/ Upload("insert", Unset, "image")

Answer(j) ==
    \/ \E t \in jobs[j].waiting, ok \in BOOLEAN : AnswerImage(j, t, ok) \/ AnswerText(j, t, ok)
    \/ \E ok \in BOOLEAN : AnswerVideo(j, ok) \/ AnswerOne(j, ok)
    \/ CropAdded(j) \/ FileAdded(j) \/ FileReplaced(j) \/ UploadFails(j)

Requests(j) ==
    \/ GiveUp(j) \/ PreparationFails(j) \/ RetryPrepared(j)
    \/ LaunchImage(j) \/ LaunchVideo(j) \/ LaunchText(j)
    \/ StreamText(j) \/ Answer(j)

Timers == CommitHistory \/ HistoryApplied
Mouse == DragNode \/ \E cancelled \in BOOLEAN : ReleaseNode(cancelled)

Surfaces == TopBarMenu \/ BottomToolbar \/ AssetPicker \/ AssistantPanel

Next ==
    \/ Keyboard \/ Surfaces
    \/ \E n \in DOMAIN nodes : NodeSurfaces(n)
    \/ \E j \in DOMAIN jobs : Requests(j)
    \/ Timers \/ Mouse
    \/ Reload

Spec == Init /\ [][Next]_vars
=============================================================================
