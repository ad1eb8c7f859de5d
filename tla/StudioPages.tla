----------------------------- MODULE StudioPages -----------------------------
(***************************************************************************)
(* The three workbenches of the web client, image/page.tsx, video/page.tsx *)
(* and model-3d/page.tsx, with the requests of services/api/image.ts,      *)
(* video.ts and model-3d.ts under them: one batch of generations, each     *)
(* polled in the server's queue, the cards that show it, and the records   *)
(* kept of it.  Nothing here is cancelled by the page: an answer finds     *)
(* whatever the user has put in its place meanwhile.                       *)
(***************************************************************************)
EXTENDS Integers, Sequences, FiniteSets, SequencesExt, FiniteSetsExt

CONSTANTS
    Prompts,      \* what may be asked for
    MaxCount,     \* pictures of a batch: ten in the code
    RefLimit,     \* references of a video: seven in the code
    MaxLists,     \* bound: lists of records in flight together
    MaxDoings     \* bound: things done by the user, and requests that fail, at each bench

VARIABLES
    bench,        \* which workbench it is
    session,      \* the user store holds a token
    prompt,       \* what is written, "none" when empty
    references,   \* number of reference pictures
    uploads,      \* reference pictures being uploaded
    results,      \* the cards that are shown
    batch,        \* the generation under way
    recordings,   \* records being saved while nobody waits for it
    tasks,        \* the server's queue: the state of every task sent to it
    made,         \* number of pictures the server has made
    records,      \* the server's records
    logs,         \* the records the page lists
    lists,        \* lists of records in flight
    selected, confirming,  \* records that are ticked; the dialog that deletes them
    previewed,    \* the record whose pictures are shown
    deletions,    \* records being deleted, and those that remain to be
    cancels,      \* cancellations in flight
    doings

inputs == <<prompt, references, uploads>>
display == <<results, previewed>>
server == <<tasks, made, records>>
history == <<logs, lists, selected, confirming, deletions>>
studioVars == <<bench, session, inputs, display, batch, recordings, server, history, cancels, doings>>

Unset == "none"
Benches == {"image", "video", "model3d"}
Card(status) == [status |-> status, task |-> 0, item |-> 0]
Pictured(item) == [status |-> "success", task |-> 0, item |-> item]
Idle == [phase |-> "idle", prompt |-> Unset, references |-> 0, token |-> FALSE, slots |-> <<>>]
Asked == [at |-> "asked", task |-> 0, seen |-> Unset, item |-> 0]
Running == batch.phase # "idle"
Doing == doings < MaxDoings[bench] /\ doings' = doings + 1

------------------------------------------------------------------------------
(* The cards *)

\* Mutant: the answers are counted from the end.
UpdateFromEnd(cards, i, card) ==
    [k \in DOMAIN cards |-> IF k = Len(cards) + 1 - i THEN card ELSE cards[k]]

\* updateResultAt: what is shown at the place of the answer, if there is anything.
UpdateResultAt(cards, i, card) == [k \in DOMAIN cards |-> IF k = i THEN card ELSE cards[k]]

\* New cards are shown: a cancellation no longer finds its own.
Replace(cards) ==
    /\ results' = cards
    /\ cancels' = {[c EXCEPT !.at = 0] : c \in cancels}

\* A picture's slot reports in its card, whatever that shows by now.
ImageReport(i, status, slot) ==
    /\ results' = UpdateResultAt(results, i, [status |-> status, task |-> slot.task, item |-> slot.item])
    /\ UNCHANGED cancels

\* A video replaces what is shown, and only at its end.
VideoReport(status, slot) ==
    IF status \in {"success", "failed"}
    THEN Replace(<<[status |-> status, task |-> 0, item |-> slot.item]>>)
    ELSE UNCHANGED <<results, cancels>>

\* A 3D model replaces the one that is shown; a failure leaves it.
ModelReport(status, slot) ==
    IF status = "success" THEN Replace(<<Pictured(slot.item)>>) ELSE UNCHANGED <<results, cancels>>

Report(i, status, slot) ==
    \/ bench = "image" /\ ImageReport(i, status, slot)
    \/ bench = "video" /\ VideoReport(status, slot)
    \/ bench = "model3d" /\ ModelReport(status, slot)

------------------------------------------------------------------------------
(* Records *)

AskRecords == [served |-> FALSE, ids |-> {}]

\* refreshLogs: a guest has none; two lists in flight may answer in any order.
Refresh(ls) == IF session THEN Append(ls, AskRecords) ELSE ls
CanRefresh == Len(lists) < MaxLists

RecordsServed(l) ==
    /\ ~lists[l].served
    /\ lists' = [lists EXCEPT ![l] = [served |-> TRUE, ids |-> DOMAIN records]]
    /\ UNCHANGED <<bench, session, inputs, display, batch, recordings, server, logs, selected, confirming, deletions, cancels, doings>>

\* A list that fails leaves the page as it is.
ListArrived(l) ==
    /\ lists[l].served
    /\ lists' = RemoveAt(lists, l)
    /\ \/ logs' = lists[l].ids /\ UNCHANGED doings
       \/ Doing /\ UNCHANGED logs
    /\ batch' = IF batch.phase = "listing" THEN Idle ELSE batch
    /\ UNCHANGED <<bench, session, inputs, display, recordings, server, selected, confirming, deletions, cancels>>

OpenHistory ==
    /\ Doing
    /\ bench = "model3d" /\ CanRefresh /\ session
    /\ lists' = Refresh(lists)
    /\ UNCHANGED <<bench, session, inputs, display, batch, recordings, server, logs, selected, confirming, deletions, cancels>>

SelectLog ==
    /\ Doing
    /\ bench # "model3d"
    /\ \/ \E r \in logs : selected' = SymDiff(selected, {r})
       \/ selected' = IF Cardinality(selected) = Cardinality(logs) THEN {} ELSE logs
    /\ UNCHANGED <<bench, session, inputs, display, batch, recordings, server, logs, lists, confirming, deletions, cancels>>

AskDelete ==
    /\ bench # "model3d"
    /\ IF confirming THEN confirming' = FALSE ELSE selected # {} /\ confirming' = TRUE
    /\ Doing
    /\ UNCHANGED <<bench, session, inputs, display, batch, recordings, server, logs, lists, selected, deletions, cancels>>

\* The records go to be deleted together, and leave the page if they are shown.
DeleteSelectedLogs ==
    /\ bench # "model3d"
    /\ session /\ deletions = {} /\ confirming
    /\ deletions' = selected /\ selected' = {} /\ confirming' = FALSE
    /\ IF previewed \in selected THEN previewed' = 0 /\ Replace(<<>>) ELSE UNCHANGED <<display, cancels>>
    /\ UNCHANGED <<bench, session, inputs, batch, recordings, server, logs, lists, doings>>

\* The page of 3D models deletes one record at once.
DeleteHistory ==
    /\ Doing
    /\ bench = "model3d" /\ session /\ deletions = {}
    /\ \E r \in logs : deletions' = {r}
    /\ UNCHANGED <<bench, session, inputs, display, batch, recordings, server, logs, lists, selected, confirming, cancels>>

\* Only when all of them are gone is the list read again.
DeletionAnswered(r) ==
    /\ r \in deletions
    /\ \/ /\ records' = [q \in DOMAIN records \ {r} |-> records[q]]
          /\ deletions' = deletions \ {r}
          /\ IF deletions' = {} THEN CanRefresh /\ lists' = Refresh(lists) ELSE UNCHANGED lists
          /\ UNCHANGED doings
       \/ /\ Doing
          /\ deletions' = {} /\ UNCHANGED <<records, lists>>
    /\ UNCHANGED <<bench, session, inputs, display, batch, recordings, tasks, made, logs, selected, confirming, cancels>>

Preview(r) ==
    /\ Doing
    /\ r \in logs \cap DOMAIN records
    /\ previewed' = r
    /\ Replace([i \in DOMAIN records[r].items |-> Pictured(records[r].items[i])])
    /\ UNCHANGED <<bench, session, uploads, batch, recordings, server, history>>

\* A record shows its pictures; that of a video also fills the form again.
PreviewImageLog(r) == bench = "image" /\ Preview(r) /\ UNCHANGED <<prompt, references>>
PreviewVideoLog(r) ==
    bench = "video" /\ Preview(r) /\ prompt' = records[r].prompt /\ references' = records[r].references

------------------------------------------------------------------------------
(* The form *)

Write ==
    /\ Doing
    /\ \E text \in Prompts \cup {Unset} : text # prompt /\ prompt' = text
    /\ UNCHANGED <<bench, session, references, uploads, display, batch, recordings, server, history, cancels>>

\* The page of a video drops the references that have no room.
Room(n) == IF bench = "video" /\ n > RefLimit THEN RefLimit ELSE n

\* A file, the clipboard or a picture of the assets: it is uploaded first.
AddReference ==
    /\ Doing
    /\ session /\ uploads < RefLimit
    /\ bench = "video" => references < RefLimit
    /\ uploads' = uploads + 1
    /\ UNCHANGED <<bench, session, prompt, references, display, batch, recordings, server, history, cancels>>

ReferenceUploaded ==
    /\ uploads > 0
    /\ uploads' = uploads - 1
    /\ \/ references' = Room(references + 1) /\ UNCHANGED doings
       \/ Doing /\ UNCHANGED references
    /\ UNCHANGED <<bench, session, prompt, display, batch, recordings, server, history, cancels>>

RemoveReference ==
    /\ Doing
    /\ references > 0
    /\ references' = references - 1
    /\ UNCHANGED <<bench, session, prompt, uploads, display, batch, recordings, server, history, cancels>>

\* A result becomes a reference of the next picture.
AddResultToReferences ==
    /\ Doing
    /\ bench = "image" /\ \E i \in DOMAIN results : results[i].status = "success"
    /\ references < RefLimit
    /\ references' = references + 1
    /\ UNCHANGED <<bench, session, prompt, uploads, display, batch, recordings, server, history, cancels>>

\* The page is emptied; what was asked for goes on.
NewSession ==
    /\ Doing
    /\ prompt' = Unset /\ references' = 0
    /\ previewed' = 0 /\ Replace(<<>>)
    /\ selected' = {}
    /\ UNCHANGED <<bench, session, uploads, batch, recordings, server, logs, lists, confirming, deletions>>

------------------------------------------------------------------------------
(* A batch *)

\* What each page asks for before it starts.
ImageSnapshot == bench = "image" /\ prompt # Unset
VideoSnapshot == bench = "video" /\ prompt # Unset
ModelInput == bench = "model3d" /\ session /\ (references > 0 \/ prompt # Unset)

WaitingCards(n) ==
    /\ batch' = [phase |-> "running", prompt |-> prompt, references |-> references,
                 token |-> session, slots |-> [i \in 1 .. n |-> Asked]]
    /\ previewed' = IF bench = "model3d" THEN previewed ELSE 0
    /\ IF bench = "model3d" THEN UNCHANGED <<results, cancels>>
       ELSE Replace([i \in 1 .. n |-> Card("pending")])

StartBatch ==
    \/ ImageSnapshot /\ \E n \in 1 .. MaxCount : WaitingCards(n)
    \/ (VideoSnapshot \/ ModelInput) /\ WaitingCards(1)

\* The button is off while a batch runs.
Generate == Doing /\ ~Running /\ StartBatch /\ UNCHANGED <<bench, session, inputs, recordings, server, history>>

\* The card of a video that failed asks again, and looks at nothing else.
RetryResult ==
    /\ Doing
    /\ VideoSnapshot /\ \E i \in DOMAIN results : results[i].status = "failed"
    /\ WaitingCards(1)
    /\ UNCHANGED <<bench, session, inputs, recordings, server, history>>

Items(slots) ==
    LET done == SelectSeq(slots, LAMBDA slot : slot.at = "done")
    IN  [i \in DOMAIN done |-> done[i].item]

RecordOf(b) == [prompt |-> b.prompt, references |-> b.references, items |-> Items(b.slots)]

BatchSlots == DOMAIN batch.slots
At(i, phase) == batch.phase = "running" /\ i \in BatchSlots /\ batch.slots[i].at = phase

\* Mutant: the first slot that fails ends the batch.
PutFirstFailure(i, slot) ==
    LET b == [batch EXCEPT !.slots[i] = slot]
        broken == \E k \in BatchSlots : b.slots[k].at = "failed"
        over == \A k \in BatchSlots : b.slots[k].at = "done"
        kept == over /\ b.token
        left == IF kept /\ bench # "video" THEN [b EXCEPT !.phase = "saving"] ELSE Idle
    IN  /\ batch' = IF over \/ broken THEN left ELSE b
        /\ recordings' = IF kept /\ bench = "video" THEN recordings \cup {RecordOf(b)} ELSE recordings

\* When its last slot ends the batch is over at once: its pictures are recorded, if
\* there are any and somebody was logged in.  A video does not wait for that.
Put(i, slot) ==
    LET b == [batch EXCEPT !.slots[i] = slot]
        over == \A k \in BatchSlots : b.slots[k].at \in {"done", "failed"}
        kept == b.token /\ Items(b.slots) # <<>>
        left == IF kept /\ bench # "video" THEN [b EXCEPT !.phase = "saving"] ELSE Idle
    IN  /\ batch' = IF over THEN left ELSE b
        /\ recordings' = IF over /\ kept /\ bench = "video" THEN recordings \cup {RecordOf(b)} ELSE recordings

\* The slot ends with a picture, or without one.
Ended(i, slot) ==
    /\ Put(i, slot)
    /\ Report(i, IF slot.at = "done" THEN "success" ELSE "failed", slot)
SlotFails(i) == Ended(i, [batch.slots[i] EXCEPT !.at = "failed"])

sameButBatch == UNCHANGED <<bench, session, inputs, previewed, records, history>>

\* The request is answered with the picture, with a place in the queue, or fails,
\* as it does without a session.  A 3D model is never queued.
SlotAnswered(i) ==
    /\ At(i, "asked")
    /\ \/ /\ session
          /\ made' = made + 1
          /\ Ended(i, [Asked EXCEPT !.at = "done", !.item = made'])
          /\ UNCHANGED <<tasks, doings>>
       \/ /\ session /\ bench # "model3d"
          /\ tasks' = Append(tasks, "queued")
          /\ LET slot == [Asked EXCEPT !.at = "waiting", !.task = Len(tasks')]
             IN  Put(i, slot) /\ Report(i, "queued", slot)
          /\ UNCHANGED <<made, doings>>
       \/ /\ IF session THEN Doing ELSE UNCHANGED doings
          /\ SlotFails(i)
          /\ UNCHANGED <<tasks, made>>
    /\ sameButBatch

\* Every two seconds the task is asked for; the answer tells how it was then.
Poll(i) ==
    /\ At(i, "waiting")
    /\ LET slot == batch.slots[i] IN Put(i, [slot EXCEPT !.at = "polling", !.seen = tasks[slot.task]])
    /\ UNCHANGED <<results, cancels, tasks, made, doings>>
    /\ sameButBatch

\* Mutant: a task that was cancelled is polled on.
OverForFailed == {"failed"}
Over == {"failed", "canceled"}

\* The answer to a poll; once the task has succeeded its result is read at once.
\* One request that fails ends the slot, and the task goes on.
Polled(i) ==
    LET slot == batch.slots[i]
    IN  /\ At(i, "polling")
        /\ \/ /\ slot.seen = "succeeded"
              /\ made' = made + 1
              /\ Ended(i, [slot EXCEPT !.at = "done", !.seen = Unset, !.item = made']) /\ UNCHANGED doings
           \/ /\ slot.seen \in Over
              /\ Ended(i, [slot EXCEPT !.at = "failed", !.seen = Unset]) /\ UNCHANGED <<made, doings>>
           \/ /\ slot.seen \notin Over \cup {"succeeded"}
              /\ Put(i, [slot EXCEPT !.at = "waiting", !.seen = Unset])
              /\ Report(i, IF slot.seen = "queued" THEN "queued" ELSE "executing", slot)
              /\ UNCHANGED <<made, doings>>
           \/ Doing /\ SlotFails(i) /\ UNCHANGED made
    /\ UNCHANGED tasks
    /\ sameButBatch

\* The queue moves a task on.
TaskStep(t) ==
    /\ tasks[t] \in {"queued", "executing"}
    /\ \E next \in IF tasks[t] = "queued" THEN {"executing"} ELSE {"succeeded", "failed"} :
          tasks' = [tasks EXCEPT ![t] = next]
    /\ UNCHANGED <<bench, session, inputs, display, batch, recordings, made, records, history, cancels, doings>>

\* cancelQueuedResult, of a card that waits in the queue.
CancelQueuedResult(i) ==
    /\ Doing
    /\ results[i].status = "queued" /\ results[i].task # 0
    /\ cancels' = cancels \cup {[task |-> results[i].task, at |-> i]}
    /\ UNCHANGED <<bench, session, inputs, display, batch, recordings, server, history>>

\* Only a queued task is cancelled; otherwise the page is told so.
Cancelled(c) ==
    /\ c \in cancels
    /\ cancels' = cancels \ {c}
    /\ IF tasks[c.task] = "queued"
       THEN /\ tasks' = [tasks EXCEPT ![c.task] = "canceled"]
            /\ results' = IF c.at = 0 THEN results
                          ELSE [results EXCEPT ![c.at].status = "failed"]
       ELSE UNCHANGED <<tasks, results>>
    /\ UNCHANGED <<bench, session, inputs, previewed, batch, recordings, made, records, history, doings>>

------------------------------------------------------------------------------
(* The record of a batch is kept *)

Keep(record) ==
    \E r \in 1 .. MaxDoings[bench] + 1 :
        /\ r \notin DOMAIN records \cup logs \cup selected \cup deletions
        /\ records' = [q \in DOMAIN records \cup {r} |-> IF q = r THEN record ELSE records[q]]

\* The server keeps the record, and the list is read again.
RecordSaved ==
    /\ batch.phase = "saving" \/ recordings # {}
    /\ LET waits == batch.phase = "saving"
           record == IF waits THEN RecordOf(batch) ELSE CHOOSE s \in recordings : TRUE
       IN  /\ recordings' = IF waits THEN recordings ELSE recordings \ {record}
           /\ \/ /\ session /\ CanRefresh
                 /\ Keep(record) /\ lists' = Refresh(lists)
                 /\ batch' = IF waits THEN [batch EXCEPT !.phase = "listing"] ELSE batch
                 /\ UNCHANGED doings
              \/ /\ IF session THEN Doing ELSE UNCHANGED doings
                 /\ batch' = IF waits THEN Idle ELSE batch
                 /\ UNCHANGED <<records, lists>>
    /\ UNCHANGED <<bench, session, inputs, display, tasks, made, logs, selected, confirming, deletions, cancels>>

------------------------------------------------------------------------------
\* Leaving the session empties the list; the page stays.
Logout ==
    /\ Doing
    /\ session
    /\ session' = FALSE /\ logs' = {}
    /\ UNCHANGED <<bench, inputs, display, batch, recordings, server, lists, selected, confirming, deletions, cancels>>

\* The pages, as they offer what can be done.
LogPanel == SelectLog \/ AskDelete \/ NewSession
ImageLogs == bench = "image" /\ (LogPanel \/ DeleteSelectedLogs \/ \E r \in logs : PreviewImageLog(r))
VideoLogs == bench = "video" /\ (LogPanel \/ DeleteSelectedLogs \/ \E r \in logs : PreviewVideoLog(r))
HistoryPanel == bench = "model3d" /\ (OpenHistory \/ DeleteHistory)

ReferenceStrip == AddReference \/ RemoveReference
InsertPickedAsset == AddReference \/ Write
ResultImageCard == AddResultToReferences
QueuedImageCard == \E i \in DOMAIN results : CancelQueuedResult(i)
ImageResults == ResultImageCard \/ QueuedImageCard
ImagePage == bench = "image" /\ (ReferenceStrip \/ InsertPickedAsset \/ Generate \/ ImageResults)
VideoPage == bench = "video" /\ (ReferenceStrip \/ InsertPickedAsset \/ Generate \/ RetryResult)
ModelPage == bench = "model3d" /\ (ReferenceStrip \/ Write \/ Generate \/ NewSession)

\* What the network and the server do.
ResolveQueuedImages(i) == bench = "image" /\ (Poll(i) \/ Polled(i))
WaitForQueuedVideo(i) == bench = "video" /\ (Poll(i) \/ Polled(i))
SlotStep(i) == SlotAnswered(i) \/ ResolveQueuedImages(i) \/ WaitForQueuedVideo(i)
StudioReplies ==
    \/ RecordSaved \/ ReferenceUploaded
    \/ \E l \in DOMAIN lists : RecordsServed(l) \/ ListArrived(l)
    \/ \E r \in deletions : DeletionAnswered(r)
    \/ \E c \in cancels : Cancelled(c)
    \/ \E i \in BatchSlots : SlotStep(i)
    \/ \E t \in DOMAIN tasks : TaskStep(t)

StudioInit ==
    /\ bench \in Benches /\ session = TRUE
    /\ prompt \in Prompts /\ references = 0 /\ uploads = 0
    /\ results = <<>> /\ previewed = 0
    /\ batch = Idle /\ recordings = {}
    /\ tasks = <<>> /\ made = 1
    /\ records = [r \in {1} |-> [prompt |-> CHOOSE p \in Prompts : TRUE, references |-> 0, items |-> <<1>>]]
    /\ logs = {1} /\ lists = <<>> /\ selected = {} /\ confirming = FALSE
    /\ deletions = {} /\ cancels = {} /\ doings = 0

StudioNext ==
    \/ ImagePage \/ ImageLogs \/ VideoPage \/ VideoLogs \/ ModelPage \/ HistoryPanel
    \/ Logout \/ StudioReplies

StudioFairness ==
    /\ \A i \in 1 .. MaxCount : WF_studioVars(SlotStep(i))
    /\ \A t \in 1 .. MaxCount * MaxDoings["video"] : WF_studioVars(t \in DOMAIN tasks /\ TaskStep(t))
    /\ WF_studioVars(RecordSaved)
    /\ \A l \in 1 .. MaxLists : WF_studioVars(l \in DOMAIN lists /\ (RecordsServed(l) \/ ListArrived(l)))

StudioSpec == StudioInit /\ [][StudioNext]_studioVars /\ StudioFairness
=============================================================================
