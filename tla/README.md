# A verification of the Edge-Fast image queue

TLA+ models of the server's stateful core — the AI generation queue, the users'
accounts, the stored files and shared workflows — and of the web client's pages that keep a
state of their own while requests are in flight — the canvas and its saves, its assistant, the
workbenches, the session, the settings, the library of workflows and the lists of the
administration — with the TLC runs that check them and the TLAPS proofs of what matters most. The reference is the code: every definition listed
under `map` in `PROJECT.json` translates the lines named there. Paths below are
relative to the repository.

* [The system](#the-system) — components, state, interactions, what is hard
* [The modules](#the-modules) — how state and actions correspond to the code
* [The runs](#the-runs) — what each checks, bounds, fairness
* [The proofs](#the-proofs) — theorems, inductive invariants, arguments
* [What the code does not keep](#what-the-code-does-not-keep)
* [Abstractions](#abstractions) and [Not modelled](#not-modelled)

## The system

A Go server (Gin, gorm over SQLite, MySQL or PostgreSQL) and a React client for
making images, videos and 3D models on a canvas. Requests run concurrently, each
in its own goroutine; the state they share is the database, the storage of
objects (local, S3, WebDAV …) and a few locks in memory.

| component | state | operations | what is hard | correct when |
|---|---|---|---|---|
| **generation queue** `service/generation_queue.go`, `repository/generation_task.go` | `generation_tasks` rows, stored payloads, `queueMu`, the users' credits | submit, cancel, dispatch (every second), execute, recover at start, clean up (hourly) | one lock, but execution and recovery outside it; charge, row and refund are separate writes; crashes | every request is charged exactly as its outcome says, runs at most once, in order, within the limits, and ends |
| **AI proxy** `handler/ai.go`, `service/settings.go` | none of its own; the channels in the settings | forward a call, try the next channel, copy results to the storage | partial failure between charge and answer | an answer keeps the charge, an error returns it |
| **accounts and billing** `service/auth.go`, `billing.go`, `kyc.go`, `repository/user.go` | `users`, `credit_logs`, `entitlement_logs`, `plan_orders`, `kyc_verifications`, issued JWTs | log in, edit, reset, ban, delete, adjust, debit, refund, buy, verify | most handlers read the whole row and later write the whole row | balances agree with the ledgers, a ban or a new password holds, nothing pays out twice |
| **cloud files** `service/cloud_storage.go`, `repository/cloud_file.go` | `cloud_files` rows and the objects behind them | store, bind, delete, hourly sweep | row and object change separately; a sweep acts on a list read earlier | what a workflow shows stays; what nobody holds goes |
| **generation history** `service/generation_history.go` | `generation_histories` | save, delete, prune on listing, hourly clean-up | shares files with workflows | history and its files share one lifetime |
| **workflows, sharing, community** `service/workflow.go` | `workflows`, `workflow_shares`, `workflow_share_copies`, `community_posts`, stars | create, save, delete; share, copy, push to linked copies, revoke; publish, sync, star, ban | whole-row saves of shares and posts; pushes one copy at a time | a revoked share or banned post stays so, linked copies follow the newest version |
| **canvas assistant, 3D models** `service/canvas_assistant.go`, `model_3d.go` | assistant sessions, credits | answer, plan; reserve, bill, refund | upstream call between reading and saving a session; reserve against actual usage | pay for what was delivered |
| **e-mail codes, wallets, rate limits** `service/auth.go`, `rate_limit.go` | `email_codes`, challenges, buckets in memory | send, verify, register, log in by wallet | check-then-insert, attempts counted by whole-row saves | a code is good once, guesses are limited |
| **canvas editor** `web/src/app/(user)/canvas/[id]/canvas-client-page.tsx` and helpers | nodes, links, undo history and its timer, runs of generations, a preview of agent operations | edit, group, undo, generate, retry, upload, preview | answers arrive for nodes that are gone, regrouped or undone; an undo within the timer | a result lands on its node or nowhere; the history misses no change unmarked |
| **saves of the canvas** same page, `stores/use-canvas-store.ts` | two timers, the title, requests in flight | save nodes, view, title; share; make and delete a workflow | overlapping whole saves answered in any order | what is on the canvas is what is kept in the end |
| **workbenches** `image/page.tsx`, `video/page.tsx`, `model-3d/page.tsx`, `services/api/image.ts` … | a batch, its cards, polls, references, records | generate, poll, cancel, record, list, delete | answers are put in by index, polls never give up | a button cancels its own task; a batch ends and is recorded as asked |
| **login and session** `login/page.tsx`, `metamask-email`, `forgot-password`, `profile/setup`, `client-root-init.tsx`, captcha fields | the stored user, the cookie, a captcha token, redirects | log in, register, reset, bind, log out, hydrate | several effects redirect on answers that arrive late | a captcha token is sent once; redirects end |
| **settings** `(admin)/admin/settings/page.tsx`, `service/settings.go` | one document of the server, form, drawers, dialogs | load, edit as form or text, save, test a channel | read–edit–save of the whole, secrets put back by the server | keys and prices stay with their channel and model |
| **library of workflows, community** `workflow-library-view.tsx`, `use-workflow-modals.tsx` | the store's workflows, ticks, a run of deletions, the published works | list, rename, create, delete several, publish, sync | requests that save a post whole | a ban holds; a run leaves nothing behind |
| **administration lists** `(admin)/admin/{users,prompts,assets,plans,…}` | a query or a list, criteria, one form for all rows, changes in flight | search, edit, adjust, delete, ban | invalidation while a request is under way; a form that outlives its dialog | details stay at their row; the list ends up current |
| prompt synchronisation; assets, preferences; database set-up and routing; logs and helpers; other pages | rows of their own | single reads and writes | no protocol of the state modelled here | — |

How they interact. A generation request enters through the AI proxy's handler.
With the queue on it goes through `SubmitAITask`, which debits the user's credits
(accounts), stores its payload (cloud files) and writes a row; the dispatcher or
the submission itself starts a goroutine that calls the proxy's executor and
settles the row and the credits. Results are stored as temporary files, recorded
in a history, and become permanent when a saved workflow cites them. Workflow
creation debits a second balance of the account. The sweep of cloud files also
deletes payloads of the queue that have expired. `main.go` starts the schedulers,
then serves at once: recovery, dispatch, sweep and requests all run together.
The client shows one page at a time; what two pages share is on the server. A
request that has left is answered whether or not the page that sent it is still
there, and its answer finds the state as it is then.

What is hard to test here is listed with its line in `PROJECT.json` under
`hazards`: the forty that matter most, with the properties that cover them. Two
have none, for the reason they note: the count of guesses of an e-mail code,
which is bounded only by the rate limits in front of it, and the files that a
copy of a workflow cites, about which the code promises nothing.

## The modules

| modules | models |
|---|---|
| `GenerationQueue` → `QueueProperties` → `QueueInvariant` → `QueueProofs`, `QueueSafetyProofs`; `MCQueue` | the queue |
| `Escrow` | the abstract promise about a request's price, which the queue implements |
| `Accounts` → `AccountProperties` → `AccountInvariant` → `AccountProofs`; `MCAccounts` | one user's account |
| `CloudFiles` → `CloudFilesProperties` → `CloudFilesInvariant` → `CloudFilesProofs`; `MCCloudFiles` | one user's files, workflows and histories |
| `WorkflowSharing` → `SharingProperties` → `SharingInvariant` → `SharingProofs`; `MCSharing` | one workflow's share links and the copies made from them |
| `CanvasEditor` → `CanvasEditorProperties` → `CanvasEditorInvariant` → `CanvasEditorProofs`; `MCCanvasEditor` | the document of an open canvas |
| `ClientSession` → `ClientSessionProperties` → `ClientSessionProofs` | one tab's login |
| `StudioPages` → `StudioProperties` → `ClientInvariant` → `ClientProofs` | the workbenches of images, videos and 3D models |
| `CanvasAssistant` → `CanvasAssistantProperties` → `ClientInvariant` → `ClientProofs` | the assistant's panel and the sessions the server keeps |
| `CanvasSaves` → `CanvasSavesProperties` | the saves of the canvas page |
| `AdminSettings` → `AdminSettingsProperties` → `ClientInvariant` → `ClientProofs` | the settings page and the merge of what it saves |
| `WorkflowLibrary` → `WorkflowLibraryProperties` → `ClientInvariant` → `ClientProofs` | the library of workflows and the community's posts |
| `AdminLists` → `AdminListsProperties` → `ClientInvariant` → `ClientProofs` | the list pages of the administration |
| `MCWebClient` | a tab that is open at one of the last six |

Each component has one module with the state and one action per database write
(or per group of writes nobody else can tell apart), one with the properties, one
with the inductive invariant, the proofs, and an `MC` module that gives TLC its
constants. A few definitions that no `Next` reaches are mutated forms of an
action (`RollbackUnpaid`, `ConsumeTwice` and the like, each marked as a mutant next
to the action it changes); they serve to show that the properties can fail.

### GenerationQueue

An element of `Tasks` is a request from arrival to the deletion of its row.
`pc[t]` is where its goroutine is, `status, position, created, startedAge, req`
its row, `mu` is `queueMu`, `rec`/`items` the recovery pass, `disp` the models the
running dispatch has yet to visit, `torn` and the counters are history.

| code | actions |
|---|---|
| `SubmitAITask` | `Submit` (settings read, payload stored) → `TurnAway` or `Debit` (lock, limit, charge) → `SaveExecuting` or `SaveQueued`; `DebitUnlogged`, `SaveError`, `Rollback` when a write fails |
| `CancelGenerationTask` | `CancelRefund` → `CancelMark` → `CancelCleanup` (delete payload, renumber); `CancelUnlogged`, `CancelMarkError` |
| `dispatchQueuedTasks` | `DispatchStart` takes the lock and lists the models; `DispatchModel` starts the oldest tasks of one and renumbers the rest; `DispatchError` stops half way |
| `executeTask` | `PayloadLost`, `CallProxy` (answer or error) → `MarkSucceeded` or `MarkFailed` → `RefundFailed`; `MarkSucceededError` |
| `recoverExecutingTasks` | `RecoverSelect` → `RecoverMark` → `RecoverRefund` per row, without the lock, beside everything else |
| the rest | `CleanupOld`, `ExpirePayload`, `ToggleQueue`, `Tick`, `Crash` |

Any write may fail (`MaxFaults`) and the process may die between any two steps
(`MaxCrashes`); a crash loses goroutines, lock and recovery and keeps the rows.
Time is relative: a row's `started_at` is its age in phases of a minute, so the
clock needs no bound.

`Escrow` says it in five words per request: *new*, *held*, then *kept* or
*returned* for good — or *torn*, when a failure hits between two writes. The
refinement maps rows and counters to these (`Deal`).

### Accounts

One `users` row and everything that pays into or out of it. A request is a `pc`
and what it has read: `copy[r]` the whole user row, `seen[r]` the verifications.
`Save(r, new)` is gorm's `Save`: it writes every column, over whatever is there
now, and inserts a row that is gone. Handlers with a read and a save have two
actions (`ReadLogin`/`SaveLogin`, `ReadProfile`/`SaveProfile`, `ReadReset`/
`SaveReset`, `ReadEdit`/`SaveEdit`, `ReadAdjust`/`SaveAdjust`,
`SaveAdjustWorkflows`); the AI call is `Consume` → `WriteLog` → `Answer`, with
`Refund` when it fails; `CreateOrder` → `OpenSession` is the checkout, `ReadOrder`
→ `ReadBuyer` → `CommitPurchase` the Stripe webhook, `ReadVerification` →
`CountRewards` → `CommitReward` or `CommitVerdict` the Didit webhook, each in one
transaction that `Abort` may end. `FirstCommitterWins` says whether the database
aborts a transaction whose reads have changed.

### CloudFiles

`file[f]` is a row, `objects` what the storage holds, `workflow[w]` the files a
workflow's nodes cite, `history[h]` a history's media and expiry. `job[p]` is what
process `p`, a request or the clean-up goroutine, has read and is about to do.
Storing is `StoreUserFile`; `CreateWorkflow` writes and binds in one transaction,
`UpdateWorkflow` → `BindWorkflowCloudFiles` does not; a history is `ReadMedia` → `SaveGenerationHistory` →
`BindCloudFiles`; the three ways to delete (`DeleteWorkflow`, `DeleteHistory`,
`PruneHistory`) and the clean-up (`Wake`, `NextHistory`, `ListExpiredCloudFiles`)
share `ListFiles` → `DeleteStoredFile` → `MarkCloudFileDeleted` → …
→ `DeleteGenerationHistory`. `FailDelete` is a refused removal or mark, with what
each caller does about it; `Interrupt` a binding that fails, a client that goes
away or a restart.

### WorkflowSharing

`edition` is what the owner's workflow shows, `share[s]` a row of
`workflow_shares`, `copy[c]` a copied workflow together with its
`workflow_share_copies` row, `job[r]` what request `r` has read. Sharing is
`ReadSource` → `FindShare` → `SaveShare` and, for a share that was there,
`ListCopies` → `PushCopy` for each; copying is `FindActiveShare` →
`CopyWorkflowShare`; `RevokeWorkflowShare`, `EditSource`, `EditCopy` and
`DeleteCopy` are single updates, and `Interrupt` ends a request before its next
write. `outdated` holds the requests whose share has been written since they
read it, `stale` the shares such a request saved, `behind` the linked copies that
an overlap or a failure keeps from their share until the next push.

### CanvasEditor

`nodes` and `links` are the document; a node has its kind, its status, what it
*shows* (the number of the node whose request made its content) and its group.
`past`, `last`, `future` are the undo history, `dirty` says that the document has
changed since `last`, `commit` that the timer of 180 ms runs, `applying` the
entries of an undo that React has yet to put in. `jobs` are the requests: what
they generate, from which node, as it was then, and the nodes that wait.

| code | actions |
|---|---|
| `useEffect` of the history | `HistoryEffect`, a part of every action that changes the document; `CommitHistory` is its timer |
| `undo`, `redo`, `applyHistory` | `Undo`, `Redo` → `HistoryApplied` |
| keyboard, toolbars, menus, panels | `Keyboard`, `TopBarMenu`, `BottomToolbar`, `HoverToolbar`, `ContextMenu`, `NodeFrame`, `NodeContent`, `PromptPanel`, `ConfigPanel`, `ConnectionCreateMenu`, `AssetPicker`: which of the operations each surface offers |
| `handleGenerateNode` | `Generate` → `LaunchImage`/`LaunchVideo`/`LaunchText` → `StreamText`, `AnswerImage`, `AnswerVideo`, `AnswerText`; `PreparationFails` |
| retry, angle, crop, upload | `Retry` → `RetryPrepared` → `AnswerOne`, `Angle`, `Upload` → `CropAdded`, `FileAdded`, `FileReplaced`, `UploadFails` |
| the agent's preview | `StartPreview`, `CancelPreview`, `ConfirmPreview`, which may generate |
| the mouse, a reload | `PressNode`, `DragNode`, `ReleaseNode` (with the pause of the history); `Reload` opens what is kept, with loading nodes as failed |

### CanvasSaves

Edits, moves of the view and titles are counters: which of them a save carries
is what matters. `autoTimer` (600 ms) and `viewTimer` (500 ms) are what a pending
save will carry; `saves` are in flight, `record` is the server's. `AutoSave` and
`ViewSave` are the two effects, part of every action that changes what they
depend on — the answer of a save among them. The rest is `AutoSaveFires`,
`ViewSaveFires`, `FinishTitleEditing`, `SaveServed` → `SaveAnswered`, the dialog
that shares, the name of a new workflow and the deletion.

### CanvasAssistant

`talk` is the panel's, `kept` the server's sessions. A question puts a
placeholder into `talk` and goes through `SessionRead` (the server's session as it
is now) → `SaveCanvasAssistantSession` (whole, with the history the panel had sent)
→ `SendAnswered`, beside other questions, retries, new sessions, deletions
(`removals`), a fetch of the list that replaces everything shown
(`SessionsFetched`), and the panel being closed and opened.

### StudioPages

`bench` says which workbench it is. A batch has a slot per picture: `SlotStep` is
its request, its polls and its report; `TaskStep` is the server's queue. Cards
are addressed by index (`UpdateResultAt`), so what a report finds may be the cards
of something else. `RecordSaved` ends a batch; `lists`, `deletions`, `cancels` are
other requests in flight.

### ClientSession

`store` is the persisted user store, `cookie` the browser's session, `settings`
the public settings, `path` the page, `widget` the captcha with the token it holds
and what waits for the modal one, `spent` the tokens the server has seen. A call
is served at one moment (`Serve`, when cookie and accounts change) and answered at
another. `Outcomes` says what `service/auth.go` answers and `Human` is its check of the captcha.
There are two accounts (`Owners`): the password's and the wallet's. A wallet without an account of
its own is asked for an address even if an account has that address, and then gets one. `GuardPage`, `GuardProfile` and `SetupDone` are the effects that redirect
(`Redirects`).

### AdminSettings

`stored` is the server's document, `form` the page's, `listed` the channels of its
table, `json` the two halves edited as text. Every tab, drawer and dialog is an
operator, named after the component it models. `Served` is the server's turn: it answers a
load without keys, puts the keys it has into what is saved (`KeepKey`), numbers models that are
new or carry an identity of a channel before (`WithIds`), and closes what no channel offers, unless
no channel offers anything (`ScopedByServer`); `Arrived` is what the page does with the answer. Before a
save the page finds the prices again for the models that are open
(`SyncModelCosts`). `Admin` requires the windows that cover others to be closed.

### WorkflowLibrary

`projects` is the store's list, `cloud` the server's, edited elsewhere too. `run` is
a deletion of several workflows, which asks for each and breaks off; `jobs` are
requests about posts: `PostRead` → `PostSaved` → `PostAnswered`, with the row that
was read saved whole, and `BanPost` at any moment. A rename is an edition of its own, which makes
a post stale, and a sync under the workflow's former name is refused. The stores outlive the page,
so it may open with what an earlier visit listed.

### AdminLists

`office` says which page. Pages with a query have a `fetch` with the rules of
react-query (an invalidation replaces the request under way, unless no answer has
come yet); the others have `loads` in any order. `changes` go asked → served →
settling → settled; `entered` are the fields of the form, which outlives its
dialog; `editing` the row it is about. `left` are the queries of criteria that were left
while their request was under way: nothing cancels it, an invalidation asks again for the
active criteria alone, and coming back to those of before joins it (`UpdateFilters`). `unseen`
marks that the page cannot come to list a change: it is not told of it, or it awaits an
answer that was read before.

### MCWebClient

A tab shows one page. `tab` is chosen at the start and the other pages stay as
they begin, so that six specifications share two runs without multiplying their
states.

## The runs

`PROJECT.json` names each run's properties; all passing runs explore every
reachable state within their bounds.

| run | instance | shows |
|---|---|---|
| `queue_money` | 2 requests of one user with one credit, limit 1, 1 failed write, 1 crash, payloads may expire | credits follow the outcome (`MoneyExact`), nothing runs or is charged twice, outcomes are final, and the queue implements `Escrow` |
| `queue_limits` | 3 requests of 2 users, limit 1, cap 1, an administrator switching the queue off and on | the rate window, the cap although settings are read before the lock, dispatch order |
| `queue_liveness` | 2 requests, start with recovery, 2 crashes, fairness | the queue drains, answers settle, what a crash left executing is failed and paid back exactly once, also when the restart is itself interrupted |
| `queue_recovery_race` | the smallest instance | the [finding](#finding): a documented promise violated |
| `accounts_books` | 3 concurrent requests of any kind, 2 orders, 2 verifications | ledgers, sessions, payouts |
| `files_kept` | 2 requests and the clean-up, 2 files, 2 workflows, 1 history, 1 failure | bound files stay, lifetimes follow the holder, nothing leaks |
| `files_cleanup` | 1 request and the clean-up with batches of one, 2 failures, fairness | expired files and the files of deleted workflows go |
| `sharing` | 2 requests, 2 shares, 1 copy, 2 editions, 3 versions | linked copies follow, revocations stand |
| `canvas_edit` | 3 small pages (a group, a prompt feeding a configuration, an empty picture), 2 operations, 1 request in progress, 5 nodes, an undo depth of 2 | the history misses no change, answers revive nothing and stay with their nodes, previews are all or nothing |
| `client_login` | 2 calls in flight, 3 things done by the user | no captcha token is kept that the server has seen, redirects end, a guest leaves |
| `client_safety` | the pages of settings, assistant, library and lists, 2 requests in flight each | placeholders are not kept, details stay at their row, keys and prices stay, bans hold, broken-off runs are clean |
| `client_liveness` | workbenches, assistant, saves and lists under fairness | batches and questions end, saves and lists converge; a button cancels its own task, a picture that has arrived is recorded |

**Why the bounds are enough.** The hazards of the queue need a request against
another actor: two requests give every pair of submission, cancellation,
execution, dispatch and recovery, and a third gives a queue behind a running task
with two waiting; one fault and one crash give every single failure at every
step, and both together. `Phases = 1` makes every tick a turn of the minute, the
only tick at which the code behaves differently; a finer clock only adds ticks at
which `StartedThisMinute` does not change. Limits of one make the boundary case
the common case. Dispatch passes over several models with two waiting tasks each
are not reached (four requests exceed what TLC finishes in a few minutes); the
proofs do not depend on the number. In `accounts_books` three requests are a
reader-saver, what overlaps it, and a webhook; each anomaly needs two. In
`files_kept` two files let a deletion stop between them, two workflows let one
take the other's file; a request is used once, so that two requests and the
sweep give every triple of operations; `MaxClock = 1` with `Lifetime = 1` lets a
file expire and another be stored after that. `queue_limits` has no failed write;
a dispatch that fails half way is in `queue_money`, and `DispatchIsInOrder` is
proved for it. In `sharing` one copy is
enough for what is said of each copy, since copies meet only in the list of a
push, and two requests give every overlap of two shares, or of a share and a
copy; three versions let a slow push arrive after a newer one. In the client two
requests in flight give every overlap of two, in every order of service and
answer. What the user does is bounded per page (`MaxActs`, `MaxTalks`, `MaxClicks`,
`MaxVisits`, `MaxOperations`, `MaxWorks`, `MaxDoings`; failures count as well): two
operations on the canvas (redoing an undo is not counted) beside a request whose answer comes before, between or
after them; three steps at the login; six at the assistant, which are a question,
another, a deletion, closing, opening and a failure; five clicks and two changes
in the lists, which open a dialog, send, open the next and send that (three clicks under fairness); five visits
for a publication, a ban and a sync. The start pages of `canvas_edit` were chosen
so that no operation is spent on building what can be regrouped, retried or fed.
The pages of a run share its states: each bound is as large as its page alone
allows in about a minute. All bounds are constants named in the modules
(`MaxFaults`, `MaxCrashes`, `MaxClock`, `MaxFailures`, `MaxEdits`, `MaxVersion` and
the ones above); the proofs hold for every value of them.

**Symmetry** is used over files, workflows, shares and requests, which no operator orders
or chooses among in a way that shows; not in runs with liveness, nor for `Tasks`,
whose numbers stand for the order of ids. Deadlock checking is off in the runs
of the accounts, the files, sharing and the client, whose requests, edits, versions
and operations are finite in number and then used up; the queue's runs check it.

**Fairness.** Queue: weak fairness for each step of a goroutine that holds the
lock or waits for it (Go's mutex hands over to a waiter that has starved for a
millisecond, so a waiting submission goes on although others come), for the
scheduler (a ticker of one second), for recovery and for time. None for
`CallProxy`: `http.DefaultClient` has no timeout, so upstream may never answer;
`AnswerSettles` begins with the answer. None for failures, crashes or the
administrator; `queue_liveness` has a switch that stays on, since a queue that is
switched off does not drain. Files: a request or sweep that has begun goes on, the
hourly timer fires; failures are bounded, so that some later batch succeeds. Time
need not pass: the properties begin with a file that has expired. Client: timers
fire, a request that has left is served and its answer taken (a failure is an
answer), the queue gets to a task, and effects that redirect run once what they
depend on is there — React and the browser see to the former, the server's
handlers to the latter, as far as an upstream provider answers. Nothing the user
does is fair. `SavesConverge` cannot ask that the saves *end*: every answer re-arms
the timer of the view, so the page goes on saving what is already kept.

## The proofs

All theorems hold for every value of the constants allowed by the named
assumptions (`QueueAssumption`, `AccountsAssumption`, `RequestsAssumption`, `CloudFilesAssumption`,
`SharingAssumption`, `DepthAssumption`, `BoundsAssumption`, `StartsAssumption`,
`ListsAssumption`): any finite set of requests, any number of users, models,
files, workflows, shares, copies, failures and crashes, any canvas to begin with and any depth
of its undo, any number of steps of a user of the client. `RequestsAssumption` is that the
requests are finite in number, since the ledger sums over them; the three of the canvas are that
bounds are numbers and that a document which is opened is one. Every invariant, action property
and refinement that a passing run checks is stated by one of these theorems. TLC evaluated each
inductive invariant on the instances of the runs before it was proved.

**Queue.** `TypeCorrect` is proved first, action by action; the only arithmetic is
that a debit is guarded by the balance. The safety invariant `IInv` has five
parts: the lock (who is between two writes of a submission or cancellation is
alone there), recovery (it holds rows only while it works on them), what `pc`
says about the row, what the row says about `pc`, payload and upstream calls, and
— for requests that are not torn — the exact relation of debits, refunds and
state. The last needs the first four: whether `charges - refunds` is right after a
step depends on who else may be about to refund the same row. From `IInv` follow
`MoneyIsExact`, `RunsOnce`, `NoOrphans`, `PayloadKept`, the action property
`OutcomesAreFinal`, and `EscrowRefined`: every step of the queue maps to a step of
`Escrow` or leaves it alone. `CapHolds` (at most `MaxQueuedPerUser` waiting,
although check and save are apart) strengthens the cap by what a submission
holding the lock is about to add; `DispatchIsInOrder` follows from the choice of
the dispatched batch alone. `WindowCapHolds` splits the starts of a minute into those a limit
counts (`Counted`, whose number every start keeps within the limit, because it counts first and
under the lock) and those it does not (`Uncounted`: a `started_at` of the minute before). Of the
latter there is at most one: a submission that reads the time before the turn of the minute has
the lock from then on, so that nothing starts between the turn and its own start (`TurnInv`).
*Torn* requests are those a failure catches between
two writes; they are excluded because the code does not repair them, and marked
nowhere else.

**Accounts.** `CreditsHold` is that the credits are below zero only after an administrator
wrote a negative number (*overdrawn*; `auth.go:689-700` refuses none). It needs an invariant
(`CreditInv`), since whole rows read earlier are saved over the balance: none of the copies that
requests hold may be below zero either. `IInv` says that a checkout owns the one order without a session, what a webhook may
assume of the verification or order it has read, and, unless a row was saved over
a newer one, that tokens of the row's version belong to the current password.
`OrdersPayOnce` and `VerificationsRewardOnce` assume `FirstCommitterWins`. `BooksBalance`
needs a sum over the requests, of what each has yet to write to the ledger. The lemmas
`SumsExist`, `TotalIs` and `TotalMoves` say what the recursive function `Total` is: it exists, and
changing what one request owes changes the sum by the difference. They go by well-founded
induction over the subsets of a set, stated as a *set* of subsets for which the claim holds, since
an induction theorem with an operator as a parameter cannot be used. `DueInv` adds that a request
owes nothing but between its two writes, so that ending one elsewhere loses nothing.

**Files.** `IInv` is the conjunction of: what each process does fits what it is
about (`JobsFit`), histories are inserted once (`OneInsertEach`, `Inserted`), rows
name only what exists or existed, holder and lifetime agree also for deleted rows
(`HolderDecides`), whatever a process is about to delete may be deleted or was
bound in the meantime and is marked so (`InHandMayGo`), and objects go before rows
(`ObjectGoesFirst`). `OwnerPursues` is what makes `NoFileLeaks` inductive: it is
the request that deletes the workflow, and no other that happens to have the file on its
list, that still has the file before it, because the others may give up without a trace.
The proof has a lemma per group of actions and conjunct;
`Does(p)` groups the steps of a process so that frame arguments (what another
process has in hand stays allowed) are made once.

**Sharing.** `IInv` says what a request that nobody overtook knows of its share
(`Knowledge`: its version is the next one, or there is no active share), that
requests and copies refer to shares that were saved (`References`), that what is
left of a push are linked copies of its share (`Queues`), and that no version in
circulation is newer than its share's (`Ordered`). The order makes a new version
one that nothing shows yet, which is `VersionsNameContents`; together with the
queues it makes a slower push either put a copy back, which marks it *behind*, or
hit a copy that another request still has to reach, which is `CopiesFollow`.
`ActiveShareUnique` and `RevocationsStand` follow from what requests know. Each
action that builds a request's next job has a lemma that says what it does field
by field (`FindShareDoes` and its like), from which the parts of the invariant
are proved.

**Canvas.** The types carry the argument. `TypeOK` (`CanvasEditorInvariant`) says that every
number that the document, the links, the undo history, the clipboard, the preview or a request
names has been given out already (`1 .. born`). So a new node never takes the number of one that
an undo or a late answer may still be about, and *deleted* is a statement about numbers. Surfaces
offer the same operations in many places, so the steps are regrouped first (`EveryStep`): edits,
steps that leave the document alone, steps of a request, and the history. Then one lemma per
operation says that it keeps the types, one per edit that all new nodes are beyond `born`, and
one per step of a request that other nodes than its own stay as they are (`AnswerSteps`).
`RecordedStaysCurrent`, `DeletedNeverReturns`, `AnswersNeverStray` and `PreviewsAllOrNothing` follow from
these classes. `EveryPlaceTaken` and `MadeCount` count the nodes that a generation of several
pictures makes, which needs an induction on a number.

**Session.** `SessionInvariant` adds to the types that only the pages with a captcha hold a token
(`HeldHere`), that a call which carries the token that is held was sent by the page that is shown
(`CarriedHere`), and that a held token which the server has seen has its answer to come
(`SeenIsAnswered`). The second is what redirects would break: a call of a page that was left must
not carry the token of the next one. `ChallengesAreFresh` is then the third.

**The other pages** are proved in `ClientProofs`, each from its part of `ClientInvariant`.

*Library.* `LibraryInvariant` says that what a request has read of a
post was not banned then; with it `BansStand` goes through the actions: a post
changes from banned to active only by the save of such a request. `RunInvariant` says that
a deletion of several that goes on knows which one it is at; the step that ends it removes
from the list and from the ticks whatever it has done (`RunsEndClean`).

*Lists.* `ListsInvariant`
follows the details of a row wherever they are: in the server's rows, in every list
that is shown or on its way, in every change at each of its stages, and in the form
— which may be about a row only if what is entered is that row's. Its four parts
(`RowsInvariant`, `ListedInvariant`, `ChangesInvariant`, `DialogsInvariant`) are
preserved together, one lemma per group of actions; `DetailsKeptHome` is the first.
`ListsAssumption` numbers the rows from 1, as the lists are paged.

*Workbenches.* Cards are addressed by index, so a report may write into cards of something else.
Every step is one of two kinds: either no card begins to wait in the queue and the slots are the
same or gone (`CardsFade`), or a poll writes the same task into a slot and its card
(`StudioInvariant`). `CancelsHold` is a part of the invariant.

*Assistant.* `AssistantInvariant` follows the messages: a question is sent with a history that
`SanitizeAgentMessages` has left, so what the server keeps, and what a fetch of the
list brings back, is finished. What the filter `Only` leaves of a sequence is proved as
for `Total`, by induction on a set of lengths.

*Settings.* `SettingsInvariant` says that each of the documents — the server's, the form's, the
ones being edited as text, those in every request and its answer, the snapshot of an editor — is
a whole one whose channels are a list. `KeysNeverLost` needs it to speak of places at all:
`KeepKey` finds a key by name or by place, and both are there when every stored channel has one. `PricesNeverMove` is
about one step: `PriceFound` shows that `SyncModelCosts` finds the price of an open model by its
identity, and else by its name. Both were first stated more strongly and were refuted by TLC with
larger bounds when their proofs failed; what the code does there is told [below](#the-web-client).

The theorems beyond the runs' properties (`TypeCorrect` and its like, `SessionHolds`, `PayloadKept`,
`NoOrphans`, `StatusHolds`, `CreditsHold`, `RowsHaveObjects`, `DeletionsJustified`,
`VersionsNameContents`, `ActiveShareUnique`) are about formulas
that TLC checked before they were proved; they are not part of a run.

**Only model-checked:** liveness. `QueueDrains`, `AnswerSettles`, `OrphansSettle`,
`ExpiredFilesGo`, `WorkflowFilesGo`, `RedirectsEnd`, `GuestLeaves`, `BatchEnds`,
`ThinkingEnds`, `SavesConverge` and `ListsConverge` rest on fairness and so on `ENABLED`, which is
outside the prover; `CanvasSaves` promises nothing else and has no theorem. So is induction with
an operator for the claim; where a claim about a recursive function was needed it was
stated as a set, as above. No module uses recursive operators.

## What the code does not keep

### Finding

* **A live request is refunded and then succeeds** (`queue_recovery_race`).
  Recovery runs beside the server and its `UPDATE` has no condition on the status
  (`repository/generation_task.go:141-157`), against "Succeeded: Keep charge"
  (`docs/QUEUE_TECHNICAL.md:110`).

### Promises weakened to what holds

The properties above exclude, by name, what the code does not keep:

* A cancellation pays back before it marks the row, which stays queued when the
  mark fails: a second one pays back again (`generation_queue.go:205`).
  Such a request is *torn* as well.
* A failed request is not always refunded: a crash, or an error of the refund,
  after `MarkFailed` loses it (`generation_queue.go:331-335`); a crash after the
  debit loses it too. These are the *torn* requests of `MoneyExact`.
* The limit per minute is exceeded by one when a submission reads the time before
  the turn and counts after it (`:92` against `:407`); `WindowCap` allows that
  one. It is a limit per calendar minute, not the sliding window of
  `docs/QUEUE_TECHNICAL.md:76`.
* A new task's position is the number waiting plus one, not its rank in the order
  of service (`docs/QUEUE_TECHNICAL.md:81-87`): rows of one second are ordered by
  id. Positions are rewritten one by one (`generation_queue.go:288`).
* An administrator's change of the workflow balance (`auth.go:722`) writes no
  ledger entry, against `docs/backend-database.md:651`;
  `LedgerExact` excludes it as *unrecorded*.
* Signing in saves the whole row and undoes a debit made since it was read
  (`auth.go:260`); an adjustment writes its ledger entry after the balance
  (`auth.go:706`). An order is saved with an empty session id in a unique column,
  so one failed checkout blocks all others (`billing.go:119`).
* A ban does not survive a login that read the row before it (`auth.go:260`,
  `docs/pending-test.md:112`), nor a password change an overlapping save
  (`auth.go:676-684`, `docs/backend-database.md:72`): *stale* in
  `StatusIsDecided` and `OldTokensRejected`. An administrator's edit starts the
  token version again from the form, which has none: *reversioned*.
* On a database without first-committer-wins two deliveries of one Stripe event
  both grant the plan (`billing.go:192`, `docs/system-settings.md:298`), and two
  verifications of one user approved together are both rewarded
  (`kyc.go:180`, `docs/system-settings.md:312`).
* Listing histories deletes one whose media a workflow has made permanent
  (`generation_history.go:155`), and, with its files, one whose media cannot be
  looked up (`:106` takes the error for none left), where `docs/backend-database.md:684` names only
  media that are missing, deleted or expired. `DeletionHasReason` accepts both.
* A revoked share comes back when a request that read it before saves it
  (`workflow.go:308`), and two first shares at once leave two active ones
  (`:268`, `docs/backend-database.md:550`): *stale*. Two concurrent
  shares then give one version number to two contents.
* Linked copies can be left on an older version (`docs/system-settings.md:331`): a
  copy made while the share is saved, one that a slower push sets back, one that
  a failing push does not reach: *behind*, until the owner shares again. A newer
  version may carry an older edition, because the workflow is read before the
  share.
* A file that a second workflow cites moves to it and leaves with it
  (`cloud_file.go:73`); a file bound while the sweep is about to delete it is
  deleted. These are the *taken* and *raced* of the file properties; *late*,
  *unbound*, *leaked* and *unmarked* name the other ways a failure or an overlap
  leaves something behind.

### The web client

What the model shows the pages to do, beside what the properties promise:

* *Settings.* Saving before the first answer, or after a load that failed, sends the
  empty form and wipes every channel. Edits made while a load or a save is in flight are
  overwritten. Numbers of models come from the document that is sent, so a stale one
  reuses them (`docs/backend-database.md:217`). A channel that was renamed and moved gets
  the key of the one whose place it took (`service/settings.go:708`,
  `docs/pending-test.md:183`). A channel that is renamed in its drawer while its deletion is
  on the way is added anew, without a key: its name is unknown and its place is beyond
  the end. From then on a key can be lost, as another channel that is given
  this name finds the empty key by it. That is why `KeysStay` begins with channels that all have
  theirs. Cancelling the editor of a login provider puts the form back as it was when
  the editor opened, over an answer that came meanwhile; text of the private half that is read
  after that brings new channels beside old prices, and a change of the channels then sends a renamed
  model with the price of its old name's. That is why `PricesStay` begins with prices
  that stand under their models' names (`PricesNamed`). A verdict of a closed test dialog lands in the next one's.
* *Canvas.* Undo, redo, paste and a confirmed preview bring back nodes that are loading
  with no request behind them. An undo within 180 ms of an edit loses it, and two in a row
  before the first is put in confuse the timeline. A confirmed preview puts back the
  document as it was when the preview began. Deleting one loading picture of a group can
  leave its root loading. Undo covers neither the view nor the assistant, against
  `docs/features.md:20`; a prompt does not start generating by itself, against
  `docs/canvas-node-manual.md:30`.
* *Saves.* The page saves for ever, since every answer is a new project to the effect of the
  view. An edit that lands while a node is held gives up the pending save until the next
  change (the view's save then carries it). Two saves with different titles in flight may
  alternate. The last 600 ms are lost on leaving; a share shows what was last saved.
* *Assistant.* A session deleted while a question is answered comes back
  (`service/canvas_assistant.go:376`). A retry is not held back by a running question.
* *Workbenches.* A preview or a new session during a batch is overwritten by its answers.
  One failing poll ends a slot whose task goes on and is charged.
* *Library.* A rename sends the workflow as it is listed, over edits made elsewhere. A
  second click publishes twice. A list that was asked for when the page opened and is answered after a
  deletion brings the rows back, since the page shows those of the last visit meanwhile.
* *Session.* The page's request for the user, answered after a logout, shows the user again,
  though the cookie is gone.
* *Lists.* A new user, prompt or asset starts with the fields of the form's last row;
  the address of an asset is kept when another without one is opened, which is why
  `DetailsStayHome` leaves assets out. An answer closes or reopens whichever dialog is
  open. A row saved after its deletion is made anew. A change confirmed while a first
  list is awaited is not asked for again, and a keyword that is left and taken up again before its
  first request is answered shows that answer, though a change was made in between
  (`use-admin-prompts.ts:33-39`, `:77`): *unseen*.

## Abstractions

*Queue.* Payload and response are one bit (stored or not); a failing deletion of
a payload is left out, as are reads of tasks. A dispatch of one model is one step,
made under the lock. Retention is counted in hours: `CleanupOld` deletes only rows whose
minute is over, also while their request waits for an upstream that does not answer, but nobody
stays that long between two writes. Recovery reads its rows in one step and refunds one by one.

*Accounts.* One user. E-mail codes, passwords and signatures are checked before
the modelled step; refused requests change nothing and are left out. A session's
authentication and its handler's first read are one step. An administrator
sets the credits to any number (`Balances`), also below zero, and the workflow balance to what is left of it
above zero, as the server does. A Stripe or Didit redelivery is another request; the webhook reads
an order in whatever state, and may be set to reward each verification or each user once
(`rewardOnce`).

*Files.* One user, whose file ids are not guessed: a file cannot be named before
its row exists, so `StoreUserFile` is one step; an object whose row could not be
inserted, or a second copy made on a fallback storage, is unknown to the database
and left out. AutoCleanup is on. Removing an object that is gone succeeds. The
check of a workflow's files looks at rows whether deleted or not, as the code
does (`Citable`). The sweep's interval is a timer that may fire at any time.

*Sharing.* One workflow, whose contents are editions; its deletion leaves shares
and copies alone and is left out, as are passwords, slugs, stars (a unique index
keeps one per user), the look-up by path, the credit a copy costs (`Accounts`) and
`workflow_share_copies.source_version`, which nothing reads.

*Canvas.* Positions, sizes, titles and prompts change references and no values. A
node's content is the number of the request's node. The texts that a model streams
are one change per node. Deferred React updates are made at once, except the one the
code itself defers (`applyHistory`). *Saves.* Contents are counted, and the counter
says whether a save is current. *Assistant.* Messages have a turn and a state; a
plan is one bit. *Workbenches.* Prompts are model values; the parameters of a
generation and its price are left out. *Session.* One person and one tab; passwords
and codes are right or wrong by choice. *Settings.* Two channels, and `rest` for the
groups of plain fields. A channel's name stands for its name and address. *Lists.* A
row is whose details it carries, their edition, a balance and whether it is listed;
a page has one row.

*External.* Stripe, Didit, mail, the AI providers and the object storage are
their outcomes: an answer, an error, or nothing yet. The captcha widgets solve, fail
or expire.

## Not modelled

* **The channels' fallback** (`handler/ai.go`): which channel is tried next, and the
  copying of results into the storage. The queue sees an answer or an error.
* **E-mail codes, wallet challenges, rate limits** of the server: checked before the
  steps of `Accounts`. The client's part is in `ClientSession`.
* **Registration, Linux.do and the identity providers' protocols**: an account starts
  as one that exists.
* **The assistant's and the 3D models' billing** (`canvas_assistant.go`, `model_3d.go`):
  a reservation, an upstream call and a bill or refund in one request, like any AI
  call in `Accounts`, without its later correction.
* **Synchronisation of prompts**: fetching and parsing; the schedule is `robfig/cron`'s.
* **Stars and the purge of posts** long banned: single rows under a unique index; one
  delete statement.
* **Assets, preferences, plans as rows**: single reads and writes. Their pages are in
  `AdminLists`.
* **The page of advertisements and the switch of prompt images**: both save the whole
  settings as last loaded, as the settings page does.
* **Positions and sizes on the canvas, the crop and mask dialogs, the mini-map;
  translations, themes and pages that only show** what one request returned.
* **Database set-up, routing, logging, auditing, hashing.**
