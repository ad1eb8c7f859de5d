---------------------------- MODULE WorkflowSharing ----------------------------
(***************************************************************************)
(* One workflow that its owner shares by link (service/workflow.go): the   *)
(* workflow_shares rows with their versions, and the copies that other     *)
(* users make, linked to the share or detached from it.                    *)
(*                                                                         *)
(* Sharing again reads the active share, counts its version up, saves the  *)
(* whole row (gorm's Save) and then pushes the snapshot to the linked      *)
(* copies one at a time; revoking updates the status alone.  job[r] is     *)
(* what request r has read or written.  Contents are abstracted to         *)
(* editions of the workflow.                                               *)
(***************************************************************************)
EXTENDS Integers, FiniteSets

CONSTANTS
    Requests,     \* concurrent HTTP requests about this workflow
    Shares,       \* ids of shares not made yet
    Copies,       \* ids of the workflows that copies become
    MaxEdits,     \* bound: editions of the workflow
    MaxVersion    \* bound: versions of a share

Nothing == "none"
Own == -1            \* the content its user gave a copy

ASSUME SharingAssumption ==
    /\ MaxEdits \in Nat /\ MaxVersion \in Nat \ {0}
    /\ Nothing \notin Shares \cup Copies

VARIABLES
    edition,   \* what the owner's workflow shows
    share,     \* workflow_shares
    copy,      \* the copies' workflows, with their workflow_share_copies
    pc, job,   \* what each request does next, and on what
    outdated,  \* history: requests that act on a share written since they read it
    stale,     \* history: shares saved by such a request
    behind     \* history: copies an overlap or a failure keeps from their share

vars == <<edition, share, copy, pc, job, outdated, stale, behind>>

Editions == 0 .. MaxEdits
Versions == 0 .. MaxVersion
PCs == {"idle", "share", "save", "push", "pushing", "copy"}

NoJob == [target |-> Nothing, version |-> 0, edition |-> 0, queue |-> {}]

Go(r, next, j) == pc' = [pc EXCEPT ![r] = next] /\ job' = [job EXCEPT ![r] = j]
Stop(r) == Go(r, "idle", NoJob)

Active(s) == share[s].state = "active"
LinkedTo(s) == {c \in Copies : copy[c].state = "live" /\ copy[c].of = s /\ copy[c].linked}

\* The requests that act on what they have read of share s, or on there being
\* none.
Readers(s) == {q \in Requests : pc[q] \in {"save", "copy"} /\ job[q].target \in {s, Nothing}}

-----------------------------------------------------------------------------
(* Sharing *)

\* UpdateWorkflow by the owner
EditSource ==
    /\ edition < MaxEdits
    /\ edition' = edition + 1
    /\ UNCHANGED <<share, copy, pc, job, outdated, stale, behind>>

\* GetWorkflow
ReadSource(r) ==
    /\ pc[r] = "idle"
    /\ Go(r, "share", [NoJob EXCEPT !.edition = edition])
    /\ UNCHANGED <<edition, share, copy, outdated, stale, behind>>

\* Mutant: a revoked share is found as well.
FindAnyShare(r) ==
    /\ pc[r] = "share"
    /\ \/ \E s \in Shares :
              /\ share[s].state # "none" /\ share[s].version < MaxVersion
              /\ Go(r, "save", [job[r] EXCEPT !.target = s,
                                              !.version = share[s].version + 1])
       \/ /\ \A s \in Shares : share[s].state = "none"
          /\ Go(r, "save", [job[r] EXCEPT !.version = 1])
    /\ UNCHANGED <<edition, share, copy, outdated, stale, behind>>

FindShare(r) ==
    /\ pc[r] = "share"
    /\ \/ \E s \in Shares :
              /\ Active(s) /\ share[s].version < MaxVersion
              /\ Go(r, "save", [job[r] EXCEPT !.target = s,
                                              !.version = share[s].version + 1])
       \/ /\ \A s \in Shares : ~Active(s)
          /\ Go(r, "save", [job[r] EXCEPT !.version = 1])
    /\ UNCHANGED <<edition, share, copy, outdated, stale, behind>>

\* Writes the row of share s as request r holds it, its status included.
SaveRow(r, s) ==
    /\ share' = [share EXCEPT ![s] = [state |-> "active", version |-> job[r].version,
                                      snapshot |-> job[r].edition]]
    /\ outdated' = (outdated \cup Readers(s)) \ {r}
    /\ stale' = IF r \in outdated THEN stale \cup {s} ELSE stale
    /\ UNCHANGED <<edition, copy, behind>>

\* Mutant: the copies are not told.
SaveShareQuietly(r) ==
    /\ pc[r] = "save"
    /\ \/ job[r].target # Nothing /\ SaveRow(r, job[r].target)
       \/ /\ job[r].target = Nothing
          /\ \E s \in Shares : share[s].state = "none" /\ SaveRow(r, s)
    /\ Stop(r)

\* A share that was there is pushed to its copies.
SaveShare(r) ==
    /\ pc[r] = "save"
    /\ \/ /\ job[r].target # Nothing
          /\ SaveRow(r, job[r].target)
          /\ Go(r, "push", job[r])
       \/ /\ job[r].target = Nothing
          /\ \E s \in Shares : share[s].state = "none" /\ SaveRow(r, s)
          /\ Stop(r)

\* pushLinkedShareUpdates
ListCopies(r) ==
    LET Q == LinkedTo(job[r].target) IN
    /\ pc[r] = "push"
    /\ IF Q = {} THEN Stop(r) ELSE Go(r, "pushing", [job[r] EXCEPT !.queue = Q])
    /\ UNCHANGED <<edition, share, copy, outdated, stale, behind>>

\* A copy gets the content and the version, whatever version it has, unless its
\* user has deleted it.  It falls behind when the share has moved on, and
\* catches up when it has not.
PushCopy(r) ==
    LET j == job[r] IN
    /\ pc[r] = "pushing"
    /\ \E c \in j.queue :
           /\ IF copy[c].state = "live"
              THEN /\ copy' = [copy EXCEPT ![c].version = j.version,
                                           ![c].content = j.edition]
                   /\ behind' = IF j.version = share[j.target].version THEN behind \ {c}
                                ELSE IF copy[c].version > j.version THEN behind \cup {c}
                                ELSE behind
              ELSE UNCHANGED <<copy, behind>>
           /\ IF j.queue = {c} THEN Stop(r)
              ELSE Go(r, "pushing", [j EXCEPT !.queue = @ \ {c}])
    /\ UNCHANGED <<edition, share, outdated, stale>>

RevokeWorkflowShare(s) ==
    /\ Active(s)
    /\ share' = [share EXCEPT ![s].state = "revoked"]
    /\ outdated' = outdated \cup Readers(s)
    /\ UNCHANGED <<edition, copy, pc, job, stale, behind>>

-----------------------------------------------------------------------------
(* Copying *)

\* findActiveShare; the password has been checked
FindActiveShare(r) ==
    /\ pc[r] = "idle"
    /\ \E s \in Shares :
           /\ Active(s)
           /\ Go(r, "copy", [NoJob EXCEPT !.target = s, !.version = share[s].version,
                                          !.edition = share[s].snapshot])
    /\ UNCHANGED <<edition, share, copy, outdated, stale, behind>>

CopyWorkflowShare(r) ==
    LET j == job[r] IN
    /\ pc[r] = "copy"
    /\ \E c \in Copies, linked \in BOOLEAN :
           /\ copy[c].state = "none"
           /\ copy' = [copy EXCEPT ![c] = [state |-> "live", of |-> j.target,
                                           linked |-> linked, version |-> j.version,
                                           content |-> j.edition]]
           /\ behind' = IF linked /\ r \in outdated THEN behind \cup {c} ELSE behind
    /\ outdated' = outdated \ {r}
    /\ Stop(r)
    /\ UNCHANGED <<edition, share, stale>>

\* UpdateWorkflow and DeleteWorkflow by the copier
EditCopy(c) ==
    /\ copy[c].state = "live"
    /\ copy' = [copy EXCEPT ![c].content = Own]
    /\ UNCHANGED <<edition, share, pc, job, outdated, stale, behind>>

NoCopy == [state |-> "none", of |-> Nothing, linked |-> FALSE, version |-> 0,
           content |-> 0]
DeleteCopy(c) ==
    /\ copy[c].state = "live"
    /\ copy' = [copy EXCEPT ![c] = [NoCopy EXCEPT !.state = "deleted"]]
    /\ behind' = behind \ {c}
    /\ UNCHANGED <<edition, share, pc, job, outdated, stale>>

-----------------------------------------------------------------------------
\* The request ends before its next write: that write fails, or the server
\* stops.
Interrupt(r) ==
    LET unpushed == CASE pc[r] = "push" -> LinkedTo(job[r].target)
                      [] pc[r] = "pushing" -> {c \in job[r].queue : copy[c].state = "live"}
                      [] OTHER -> {}
    IN
    /\ pc[r] # "idle"
    /\ behind' = behind \cup unpushed
    /\ outdated' = outdated \ {r}
    /\ Stop(r)
    /\ UNCHANGED <<edition, share, copy, stale>>

Init ==
    /\ edition = 0
    /\ share = [s \in Shares |-> [state |-> "none", version |-> 0, snapshot |-> 0]]
    /\ copy = [c \in Copies |-> NoCopy]
    /\ pc = [r \in Requests |-> "idle"]
    /\ job = [r \in Requests |-> NoJob]
    /\ outdated = {} /\ stale = {} /\ behind = {}

ShareWorkflow(r) ==
    ReadSource(r) \/ FindShare(r) \/ SaveShare(r) \/ ListCopies(r) \/ PushCopy(r)

Next ==
    \/ EditSource
    \/ \E r \in Requests :
           \/ ShareWorkflow(r) \/ FindActiveShare(r) \/ CopyWorkflowShare(r)
           \/ Interrupt(r)
    \/ \E s \in Shares : RevokeWorkflowShare(s)
    \/ \E c \in Copies : EditCopy(c) \/ DeleteCopy(c)

Spec == Init /\ [][Next]_vars
=============================================================================
