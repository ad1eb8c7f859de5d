---------------------------- MODULE SharingProofs ----------------------------
(***************************************************************************)
(* Sharing, copying and revoking keep what SharingProperties states, for   *)
(* any number of requests, shares, copies and editions.                    *)
(***************************************************************************)
EXTENDS SharingInvariant, TLAPS

Jobs == [target : Shares \cup {Nothing}, version : Versions, edition : Editions,
         queue : SUBSET Copies]

\* A request moves on and the others stay.
LEMMA GoEffect ==
    ASSUME TypeOK, NEW r \in Requests, NEW next \in PCs, NEW j \in Jobs, Go(r, next, j)
    PROVE  /\ pc' \in [Requests -> PCs] /\ job' \in [Requests -> Jobs]
           /\ pc'[r] = next /\ job'[r] = j
           /\ \A q \in Requests \ {r} : pc'[q] = pc[q] /\ job'[q] = job[q]
BY DEF TypeOK, Go, Jobs

LEMMA NoJobTyped == NoJob \in Jobs /\ NoJob.target = Nothing /\ NoJob.queue = {}
BY SharingAssumption DEF NoJob, Jobs, Versions, Editions

\* A job keeps its other fields when some are set.
LEMMA JobSetVersion ==
    ASSUME NEW j \in Jobs, NEW v \in Versions
    PROVE  /\ [j EXCEPT !.version = v] \in Jobs
           /\ [j EXCEPT !.version = v].target = j.target
           /\ [j EXCEPT !.version = v].version = v
BY DEF Jobs

LEMMA JobSetQueue ==
    ASSUME NEW j \in Jobs, NEW Q \in SUBSET Copies
    PROVE  /\ [j EXCEPT !.queue = Q] \in Jobs
           /\ [j EXCEPT !.queue = Q].target = j.target
           /\ [j EXCEPT !.queue = Q].version = j.version
           /\ [j EXCEPT !.queue = Q].edition = j.edition
           /\ [j EXCEPT !.queue = Q].queue = Q
BY DEF Jobs

\* What the steps do, field by field.
FindShareEffect(r) ==
    /\ pc[r] = "share" /\ pc'[r] = "save"
    /\ pc' \in [Requests -> PCs] /\ job' \in [Requests -> Jobs]
    /\ \A q \in Requests \ {r} : pc'[q] = pc[q] /\ job'[q] = job[q]
    /\ \/ /\ job'[r].target \in Shares /\ Active(job'[r].target)
          /\ job'[r].version = share[job'[r].target].version + 1
       \/ /\ \A s \in Shares : ~Active(s)
          /\ job'[r].target = job[r].target /\ job'[r].version = 1
    /\ UNCHANGED <<edition, share, copy, outdated, stale, behind>>

LEMMA FindShareDoes ==
    ASSUME TypeOK, NEW r \in Requests, FindShare(r)
    PROVE  FindShareEffect(r)
<1> USE SharingAssumption
<1>0. job[r] \in Jobs /\ 1 \in Versions BY DEF TypeOK, Jobs, Versions
<1>1. CASE \E s \in Shares :
              /\ Active(s) /\ share[s].version < MaxVersion
              /\ Go(r, "save", [job[r] EXCEPT !.target = s,
                                              !.version = share[s].version + 1])
  <2>1. PICK s \in Shares :
              /\ Active(s) /\ share[s].version < MaxVersion
              /\ Go(r, "save", [job[r] EXCEPT !.target = s,
                                              !.version = share[s].version + 1])
    BY <1>1
  <2> DEFINE v == share[s].version + 1
             j == [job[r] EXCEPT !.target = s, !.version = v]
  <2>2. v \in Versions BY <2>1 DEF TypeOK, Versions
  <2>3. j \in Jobs /\ j.target = s /\ j.version = v
    <3> HIDE DEF v
    <3> QED BY <1>0, <2>2 DEF Jobs
  <2>4. Go(r, "save", j) BY <2>1
  <2> HIDE DEF j
  <2>5. QED BY <2>1, <2>3, <2>4, GoEffect DEF FindShareEffect, FindShare, PCs
<1>2. CASE /\ \A s \in Shares : ~Active(s)
           /\ Go(r, "save", [job[r] EXCEPT !.version = 1])
  <2> DEFINE j == [job[r] EXCEPT !.version = 1]
  <2>1. j \in Jobs /\ j.target = job[r].target /\ j.version = 1
    BY <1>0, JobSetVersion
  <2> HIDE DEF j
  <2>2. Go(r, "save", j) BY <1>2 DEF j
  <2>3. QED BY <1>2, <2>1, <2>2, GoEffect DEF FindShareEffect, FindShare, PCs
<1>3. QED BY <1>1, <1>2 DEF FindShare

Rows == [state : {"none", "live", "deleted"}, of : Shares \cup {Nothing},
         linked : BOOLEAN, version : Versions, content : Editions \cup {Own}]

\* One copy changes.
LEMMA CopyChanged ==
    ASSUME TypeOK, NEW c \in Copies, NEW w \in Rows, copy' = [copy EXCEPT ![c] = w]
    PROVE  /\ copy' \in [Copies -> Rows] /\ copy'[c] = w
           /\ \A d \in Copies \ {c} : copy'[d] = copy[d]
BY DEF TypeOK, Rows

LEMMA DeletedRow == [NoCopy EXCEPT !.state = "deleted"] \in Rows
<1>1. 0 \in Versions /\ 0 \in Editions BY SharingAssumption DEF Versions, Editions
<1>2. NoCopy \in Rows BY <1>1 DEF NoCopy, Rows
<1>3. QED BY <1>2 DEF Rows

LEMMA CopyOverwritten ==
    ASSUME TypeOK, NEW c \in Copies, NEW v \in Versions, NEW e \in Editions,
           copy' = [copy EXCEPT ![c].version = v, ![c].content = e]
    PROVE  /\ copy' \in [Copies -> Rows]
           /\ \A d \in Copies \ {c} : copy'[d] = copy[d]
           /\ copy'[c].version = v /\ copy'[c].content = e
           /\ copy'[c].state = copy[c].state /\ copy'[c].of = copy[c].of
           /\ copy'[c].linked = copy[c].linked
<1> DEFINE w == [copy[c] EXCEPT !.version = v, !.content = e]
<1>1. copy[c] \in Rows BY DEF TypeOK, Rows
<1>2. /\ w \in Rows /\ w.version = v /\ w.content = e
      /\ w.state = copy[c].state /\ w.of = copy[c].of /\ w.linked = copy[c].linked
  BY <1>1 DEF Rows
<1>3. copy' = [copy EXCEPT ![c] = w] BY DEF TypeOK
<1> HIDE DEF w
<1>4. QED BY <1>2, <1>3, CopyChanged

ListCopiesEffect(r) ==
    /\ pc[r] = "push"
    /\ pc' \in [Requests -> PCs] /\ job' \in [Requests -> Jobs]
    /\ \A q \in Requests \ {r} : pc'[q] = pc[q] /\ job'[q] = job[q]
    /\ \/ /\ LinkedTo(job[r].target) = {}
          /\ pc'[r] = "idle" /\ job'[r] = NoJob
       \/ /\ pc'[r] = "pushing" /\ job'[r].queue = LinkedTo(job[r].target)
          /\ job'[r].target = job[r].target /\ job'[r].version = job[r].version
          /\ job'[r].edition = job[r].edition
    /\ UNCHANGED <<edition, share, copy, outdated, stale, behind>>

LEMMA ListCopiesDoes ==
    ASSUME TypeOK, NEW r \in Requests, ListCopies(r)
    PROVE  ListCopiesEffect(r)
<1> DEFINE Q == LinkedTo(job[r].target)
           j == [job[r] EXCEPT !.queue = Q]
<1>1. job[r] \in Jobs /\ Q \in SUBSET Copies BY DEF TypeOK, Jobs, LinkedTo
<1>2. /\ j \in Jobs /\ j.target = job[r].target /\ j.version = job[r].version
      /\ j.edition = job[r].edition /\ j.queue = Q
  <2> HIDE DEF Q
  <2> QED BY <1>1, JobSetQueue
<1>3. /\ pc[r] = "push"
      /\ IF Q = {} THEN Go(r, "idle", NoJob) ELSE Go(r, "pushing", j)
      /\ UNCHANGED <<edition, share, copy, outdated, stale, behind>>
  BY DEF ListCopies, Stop
<1> HIDE DEF j
<1>4. QED BY <1>2, <1>3, GoEffect, NoJobTyped DEF ListCopiesEffect, PCs

PushCopyEffect(r, c) ==
    LET j == job[r] IN
    /\ pc[r] = "pushing" /\ c \in j.queue
    /\ pc' \in [Requests -> PCs] /\ job' \in [Requests -> Jobs]
    /\ \A q \in Requests \ {r} : pc'[q] = pc[q] /\ job'[q] = job[q]
    /\ \/ pc'[r] = "idle" /\ job'[r] = NoJob /\ j.queue = {c}
       \/ /\ pc'[r] = "pushing" /\ job'[r].queue = j.queue \ {c}
          /\ job'[r].target = j.target /\ job'[r].version = j.version
          /\ job'[r].edition = j.edition
    /\ IF copy[c].state = "live"
       THEN /\ copy' \in [Copies -> Rows]
            /\ \A d \in Copies \ {c} : copy'[d] = copy[d]
            /\ copy'[c].version = j.version /\ copy'[c].content = j.edition
            /\ copy'[c].state = copy[c].state /\ copy'[c].of = copy[c].of
            /\ copy'[c].linked = copy[c].linked
            /\ behind' = IF j.version = share[j.target].version THEN behind \ {c}
                         ELSE IF copy[c].version > j.version THEN behind \cup {c}
                         ELSE behind
       ELSE UNCHANGED <<copy, behind>>
    /\ UNCHANGED <<edition, share, outdated, stale>>

LEMMA PushCopyDoes ==
    ASSUME TypeOK, NEW r \in Requests, PushCopy(r)
    PROVE  \E c \in Copies : PushCopyEffect(r, c)
<1>1. PICK c \in job[r].queue :
        /\ IF copy[c].state = "live"
           THEN /\ copy' = [copy EXCEPT ![c].version = job[r].version,
                                        ![c].content = job[r].edition]
                /\ behind' = IF job[r].version = share[job[r].target].version
                             THEN behind \ {c}
                             ELSE IF copy[c].version > job[r].version THEN behind \cup {c}
                             ELSE behind
           ELSE UNCHANGED <<copy, behind>>
        /\ IF job[r].queue = {c} THEN Go(r, "idle", NoJob)
           ELSE Go(r, "pushing", [job[r] EXCEPT !.queue = @ \ {c}])
  BY DEF PushCopy, Stop
<1> DEFINE Q == job[r].queue \ {c}
           j == [job[r] EXCEPT !.queue = Q]
<1>2. job[r] \in Jobs /\ Q \in SUBSET Copies /\ c \in Copies BY DEF TypeOK, Jobs
<1>3. /\ j \in Jobs /\ j.target = job[r].target /\ j.version = job[r].version
      /\ j.edition = job[r].edition /\ j.queue = Q
  <2> HIDE DEF Q
  <2> QED BY <1>2, JobSetQueue
<1>4. IF job[r].queue = {c} THEN Go(r, "idle", NoJob) ELSE Go(r, "pushing", j)
  BY <1>1, <1>2 DEF Jobs
<1> HIDE DEF j
<1>5. /\ pc' \in [Requests -> PCs] /\ job' \in [Requests -> Jobs]
      /\ \A q \in Requests \ {r} : pc'[q] = pc[q] /\ job'[q] = job[q]
      /\ \/ pc'[r] = "idle" /\ job'[r] = NoJob /\ job[r].queue = {c}
         \/ pc'[r] = "pushing" /\ job'[r] = j
  BY <1>3, <1>4, GoEffect, NoJobTyped DEF PCs
<1>6. copy[c].state = "live" =>
          /\ copy' \in [Copies -> Rows]
          /\ \A d \in Copies \ {c} : copy'[d] = copy[d]
          /\ copy'[c].version = job[r].version /\ copy'[c].content = job[r].edition
          /\ copy'[c].state = copy[c].state /\ copy'[c].of = copy[c].of
          /\ copy'[c].linked = copy[c].linked
  BY <1>1, <1>2, CopyOverwritten DEF Jobs
<1>7. QED BY <1>1, <1>2, <1>3, <1>5, <1>6 DEF PushCopyEffect, PushCopy

FindActiveEffect(r) ==
    /\ pc[r] = "idle" /\ pc'[r] = "copy"
    /\ pc' \in [Requests -> PCs] /\ job' \in [Requests -> Jobs]
    /\ \A q \in Requests \ {r} : pc'[q] = pc[q] /\ job'[q] = job[q]
    /\ job'[r].target \in Shares /\ Active(job'[r].target)
    /\ job'[r].version = share[job'[r].target].version
    /\ job'[r].edition = share[job'[r].target].snapshot
    /\ UNCHANGED <<edition, share, copy, outdated, stale, behind>>

LEMMA FindActiveDoes ==
    ASSUME TypeOK, NEW r \in Requests, FindActiveShare(r)
    PROVE  FindActiveEffect(r)
<1>1. PICK s \in Shares :
        /\ Active(s)
        /\ Go(r, "copy", [NoJob EXCEPT !.target = s, !.version = share[s].version,
                                       !.edition = share[s].snapshot])
  BY DEF FindActiveShare
<1> DEFINE v == share[s].version
           e == share[s].snapshot
           j == [NoJob EXCEPT !.target = s, !.version = v, !.edition = e]
<1>2. v \in Versions /\ e \in Editions BY DEF TypeOK
<1>3. j \in Jobs /\ j.target = s /\ j.version = v /\ j.edition = e
  <2> HIDE DEF v, e
  <2> QED BY <1>2, NoJobTyped DEF Jobs
<1>4. Go(r, "copy", j) BY <1>1
<1> HIDE DEF j
<1>5. QED BY <1>1, <1>3, <1>4, GoEffect DEF FindActiveEffect, FindActiveShare, PCs

SaveShareEffect(r, s) ==
    /\ pc[r] = "save"
    /\ \/ job[r].target = s
       \/ job[r].target = Nothing /\ share[s].state = "none"
    /\ pc' \in [Requests -> PCs] /\ job' \in [Requests -> Jobs]
    /\ \A q \in Requests \ {r} : pc'[q] = pc[q] /\ job'[q] = job[q]
    /\ \/ job[r].target = s /\ pc'[r] = "push" /\ job'[r] = job[r]
       \/ job[r].target = Nothing /\ pc'[r] = "idle" /\ job'[r] = NoJob
    /\ SaveRow(r, s)

LEMMA SaveShareDoes ==
    ASSUME TypeOK, NEW r \in Requests, SaveShare(r)
    PROVE  \E s \in Shares : SaveShareEffect(r, s)
<1>0. job[r] \in Jobs BY DEF TypeOK, Jobs
<1>1. CASE /\ job[r].target # Nothing
           /\ SaveRow(r, job[r].target)
           /\ Go(r, "push", job[r])
  <2>1. job[r].target \in Shares BY <1>0, <1>1 DEF Jobs
  <2>2. SaveShareEffect(r, job[r].target)
    BY <1>0, <1>1, GoEffect DEF SaveShareEffect, SaveShare, PCs
  <2>3. QED BY <2>1, <2>2
<1>2. CASE /\ job[r].target = Nothing
           /\ \E s \in Shares : share[s].state = "none" /\ SaveRow(r, s)
           /\ Stop(r)
  <2>1. PICK s \in Shares : share[s].state = "none" /\ SaveRow(r, s) BY <1>2
  <2>2. SaveShareEffect(r, s)
    BY <1>2, <2>1, GoEffect, NoJobTyped DEF SaveShareEffect, SaveShare, Stop, PCs
  <2>3. QED BY <2>2
<1>3. QED BY <1>1, <1>2 DEF SaveShare

\* Every step keeps the types.
LEMMA TypeStep ==
    ASSUME TypeOK, [Next]_vars
    PROVE  TypeOK'
<1> USE SharingAssumption
    DEF TypeOK, Go, Stop, NoJob, Active, Versions, Editions, PCs, Nothing, Own,
        LinkedTo
<1>1. CASE EditSource BY <1>1 DEF EditSource
<1>2. ASSUME NEW r \in Requests, ReadSource(r) PROVE TypeOK'
  BY <1>2 DEF ReadSource
<1>3. ASSUME NEW r \in Requests, FindShare(r) PROVE TypeOK'
  BY <1>3, FindShareDoes DEF FindShareEffect, Jobs
<1>4. ASSUME NEW r \in Requests, SaveShare(r) PROVE TypeOK'
  <2>1. PICK s \in Shares : SaveShareEffect(r, s) BY <1>4, SaveShareDoes
  <2>2. [state |-> "active", version |-> job[r].version, snapshot |-> job[r].edition]
           \in [state : {"none", "active", "revoked"}, version : Versions,
                snapshot : Editions]
    OBVIOUS
  <2>3. share' \in [Shares -> [state : {"none", "active", "revoked"},
                               version : Versions, snapshot : Editions]]
    BY <2>1, <2>2 DEF SaveShareEffect, SaveRow
  <2>4. outdated' \subseteq Requests /\ stale' \subseteq Shares
    BY <2>1 DEF SaveShareEffect, SaveRow, Readers
  <2>5. QED BY <2>1, <2>3, <2>4 DEF SaveShareEffect, SaveRow, Jobs
<1>5. ASSUME NEW r \in Requests, ListCopies(r) PROVE TypeOK'
  BY <1>5, ListCopiesDoes DEF ListCopiesEffect, Jobs
<1>6. ASSUME NEW r \in Requests, PushCopy(r) PROVE TypeOK'
  <2>1. PICK c \in Copies : PushCopyEffect(r, c) BY <1>6, PushCopyDoes
  <2>2. QED BY <2>1 DEF PushCopyEffect, Jobs, Rows
<1>7. ASSUME NEW r \in Requests, FindActiveShare(r) PROVE TypeOK'
  BY <1>7, FindActiveDoes DEF FindActiveEffect, Jobs
<1>8. ASSUME NEW r \in Requests, CopyWorkflowShare(r) PROVE TypeOK'
  BY <1>8 DEF CopyWorkflowShare
<1>9. ASSUME NEW r \in Requests, Interrupt(r) PROVE TypeOK'
  BY <1>9 DEF Interrupt
<1>10. ASSUME NEW s \in Shares, RevokeWorkflowShare(s) PROVE TypeOK'
  <2>1. [share[s] EXCEPT !.state = "revoked"]
           \in [state : {"none", "active", "revoked"}, version : Versions,
                snapshot : Editions]
    OBVIOUS
  <2>2. share' = [share EXCEPT ![s] = [share[s] EXCEPT !.state = "revoked"]]
    BY <1>10 DEF RevokeWorkflowShare
  <2>3. share' \in [Shares -> [state : {"none", "active", "revoked"},
                               version : Versions, snapshot : Editions]]
    BY <2>1, <2>2
  <2>4. outdated' \subseteq Requests BY <1>10 DEF RevokeWorkflowShare, Readers
  <2>5. QED BY <1>10, <2>3, <2>4 DEF RevokeWorkflowShare
<1>11. ASSUME NEW c \in Copies, EditCopy(c) PROVE TypeOK'
  <2>1. [copy[c] EXCEPT !.content = Own] \in Rows BY DEF Rows
  <2>2. copy' = [copy EXCEPT ![c] = [copy[c] EXCEPT !.content = Own]]
    BY <1>11 DEF EditCopy
  <2>3. copy' \in [Copies -> Rows] BY <2>1, <2>2, CopyChanged
  <2>4. QED BY <1>11, <2>3 DEF EditCopy, Rows
<1>12. ASSUME NEW c \in Copies, DeleteCopy(c) PROVE TypeOK'
  <2>1. [NoCopy EXCEPT !.state = "deleted"] \in Rows BY DeletedRow
  <2>2. copy' = [copy EXCEPT ![c] = [NoCopy EXCEPT !.state = "deleted"]]
    BY <1>12 DEF DeleteCopy
  <2>3. copy' \in [Copies -> Rows] BY <2>1, <2>2, CopyChanged
  <2>4. QED BY <1>12, <2>3 DEF DeleteCopy, Rows
<1>13. CASE UNCHANGED vars BY <1>13 DEF vars
<1>14. QED BY <1>1, <1>2, <1>3, <1>4, <1>5, <1>6, <1>7, <1>8, <1>9, <1>10, <1>11, <1>12,
             <1>13 DEF Next, ShareWorkflow

\* Nothing refers to a share that was not saved.
LEMMA ReferencesStep ==
    ASSUME TypeOK, References, [Next]_vars
    PROVE  References'
<1> USE SharingAssumption
    DEF TypeOK, Go, Stop, NoJob, Active, Versions, Editions, PCs, Nothing, Own,
        References, Working, LinkedTo
<1>1. CASE EditSource BY <1>1 DEF EditSource
<1>2. ASSUME NEW r \in Requests, ReadSource(r) PROVE References'
  BY <1>2 DEF ReadSource
<1>3. ASSUME NEW r \in Requests, FindShare(r) PROVE References'
  BY <1>3, FindShareDoes DEF FindShareEffect, Jobs
<1>4. ASSUME NEW r \in Requests, SaveShare(r) PROVE References'
  <2>1. PICK s \in Shares : SaveShareEffect(r, s) BY <1>4, SaveShareDoes
  <2>2. QED BY <2>1 DEF SaveShareEffect, Jobs, SaveRow
<1>5. ASSUME NEW r \in Requests, ListCopies(r) PROVE References'
  BY <1>5, ListCopiesDoes DEF ListCopiesEffect, Jobs
<1>6. ASSUME NEW r \in Requests, PushCopy(r) PROVE References'
  <2>1. PICK c \in Copies : PushCopyEffect(r, c) BY <1>6, PushCopyDoes
  <2>2. /\ share' = share
        /\ \A d \in Copies : copy'[d].state = copy[d].state /\ copy'[d].of = copy[d].of
    BY <2>1 DEF PushCopyEffect
  <2>3. \A q \in Requests :
           \/ pc'[q] = pc[q] /\ job'[q].target = job[q].target
           \/ pc'[q] = "idle"
    BY <2>1 DEF PushCopyEffect
  <2>4. QED BY <2>2, <2>3
<1>7. ASSUME NEW r \in Requests, FindActiveShare(r) PROVE References'
  BY <1>7, FindActiveDoes DEF FindActiveEffect, Jobs
<1>8. ASSUME NEW r \in Requests, CopyWorkflowShare(r) PROVE References'
  BY <1>8 DEF CopyWorkflowShare
<1>9. ASSUME NEW r \in Requests, Interrupt(r) PROVE References'
  BY <1>9 DEF Interrupt
<1>10. ASSUME NEW s \in Shares, RevokeWorkflowShare(s) PROVE References'
  BY <1>10 DEF RevokeWorkflowShare
<1>11. ASSUME NEW c \in Copies, EditCopy(c) PROVE References'
  BY <1>11 DEF EditCopy
<1>12. ASSUME NEW c \in Copies, DeleteCopy(c) PROVE References'
  BY <1>12 DEF DeleteCopy, NoCopy
<1>13. CASE UNCHANGED vars BY <1>13 DEF vars
<1>14. QED BY <1>1, <1>2, <1>3, <1>4, <1>5, <1>6, <1>7, <1>8, <1>9, <1>10, <1>11, <1>12,
             <1>13 DEF Next, ShareWorkflow

\* A request that nobody overtook knows the share.
LEMMA KnowledgeStep ==
    ASSUME TypeOK, References, Knowledge, [Next]_vars
    PROVE  Knowledge'
<1> USE SharingAssumption
    DEF TypeOK, Go, Stop, NoJob, Active, Versions, Editions, PCs, Nothing, Own,
        Knowledge, References, Working, Readers
<1>1. CASE EditSource BY <1>1 DEF EditSource
<1>2. ASSUME NEW r \in Requests, ReadSource(r) PROVE Knowledge'
  BY <1>2 DEF ReadSource
<1>3. ASSUME NEW r \in Requests, FindShare(r) PROVE Knowledge'
  BY <1>3, FindShareDoes DEF FindShareEffect, Jobs
<1>4. ASSUME NEW r \in Requests, SaveShare(r) PROVE Knowledge'
  <2>1. PICK s \in Shares : SaveShareEffect(r, s) BY <1>4, SaveShareDoes
  <2>2. QED BY <2>1 DEF SaveShareEffect, Jobs, SaveRow
<1>5. ASSUME NEW r \in Requests, ListCopies(r) PROVE Knowledge'
  BY <1>5, ListCopiesDoes DEF ListCopiesEffect, Jobs
<1>6. ASSUME NEW r \in Requests, PushCopy(r) PROVE Knowledge'
  <2>1. PICK c \in Copies : PushCopyEffect(r, c) BY <1>6, PushCopyDoes
  <2>2. QED BY <2>1 DEF PushCopyEffect, Jobs, Rows
<1>7. ASSUME NEW r \in Requests, FindActiveShare(r) PROVE Knowledge'
  BY <1>7, FindActiveDoes DEF FindActiveEffect, Jobs
<1>8. ASSUME NEW r \in Requests, CopyWorkflowShare(r) PROVE Knowledge'
  BY <1>8 DEF CopyWorkflowShare
<1>9. ASSUME NEW r \in Requests, Interrupt(r) PROVE Knowledge'
  BY <1>9 DEF Interrupt
<1>10. ASSUME NEW s \in Shares, RevokeWorkflowShare(s) PROVE Knowledge'
  BY <1>10 DEF RevokeWorkflowShare
<1>11. ASSUME NEW c \in Copies, EditCopy(c) PROVE Knowledge'
  BY <1>11 DEF EditCopy
<1>12. ASSUME NEW c \in Copies, DeleteCopy(c) PROVE Knowledge'
  BY <1>12 DEF DeleteCopy, NoCopy
<1>13. CASE UNCHANGED vars BY <1>13 DEF vars
<1>14. QED BY <1>1, <1>2, <1>3, <1>4, <1>5, <1>6, <1>7, <1>8, <1>9, <1>10, <1>11, <1>12,
             <1>13 DEF Next, ShareWorkflow

\* Queues keep to the copies of their share.
LEMMA QueuesStep ==
    ASSUME TypeOK, References, Queues, [Next]_vars
    PROVE  Queues'
<1> USE SharingAssumption
    DEF TypeOK, Go, Stop, NoJob, Active, Versions, Editions, PCs, Nothing, Own,
        Queues, References, Working, LinkedTo
<1>1. CASE EditSource BY <1>1 DEF EditSource
<1>2. ASSUME NEW r \in Requests, ReadSource(r) PROVE Queues'
  BY <1>2 DEF ReadSource
<1>3. ASSUME NEW r \in Requests, FindShare(r) PROVE Queues'
  BY <1>3, FindShareDoes DEF FindShareEffect, Jobs
<1>4. ASSUME NEW r \in Requests, SaveShare(r) PROVE Queues'
  <2>1. PICK s \in Shares : SaveShareEffect(r, s) BY <1>4, SaveShareDoes
  <2>2. QED BY <2>1 DEF SaveShareEffect, Jobs, SaveRow
<1>5. ASSUME NEW r \in Requests, ListCopies(r) PROVE Queues'
  BY <1>5, ListCopiesDoes DEF ListCopiesEffect, Jobs
<1>6. ASSUME NEW r \in Requests, PushCopy(r) PROVE Queues'
  <2>1. PICK c \in Copies : PushCopyEffect(r, c) BY <1>6, PushCopyDoes
  <2>2. QED BY <2>1 DEF PushCopyEffect, Jobs, Rows
<1>7. ASSUME NEW r \in Requests, FindActiveShare(r) PROVE Queues'
  BY <1>7, FindActiveDoes DEF FindActiveEffect, Jobs
<1>8. ASSUME NEW r \in Requests, CopyWorkflowShare(r) PROVE Queues'
  BY <1>8 DEF CopyWorkflowShare
<1>9. ASSUME NEW r \in Requests, Interrupt(r) PROVE Queues'
  BY <1>9 DEF Interrupt
<1>10. ASSUME NEW s \in Shares, RevokeWorkflowShare(s) PROVE Queues'
  BY <1>10 DEF RevokeWorkflowShare
<1>11. ASSUME NEW c \in Copies, EditCopy(c) PROVE Queues'
  BY <1>11 DEF EditCopy
<1>12. ASSUME NEW c \in Copies, DeleteCopy(c) PROVE Queues'
  BY <1>12 DEF DeleteCopy, NoCopy
<1>13. CASE UNCHANGED vars BY <1>13 DEF vars
<1>14. QED BY <1>1, <1>2, <1>3, <1>4, <1>5, <1>6, <1>7, <1>8, <1>9, <1>10, <1>11, <1>12,
             <1>13 DEF Next, ShareWorkflow

\* No version is ahead of its share's.
LEMMA OrderedStep ==
    ASSUME TypeOK, References, Knowledge, Queues, Ordered, [Next]_vars
    PROVE  Ordered'
<1> USE SharingAssumption
    DEF TypeOK, Go, Stop, NoJob, Active, Versions, Editions, PCs, Nothing, Own,
        Ordered, Queues, Knowledge, References, Working, LinkedTo
<1>1. CASE EditSource BY <1>1 DEF EditSource
<1>2. ASSUME NEW r \in Requests, ReadSource(r) PROVE Ordered'
  BY <1>2 DEF ReadSource
<1>3. ASSUME NEW r \in Requests, FindShare(r) PROVE Ordered'
  <2>1. /\ UNCHANGED <<share, copy, stale>> /\ pc'[r] = "save"
        /\ \A q \in Requests \ {r} : pc'[q] = pc[q] /\ job'[q] = job[q]
    BY <1>3, FindShareDoes DEF FindShareEffect
  <2>2. \A q \in Requests : Working(q)' => Working(q) /\ job'[q] = job[q] BY <2>1
  <2>3. QED BY <2>1, <2>2
<1>4. ASSUME NEW r \in Requests, SaveShare(r) PROVE Ordered'
  <2>1. PICK s \in Shares : SaveShareEffect(r, s) BY <1>4, SaveShareDoes
  <2>2. QED BY <2>1 DEF SaveShareEffect, Jobs, SaveRow
<1>5. ASSUME NEW r \in Requests, ListCopies(r) PROVE Ordered'
  BY <1>5, ListCopiesDoes DEF ListCopiesEffect, Jobs
<1>6. ASSUME NEW r \in Requests, PushCopy(r) PROVE Ordered'
  <2>1. PICK c \in Copies : PushCopyEffect(r, c) BY <1>6, PushCopyDoes
  <2>2. UNCHANGED <<share, stale>> BY <2>1 DEF PushCopyEffect
  <2>3. \A q \in Requests : Working(q)' =>
           Working(q) /\ job'[q].target = job[q].target /\ job'[q].version = job[q].version
    BY <2>1 DEF PushCopyEffect
  <2>4. \A d \in Copies : copy'[d].state = "live" =>
           /\ copy[d].state = "live" /\ copy'[d].of = copy[d].of
           /\ \/ copy'[d].version = copy[d].version
              \/ copy[d].of = job[r].target /\ copy'[d].version = job[r].version
    BY <2>1 DEF PushCopyEffect
  <2>5. pc[r] = "pushing" BY <2>1 DEF PushCopyEffect
  <2>6. ASSUME NEW s \in Shares, s \notin stale, NEW d \in Copies,
               copy'[d].state = "live", copy'[d].of = s
        PROVE  copy'[d].version <= share[s].version
    BY <2>4, <2>5, <2>6
  <2>7. QED BY <2>2, <2>3, <2>6
<1>7. ASSUME NEW r \in Requests, FindActiveShare(r) PROVE Ordered'
  BY <1>7, FindActiveDoes DEF FindActiveEffect, Jobs
<1>8. ASSUME NEW r \in Requests, CopyWorkflowShare(r) PROVE Ordered'
  BY <1>8 DEF CopyWorkflowShare
<1>9. ASSUME NEW r \in Requests, Interrupt(r) PROVE Ordered'
  BY <1>9 DEF Interrupt
<1>10. ASSUME NEW s \in Shares, RevokeWorkflowShare(s) PROVE Ordered'
  BY <1>10 DEF RevokeWorkflowShare
<1>11. ASSUME NEW c \in Copies, EditCopy(c) PROVE Ordered'
  BY <1>11 DEF EditCopy
<1>12. ASSUME NEW c \in Copies, DeleteCopy(c) PROVE Ordered'
  BY <1>12 DEF DeleteCopy, NoCopy
<1>13. CASE UNCHANGED vars BY <1>13 DEF vars
<1>14. QED BY <1>1, <1>2, <1>3, <1>4, <1>5, <1>6, <1>7, <1>8, <1>9, <1>10, <1>11, <1>12,
             <1>13 DEF Next, ShareWorkflow

\* At most one share is active.
LEMMA OneActiveStep ==
    ASSUME TypeOK, Knowledge, OneActiveShare, [Next]_vars
    PROVE  OneActiveShare'
<1> USE SharingAssumption
    DEF TypeOK, Go, Stop, NoJob, Active, Versions, Editions, PCs, Nothing, Own,
        OneActiveShare, Knowledge
<1>1. CASE EditSource BY <1>1 DEF EditSource
<1>2. ASSUME NEW r \in Requests, ReadSource(r) PROVE OneActiveShare'
  BY <1>2 DEF ReadSource
<1>3. ASSUME NEW r \in Requests, FindShare(r) PROVE OneActiveShare'
  BY <1>3, FindShareDoes DEF FindShareEffect, Jobs
<1>4. ASSUME NEW r \in Requests, SaveShare(r) PROVE OneActiveShare'
  <2>1. PICK s \in Shares : SaveShareEffect(r, s) BY <1>4, SaveShareDoes
  <2>2. QED BY <2>1 DEF SaveShareEffect, Jobs, SaveRow
<1>5. ASSUME NEW r \in Requests, ListCopies(r) PROVE OneActiveShare'
  BY <1>5, ListCopiesDoes DEF ListCopiesEffect, Jobs
<1>6. ASSUME NEW r \in Requests, PushCopy(r) PROVE OneActiveShare'
  <2>1. PICK c \in Copies : PushCopyEffect(r, c) BY <1>6, PushCopyDoes
  <2>2. QED BY <2>1 DEF PushCopyEffect, Jobs, Rows
<1>7. ASSUME NEW r \in Requests, FindActiveShare(r) PROVE OneActiveShare'
  BY <1>7, FindActiveDoes DEF FindActiveEffect, Jobs
<1>8. ASSUME NEW r \in Requests, CopyWorkflowShare(r) PROVE OneActiveShare'
  BY <1>8 DEF CopyWorkflowShare
<1>9. ASSUME NEW r \in Requests, Interrupt(r) PROVE OneActiveShare'
  BY <1>9 DEF Interrupt
<1>10. ASSUME NEW s \in Shares, RevokeWorkflowShare(s) PROVE OneActiveShare'
  BY <1>10 DEF RevokeWorkflowShare
<1>11. ASSUME NEW c \in Copies, EditCopy(c) PROVE OneActiveShare'
  BY <1>11 DEF EditCopy
<1>12. ASSUME NEW c \in Copies, DeleteCopy(c) PROVE OneActiveShare'
  BY <1>12 DEF DeleteCopy, NoCopy
<1>13. CASE UNCHANGED vars BY <1>13 DEF vars
<1>14. QED BY <1>1, <1>2, <1>3, <1>4, <1>5, <1>6, <1>7, <1>8, <1>9, <1>10, <1>11, <1>12,
             <1>13 DEF Next, ShareWorkflow

\* Linked copies follow.
LEMMA FollowStep ==
    ASSUME IInv, [Next]_vars
    PROVE  LinkedCopiesFollow'
<1> USE SharingAssumption
    DEF TypeOK, Go, Stop, NoJob, Active, Versions, Editions, PCs, Nothing, Own, IInv,
        LinkedCopiesFollow, Pushes, Ordered, Queues, Knowledge, References, Working,
        LinkedTo
<1>1. CASE EditSource BY <1>1 DEF EditSource
<1>2. ASSUME NEW r \in Requests, ReadSource(r) PROVE LinkedCopiesFollow'
  BY <1>2 DEF ReadSource
<1>3. ASSUME NEW r \in Requests, FindShare(r) PROVE LinkedCopiesFollow'
  BY <1>3, FindShareDoes DEF FindShareEffect, Jobs
<1>4. ASSUME NEW r \in Requests, SaveShare(r) PROVE LinkedCopiesFollow'
  <2>1. PICK s \in Shares : SaveShareEffect(r, s) BY <1>4, SaveShareDoes
  <2>2. QED BY <2>1 DEF SaveShareEffect, Jobs, SaveRow
<1>5. ASSUME NEW r \in Requests, ListCopies(r) PROVE LinkedCopiesFollow'
  BY <1>5, ListCopiesDoes DEF ListCopiesEffect, Jobs
<1>6. ASSUME NEW r \in Requests, PushCopy(r) PROVE LinkedCopiesFollow'
  <2>1. PICK c \in Copies : PushCopyEffect(r, c) BY <1>6, PushCopyDoes
  <2>2. /\ UNCHANGED <<share, stale>>
        /\ pc[r] = "pushing" /\ c \in job[r].queue
    BY <2>1 DEF PushCopyEffect
  <2>3. \A q \in Requests, s \in Shares, d \in Copies :
           Pushes(q, s, d) => Pushes(q, s, d)' \/ (q = r /\ d = c)
    BY <2>1, <2>2 DEF PushCopyEffect
  <2>4. SUFFICES ASSUME NEW s \in Shares, s \notin stale, NEW d \in Copies,
                        d \in LinkedTo(s)', d \notin behind'
                 PROVE  \/ copy'[d].version = share[s].version
                        \/ \E q \in Requests : Pushes(q, s, d)'
    BY <2>2
  <2>5. d \in LinkedTo(s) BY <2>1, <2>4 DEF PushCopyEffect
  <2> HIDE DEF IInv, TypeOK, References, Knowledge, Queues, Ordered,
           LinkedCopiesFollow, LinkedTo, Pushes
  <2>6. d \notin behind /\ copy[d].version # share[s].version =>
           \E q \in Requests : Pushes(q, s, d)
    BY <2>4, <2>5 DEF IInv, LinkedCopiesFollow
  <2>7. CASE d # c
    <3>1. /\ d \notin behind /\ copy'[d].version = copy[d].version
          /\ \A q \in Requests : Pushes(q, s, d) => Pushes(q, s, d)'
      <4>1. d \notin behind /\ copy'[d].version = copy[d].version
        BY <2>1, <2>4, <2>7 DEF PushCopyEffect, IInv, TypeOK
      <4>2. QED BY <2>3, <2>7, <4>1, Zenon
    <3>2. QED BY <2>6, <3>1
  <2>8. CASE d = c
    <3>1. copy[c].state = "live" /\ copy[c].of = s BY <2>5, <2>8 DEF LinkedTo
    <3>2. job[r].target = s BY <2>2, <3>1 DEF IInv, Queues
    <3>3. copy'[c].version = job[r].version BY <2>1, <3>1 DEF PushCopyEffect
    <3>4. job[r].version <= share[s].version BY <2>2, <2>4, <3>2 DEF IInv, Ordered, Working
    <3>5. CASE job[r].version = share[s].version BY <2>8, <3>3, <3>5
    <3>6. CASE job[r].version # share[s].version
      <4>1. c \notin behind /\ ~(copy[c].version > job[r].version)
        BY <2>1, <2>4, <2>8, <3>1, <3>2, <3>6 DEF PushCopyEffect
      <4>2. copy[c].version # share[s].version
        <5>1. /\ copy[c].version \in Nat /\ job[r].version \in Nat
              /\ share[s].version \in Nat
          BY <2>4, <3>2, SharingAssumption DEF IInv, TypeOK, Versions
        <5>2. QED BY <3>4, <3>6, <4>1, <5>1
      <4>3. PICK q \in Requests : Pushes(q, s, c) BY <2>6, <2>8, <4>1, <4>2
      <4>4. q # r BY <3>6, <4>3 DEF Pushes
      <4>5. Pushes(q, s, c)' BY <2>3, <4>3, <4>4, Zenon
      <4>6. QED BY <2>8, <4>5
    <3>7. QED BY <3>5, <3>6
  <2>9. QED BY <2>7, <2>8
<1>7. ASSUME NEW r \in Requests, FindActiveShare(r) PROVE LinkedCopiesFollow'
  BY <1>7, FindActiveDoes DEF FindActiveEffect, Jobs
<1>8. ASSUME NEW r \in Requests, CopyWorkflowShare(r) PROVE LinkedCopiesFollow'
  BY <1>8 DEF CopyWorkflowShare
<1>9. ASSUME NEW r \in Requests, Interrupt(r) PROVE LinkedCopiesFollow'
  <2>1. /\ UNCHANGED <<share, copy, stale>> /\ behind \subseteq behind'
        /\ \A q \in Requests \ {r} : pc'[q] = pc[q] /\ job'[q] = job[q]
    BY <1>9 DEF Interrupt
  <2>2. /\ pc[r] = "push" => LinkedTo(job[r].target) \subseteq behind'
        /\ pc[r] = "pushing" =>
               {c \in job[r].queue : copy[c].state = "live"} \subseteq behind'
    BY <1>9 DEF Interrupt
  <2>3. SUFFICES ASSUME NEW s \in Shares, s \notin stale, NEW d \in Copies,
                        d \in LinkedTo(s), d \notin behind'
                 PROVE  \/ copy[d].version = share[s].version
                        \/ \E q \in Requests : Pushes(q, s, d)'
    BY <2>1
  <2>4. CASE copy[d].version # share[s].version
    <3>1. PICK q \in Requests : Pushes(q, s, d) BY <2>1, <2>3, <2>4
    <3>2. q # r BY <2>2, <2>3, <3>1
    <3>3. Pushes(q, s, d)' BY <2>1, <3>1, <3>2
    <3>4. QED BY <3>3
  <2>5. QED BY <2>4
<1>10. ASSUME NEW s \in Shares, RevokeWorkflowShare(s) PROVE LinkedCopiesFollow'
  BY <1>10 DEF RevokeWorkflowShare
<1>11. ASSUME NEW c \in Copies, EditCopy(c) PROVE LinkedCopiesFollow'
  BY <1>11 DEF EditCopy
<1>12. ASSUME NEW c \in Copies, DeleteCopy(c) PROVE LinkedCopiesFollow'
  BY <1>12 DEF DeleteCopy, NoCopy
<1>13. CASE UNCHANGED vars BY <1>13 DEF vars
<1>14. QED BY <1>1, <1>2, <1>3, <1>4, <1>5, <1>6, <1>7, <1>8, <1>9, <1>10, <1>11, <1>12,
             <1>13 DEF Next, ShareWorkflow

\* A version names one content.
LEMMA VersionStep ==
    ASSUME IInv, TypeOK', [Next]_vars
    PROVE  VersionNamesContent'
<1> DEFINE Ok(s) == \A x, y \in Circulating(s) : x[1] = y[1] => x[2] = y[2]
           Circulates == \A s \in Shares : Circulating(s)' \subseteq Circulating(s)
<1>0. \A s \in Shares \ stale : Ok(s) BY DEF IInv, VersionNamesContent
<1> HIDE DEF Ok
<1> USE DEF IInv, Go, Stop, NoJob, Active, Working, Nothing, Own
<1>1. CASE /\ stale' = stale
           /\ \A s \in Shares \ stale : Circulating(s)' \subseteq Circulating(s)
  BY <1>0, <1>1 DEF VersionNamesContent, Ok
<1>2. ASSUME NEW r \in Requests, SaveShare(r) PROVE VersionNamesContent'
  <2>1. PICK s \in Shares : SaveShareEffect(r, s) BY <1>2, SaveShareDoes
  <2> DEFINE new == <<job[r].version, job[r].edition>>
  <2>2. /\ \A q \in Requests : Working(q)' =>
               \/ Working(q) /\ job'[q] = job[q]
               \/ q = r /\ job'[r] = job[r] /\ job[r].target = s
        /\ UNCHANGED copy
        /\ \A t \in Shares \ {s} : share'[t] = share[t]
        /\ share'[s].version = job[r].version /\ share'[s].snapshot = job[r].edition
        /\ stale' = IF r \in outdated THEN stale \cup {s} ELSE stale
    BY <2>1 DEF SaveShareEffect, SaveRow, TypeOK
  <2>3. ASSUME NEW t \in Shares, t # s PROVE Circulating(t)' \subseteq Circulating(t)
    BY <2>2, <2>3 DEF Circulating
  <2>4. Circulating(s)' \subseteq Circulating(s) \cup {new} BY <2>2 DEF Circulating
  <2>5. r \notin outdated => /\ job[r].version = share[s].version + 1
                            /\ job[r].version \in Nat /\ share[s].version \in Nat
    BY <2>1, SharingAssumption
       DEF SaveShareEffect, Knowledge, References, TypeOK, Versions
  <2>6. s \notin stale => \A x \in Circulating(s) : x[1] <= share[s].version
    BY <2>5, SharingAssumption DEF Ordered, Circulating, TypeOK, Versions
  <2>7. s \notin stale' => Ok(s)'
    <3> SUFFICES ASSUME s \notin stale', NEW x \in Circulating(s)',
                        NEW y \in Circulating(s)', x[1] = y[1]
                 PROVE  x[2] = y[2]
      BY DEF Ok
    <3>1. r \notin outdated /\ s \notin stale BY <2>2
    <3>2. new[1] = share[s].version + 1 /\ share[s].version \in Nat BY <2>5, <3>1
    <3>3. \A z \in Circulating(s) : z[1] # new[1] BY <2>6, <3>1, <3>2
    <3>4. CASE x \in Circulating(s) /\ y \in Circulating(s) BY <1>0, <3>1, <3>4 DEF Ok
    <3>5. CASE x = new \/ y = new BY <2>4, <3>3, <3>5
    <3>6. QED BY <2>4, <3>4, <3>5
  <2>8. \A t \in Shares \ stale' : Ok(t)' BY <1>0, <2>2, <2>3, <2>7 DEF Ok
  <2>9. QED BY <2>8 DEF Ok, VersionNamesContent
<1>3. ASSUME NEW r \in Requests, FindShare(r) PROVE Circulates
  <2>1. \A q \in Requests : pc'[q] \in {"push", "pushing", "copy"} =>
           pc[q] = pc'[q] /\ job'[q] = job[q]
    BY <1>3, FindShareDoes DEF FindShareEffect
  <2>2. UNCHANGED <<share, copy, stale>> BY <1>3 DEF FindShare
  <2>3. QED BY <2>1, <2>2 DEF Circulating
<1>4. ASSUME NEW r \in Requests, ListCopies(r) PROVE Circulates
  <2>1. \A q \in Requests : pc'[q] \in {"push", "pushing", "copy"} =>
           /\ pc[q] \in {"push", "pushing", "copy"} /\ job'[q].target = job[q].target
           /\ job'[q].version = job[q].version /\ job'[q].edition = job[q].edition
    BY <1>4, ListCopiesDoes DEF ListCopiesEffect
  <2>2. UNCHANGED <<share, copy, stale>> BY <1>4 DEF ListCopies
  <2>3. QED BY <2>1, <2>2 DEF Circulating
<1>5. ASSUME NEW r \in Requests, PushCopy(r) PROVE Circulates
  <2>1. PICK c \in Copies : PushCopyEffect(r, c) BY <1>5, PushCopyDoes
  <2>2. /\ UNCHANGED share
        /\ \A q \in Requests : Working(q)' =>
               /\ Working(q) /\ job'[q].target = job[q].target
               /\ job'[q].version = job[q].version /\ job'[q].edition = job[q].edition
    BY <2>1 DEF PushCopyEffect
  <2>3. \A d \in Copies : copy'[d].state = "live" =>
           /\ copy[d].state = "live" /\ copy'[d].of = copy[d].of
           /\ \/ copy'[d].version = copy[d].version /\ copy'[d].content = copy[d].content
              \/ /\ copy[d].of = job[r].target /\ Working(r)
                 /\ copy'[d].version = job[r].version /\ copy'[d].content = job[r].edition
    BY <2>1 DEF PushCopyEffect, Queues
  <2>4. QED BY <2>2, <2>3 DEF Circulating
<1>6. ASSUME NEW r \in Requests, FindActiveShare(r) PROVE Circulates
  <2>1. /\ UNCHANGED <<share, copy>>
        /\ \A q \in Requests : Working(q)' =>
               \/ Working(q) /\ job'[q] = job[q]
               \/ /\ job'[q].version = share[job'[q].target].version
                  /\ job'[q].edition = share[job'[q].target].snapshot
    BY <1>6, FindActiveDoes DEF FindActiveEffect
  <2>2. QED BY <2>1 DEF Circulating
<1>7. ASSUME NEW r \in Requests, CopyWorkflowShare(r) PROVE Circulates
  <2>1. /\ UNCHANGED share
        /\ \A q \in Requests : Working(q)' => Working(q) /\ job'[q] = job[q]
    BY <1>7 DEF CopyWorkflowShare, TypeOK
  <2>2. \A d \in Copies : copy'[d].state = "live" =>
           \/ copy'[d] = copy[d]
           \/ /\ copy'[d].of = job[r].target /\ Working(r)
              /\ copy'[d].version = job[r].version /\ copy'[d].content = job[r].edition
    BY <1>7 DEF CopyWorkflowShare, TypeOK
  <2>3. QED BY <2>1, <2>2 DEF Circulating
<1>8. ASSUME NEW r \in Requests, ReadSource(r) \/ Interrupt(r) PROVE Circulates
  <2>1. /\ UNCHANGED <<share, copy>>
        /\ \A q \in Requests : Working(q)' => Working(q) /\ job'[q] = job[q]
    BY <1>8 DEF ReadSource, Interrupt, TypeOK
  <2>2. QED BY <2>1 DEF Circulating
<1>9. ASSUME NEW s \in Shares, RevokeWorkflowShare(s) PROVE Circulates
  <2>1. /\ UNCHANGED <<pc, job, copy>>
        /\ \A t \in Shares : /\ share'[t].version = share[t].version
                             /\ share'[t].snapshot = share[t].snapshot
    BY <1>9 DEF RevokeWorkflowShare, TypeOK
  <2>2. QED BY <2>1 DEF Circulating
<1>10. ASSUME NEW c \in Copies, EditCopy(c) \/ DeleteCopy(c) PROVE Circulates
  <2>1. /\ UNCHANGED <<pc, job, share>>
        /\ \A d \in Copies : copy'[d].state = "live" /\ copy'[d].content # Own =>
               copy'[d] = copy[d]
    BY <1>10 DEF EditCopy, DeleteCopy, TypeOK
  <2>2. QED BY <2>1 DEF Circulating
<1>11. CASE EditSource \/ UNCHANGED vars
  BY <1>1, <1>11 DEF EditSource, vars, Circulating
<1>12. ASSUME ~(\E r \in Requests : SaveShare(r)), Next PROVE stale' = stale
  BY <1>12 DEF Next, ShareWorkflow, ReadSource, FindShare, ListCopies, PushCopy,
     FindActiveShare, CopyWorkflowShare, Interrupt, RevokeWorkflowShare, EditSource,
     EditCopy, DeleteCopy
<1>13. QED
  <2>1. CASE \E r \in Requests : SaveShare(r) BY <1>2, <2>1
  <2>2. CASE Circulates /\ ~(\E r \in Requests : SaveShare(r)) /\ Next
    BY <1>1, <1>12, <2>2
  <2> HIDE DEF Circulates
  <2>3. QED BY <1>3, <1>4, <1>5, <1>6, <1>7, <1>8, <1>9, <1>10, <1>11, <2>1, <2>2
            DEF Next, ShareWorkflow

THEOREM Invariant == Spec => []IInv
<1>1. Init => IInv
  BY SharingAssumption DEF Init, IInv, TypeOK, References, Working, Knowledge, Queues,
     Ordered, VersionNamesContent, Circulating, LinkedCopiesFollow, LinkedTo,
     OneActiveShare, Active, NoCopy, NoJob, Editions, Versions, PCs, Own, Nothing
<1>2. IInv /\ [Next]_vars => IInv'
  BY TypeStep, ReferencesStep, KnowledgeStep, QueuesStep, OrderedStep, OneActiveStep,
     FollowStep, VersionStep DEF IInv
<1>3. QED BY <1>1, <1>2, PTL DEF Spec

-----------------------------------------------------------------------------
(* The properties *)

\* Every reachable state is well typed; no version passes its bound.
THEOREM SharingTyped == Spec => []TypeOK
BY Invariant, PTL DEF IInv

\* A linked copy that is not behind is at its share's version or is being
\* brought there.
THEOREM CopiesFollow == Spec => []LinkedCopiesFollow
BY Invariant, PTL DEF IInv

\* Whatever shows the same version of a share shows the same edition.
THEOREM VersionsNameContents == Spec => []VersionNamesContent
BY Invariant, PTL DEF IInv

\* A workflow has one active share, however many requests share it at once.
THEOREM ActiveShareUnique == Spec => []OneActiveShare
BY Invariant, PTL DEF IInv

\* No request reactivates a share whose revocation it could have seen.
THEOREM RevocationsStand == Spec => RevocationStands
<1>1. ASSUME IInv, [Next]_vars
      PROVE  [\A s \in Shares \ stale' :
                  share[s].state = "revoked" => share'[s].state = "revoked"]_vars
  <2>1. SUFFICES ASSUME Next, NEW s \in Shares, s \notin stale',
                        share[s].state = "revoked"
                 PROVE  share'[s].state = "revoked"
    BY <1>1 DEF vars
  <2>2. CASE \E r \in Requests : SaveShare(r)
    <3>1. PICK r \in Requests : SaveShare(r) BY <2>2
    <3>2. TypeOK /\ References /\ Knowledge BY <1>1 DEF IInv
    <3>3. PICK t \in Shares : SaveShareEffect(r, t) BY <3>1, <3>2, SaveShareDoes
    <3>4. CASE t # s
      <4>1. share' = [share EXCEPT ![t] = [state |-> "active", version |-> job[r].version,
                                           snapshot |-> job[r].edition]]
        BY <3>3 DEF SaveShareEffect, SaveRow
      <4>2. share'[s] = share[s] BY <3>2, <3>4, <4>1 DEF TypeOK
      <4>3. QED BY <2>1, <4>2
    <3>5. CASE t = s
      <4>1. r \notin outdated /\ pc[r] = "save" /\ job[r].target = s
        BY <2>1, <3>3, <3>5 DEF SaveShareEffect, SaveRow
      <4>2. Active(s) BY <3>2, <4>1, SharingAssumption DEF Knowledge
      <4>3. QED BY <2>1, <4>2 DEF Active
    <3>6. QED BY <3>4, <3>5
  <2>3. CASE \E t \in Shares : RevokeWorkflowShare(t)
    BY <1>1, <2>1, <2>3 DEF RevokeWorkflowShare, IInv, TypeOK
  <2>4. CASE UNCHANGED share BY <2>1, <2>4
  <2>5. QED BY <2>1, <2>2, <2>3, <2>4 DEF Next, ShareWorkflow, EditSource, ReadSource,
            FindShare, ListCopies, PushCopy, FindActiveShare, CopyWorkflowShare,
            Interrupt, EditCopy, DeleteCopy
<1>2. QED BY <1>1, Invariant, PTL DEF Spec, RevocationStands
=============================================================================
