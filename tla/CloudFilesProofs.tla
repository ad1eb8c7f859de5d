--------------------------- MODULE CloudFilesProofs ---------------------------
(* Proofs about CloudFiles: types, the files that stay, the reasons to go.  *)
EXTENDS CloudFilesInvariant, TLAPS

Jobs == [op : Purges \cup {Nothing}, target : Workflows \cup Histories \cup {Nothing},
         files : SUBSET Files, media : SUBSET Files, at : Files \cup {Nothing},
         expires : Times \cup {Never}, queue : SUBSET Histories]
Rows == [state : {"none", "live", "deleted"}, workflow : Workflows \cup {Nothing},
         history : Histories \cup {Nothing}, expires : Times \cup {Never}]

LEMMA JobColumns ==
    ASSUME NEW j \in Jobs
    PROVE  /\ j.op \in Purges \cup {Nothing}
           /\ j.target \in Workflows \cup Histories \cup {Nothing}
           /\ j.files \in SUBSET Files /\ j.media \in SUBSET Files
           /\ j.at \in Files \cup {Nothing} /\ j.expires \in Times \cup {Never}
           /\ j.queue \in SUBSET Histories
  BY DEF Jobs

LEMMA NoJobTyped == NoJob \in Jobs
  BY DEF NoJob, Jobs

\* What one step of process p does to the processes.
LEMMA GoFrame ==
    ASSUME TypeOK, NEW p \in Processes, NEW n \in PCs, NEW j \in Jobs, Go(p, n, j)
    PROVE  /\ pc' \in [Processes -> PCs] /\ job' \in [Processes -> Jobs]
           /\ pc'[p] = n /\ job'[p] = j
           /\ \A q \in Processes \ {p} : pc'[q] = pc[q] /\ job'[q] = job[q]
  BY DEF TypeOK, Go, Jobs

LEMMA StopFrame ==
    ASSUME TypeOK, NEW p \in Processes, Stop(p)
    PROVE  /\ pc' \in [Processes -> PCs] /\ job' \in [Processes -> Jobs]
           /\ pc'[p] \in {"idle", "done"} /\ job'[p] = NoJob
           /\ \A q \in Processes \ {p} : pc'[q] = pc[q] /\ job'[q] = job[q]
  BY NoJobTyped, GoFrame DEF Stop, PCs

LEMMA FinishFrame ==
    ASSUME TypeOK, NEW p \in Processes, NEW j \in Jobs, Finish(p, j)
    PROVE  /\ pc' \in [Processes -> PCs] /\ job' \in [Processes -> Jobs]
           /\ \A q \in Processes \ {p} : pc'[q] = pc[q] /\ job'[q] = job[q]
           /\ \/ pc'[p] \in {"idle", "done"} /\ job'[p] = NoJob
              \/ /\ pc'[p] = "forget" /\ j.op \in OwnsHistory
                 /\ job'[p] = [j EXCEPT !.files = {}, !.at = Nothing]
  <1>1. [j EXCEPT !.files = {}, !.at = Nothing] \in Jobs
    BY DEF Jobs
  <1>2. CASE j.op \in OwnsHistory
    <2>1. Go(p, "forget", [j EXCEPT !.files = {}, !.at = Nothing])
      BY <1>2 DEF Finish, After, OwnsHistory
    <2> QED
      BY <1>1, <1>2, <2>1, GoFrame DEF PCs
  <1>3. CASE j.op \notin OwnsHistory
    <2>1. Stop(p)
      BY <1>3 DEF Finish, After, OwnsHistory
    <2> QED
      BY <2>1, StopFrame
  <1> QED
    BY <1>2, <1>3

LEMMA ContinueFrame ==
    ASSUME TypeOK, NEW p \in Processes, NEW j \in Jobs, Continue(p, j)
    PROVE  /\ pc' \in [Processes -> PCs] /\ job' \in [Processes -> Jobs]
           /\ \A q \in Processes \ {p} : pc'[q] = pc[q] /\ job'[q] = job[q]
           /\ \/ pc'[p] \in {"idle", "done"} /\ job'[p] = NoJob
              \/ /\ pc'[p] = "forget" /\ j.op \in OwnsHistory
                 /\ job'[p] = [j EXCEPT !.files = {}, !.at = Nothing]
              \/ pc'[p] = "purge" /\ job'[p] = [j EXCEPT !.at = Nothing]
  <1>1. [j EXCEPT !.at = Nothing] \in Jobs
    BY DEF Jobs
  <1>2. CASE j.files # {}
    <2>1. Go(p, "purge", [j EXCEPT !.at = Nothing])
      BY <1>2 DEF Continue
    <2> QED
      BY <1>1, <2>1, GoFrame DEF PCs
  <1>3. CASE j.files = {}
    BY <1>3, FinishFrame DEF Continue
  <1> QED
    BY <1>2, <1>3

LEMMA BindTyped ==
    ASSUME TypeOK, NEW S, NEW w \in Workflows \cup {Nothing},
           NEW h \in Histories \cup {Nothing}, NEW t \in Times \cup {Never},
           Bind(S, w, h, t)
    PROVE  file' \in [Files -> Rows]
  BY DEF TypeOK, Bind, Rows

LEMMA DisturbedTyped ==
    ASSUME NEW S \in SUBSET Files, NEW w
    PROVE  Disturbed(S, w) \subseteq Files \X Kinds
  BY DEF Disturbed, Marks, Kinds

LEMMA TypeInit == Init => TypeOK
  BY CloudFilesAssumption DEF Init, TypeOK, NoFile, NoHistory, NoJob, PCs, Times

\* The steps that write a row of cloud_files or an object
LEMMA FileSteps ==
    ASSUME Next
    PROVE  \/ UNCHANGED <<file, objects>>
           \/ \E f \in Files : StoreUserFile(f)
           \/ \E w \in Workflows : CreateWorkflow(w)
           \/ \E r \in Requests : BindWorkflowCloudFiles(r)
           \/ \E r \in Requests : BindCloudFiles(r)
           \/ \E p \in Processes : DeleteStoredFile(p)
           \/ \E p \in Processes : MarkCloudFileDeleted(p)
  BY DEF Next, Begin, Resume, Purge, Sweep, 
         UpdateWorkflow, DeleteWorkflow, ReadMedia, SaveGenerationHistory,
         DeleteHistory, PruneHistory, ListFiles, DeleteGenerationHistory,
         Wake, NextHistory, ListExpiredCloudFiles, FailDelete, Interrupt,
         Tick

\* The steps that write a workflow
LEMMA WorkflowSteps ==
    ASSUME Next
    PROVE  \/ UNCHANGED workflow
           \/ \E w \in Workflows : CreateWorkflow(w)
           \/ \E r \in Requests, w \in Workflows : UpdateWorkflow(r, w)
           \/ \E r \in Requests, w \in Workflows : DeleteWorkflow(r, w)
  BY DEF Next, Begin, Resume, Purge, Sweep, 
         StoreUserFile, BindWorkflowCloudFiles, ReadMedia,
         SaveGenerationHistory, BindCloudFiles, DeleteHistory, PruneHistory,
         ListFiles, DeleteStoredFile, MarkCloudFileDeleted,
         DeleteGenerationHistory, Wake, NextHistory, ListExpiredCloudFiles,
         FailDelete, Interrupt, Tick

\* The steps that write a history
LEMMA HistorySteps ==
    ASSUME Next
    PROVE  \/ UNCHANGED history
           \/ \E r \in Requests : SaveGenerationHistory(r)
           \/ \E p \in Processes : DeleteGenerationHistory(p)
  BY DEF Next, Begin, Resume, Purge, Sweep, 
         StoreUserFile, CreateWorkflow, UpdateWorkflow,
         BindWorkflowCloudFiles, DeleteWorkflow, ReadMedia, BindCloudFiles,
         DeleteHistory, PruneHistory, ListFiles, DeleteStoredFile,
         MarkCloudFileDeleted, Wake, NextHistory, ListExpiredCloudFiles,
         FailDelete, Interrupt, Tick

LEMMA RowsTyped ==
    ASSUME TypeOK, JobsFit, Next
    PROVE  file' \in [Files -> Rows] /\ objects' \in SUBSET Files
  <1> USE CloudFilesAssumption DEF Processes
  <1> DEFINE Goal == file' \in [Files -> Rows] /\ objects' \in SUBSET Files
  <1>1. ASSUME NEW f \in Files, StoreUserFile(f) PROVE Goal
    BY <1>1 DEF StoreUserFile, TypeOK, Rows, Times
  <1>2. ASSUME NEW w \in Workflows, CreateWorkflow(w) PROVE Goal
    BY <1>2, BindTyped DEF CreateWorkflow, TypeOK
  <1>3. ASSUME NEW r \in Requests, BindWorkflowCloudFiles(r) PROVE Goal
    BY <1>3, BindTyped DEF BindWorkflowCloudFiles, TypeOK, JobsFit, JobFits
  <1>4. ASSUME NEW r \in Requests, BindCloudFiles(r) PROVE Goal
    BY <1>4, BindTyped DEF BindCloudFiles, TypeOK, JobsFit, JobFits
  <1>5. ASSUME NEW p \in Processes, DeleteStoredFile(p) PROVE Goal
    BY <1>5 DEF DeleteStoredFile, TypeOK, Rows
  <1>6. ASSUME NEW p \in Processes, MarkCloudFileDeleted(p) PROVE Goal
    <2>1. job[p].at \in Files
      BY <1>6 DEF MarkCloudFileDeleted, JobsFit, JobFits
    <2>2. file \in [Files -> Rows] /\ objects \in SUBSET Files
      BY DEF TypeOK, Rows
    <2>3. [file[job[p].at] EXCEPT !.state = "deleted"] \in Rows
      BY <2>1, <2>2 DEF Rows
    <2> QED
      BY <1>6, <2>1, <2>2, <2>3 DEF MarkCloudFileDeleted
  <1>7. CASE UNCHANGED <<file, objects>>
    BY <1>7 DEF TypeOK, Rows
  <1> QED
    BY <1>1, <1>2, <1>3, <1>4, <1>5, <1>6, <1>7, FileSteps

LEMMA WorkflowsTyped ==
    ASSUME TypeOK, Next
    PROVE  workflow' \in [Workflows -> [state : {"none", "live", "deleted"},
                                        cites : SUBSET Files]]
  <1> DEFINE Typed == workflow' \in [Workflows -> [state : {"none", "live", "deleted"},
                                                   cites : SUBSET Files]]
  <1>1. ASSUME NEW w \in Workflows, CreateWorkflow(w) PROVE Typed
    BY <1>1 DEF TypeOK, CreateWorkflow, Citable
  <1>2. ASSUME NEW r \in Requests, NEW w \in Workflows, UpdateWorkflow(r, w) PROVE Typed
    BY <1>2 DEF TypeOK, UpdateWorkflow, Citable
  <1>3. ASSUME NEW r \in Requests, NEW w \in Workflows, DeleteWorkflow(r, w) PROVE Typed
    BY <1>3 DEF TypeOK, DeleteWorkflow
  <1> QED
    BY <1>1, <1>2, <1>3, WorkflowSteps DEF TypeOK

LEMMA HistoriesTyped ==
    ASSUME TypeOK, JobsFit, Next
    PROVE  history' \in [Histories -> [state : {"none", "live", "deleted"},
                                       media : SUBSET Files, expires : Times \cup {Never}]]
  <1>1. ASSUME NEW r \in Requests, SaveGenerationHistory(r)
        PROVE  history' \in [Histories -> [state : {"none", "live", "deleted"},
                                media : SUBSET Files, expires : Times \cup {Never}]]
    <2>1. job[r].media \in SUBSET Files /\ job[r].expires \in Times \cup {Never}
      BY DEF TypeOK, Processes
    <2> QED
      BY <1>1, <2>1 DEF TypeOK, SaveGenerationHistory
  <1>2. ASSUME NEW p \in Processes, DeleteGenerationHistory(p)
        PROVE  history' \in [Histories -> [state : {"none", "live", "deleted"},
                                media : SUBSET Files, expires : Times \cup {Never}]]
    <2>1. job[p].target \in Histories
      BY <1>2 DEF DeleteGenerationHistory, JobsFit, JobFits
    <2> QED
      BY <1>2, <2>1 DEF TypeOK, DeleteGenerationHistory
  <1> QED
    BY <1>1, <1>2, HistorySteps DEF TypeOK

LEMMA ProcessesTyped ==
    ASSUME TypeOK, JobsFit, Next
    PROVE  pc' \in [Processes -> PCs] /\ job' \in [Processes -> Jobs]
  <1> USE CloudFilesAssumption
  <1> DEFINE Goal == pc' \in [Processes -> PCs] /\ job' \in [Processes -> Jobs]
  <1> SUFFICES Goal
    OBVIOUS
  <1>0. /\ pc \in [Processes -> PCs] /\ job \in [Processes -> Jobs]
        /\ Requests \subseteq Processes /\ Sweeper \in Processes
    BY DEF TypeOK, Jobs, Processes
  <1>1. ASSUME NEW r \in Requests, NEW w \in Workflows, UpdateWorkflow(r, w) PROVE Goal
    <2>1. PICK S \in SUBSET Citable : Go(r, "bind", [NoJob EXCEPT !.target = w, !.files = S])
      BY <1>1 DEF UpdateWorkflow
    <2>2. [NoJob EXCEPT !.target = w, !.files = S] \in Jobs
      BY DEF NoJob, Jobs, Citable
    <2> QED
      BY <1>0, <2>1, <2>2, GoFrame DEF PCs
  <1>2. ASSUME NEW r \in Requests, NEW w \in Workflows, DeleteWorkflow(r, w) PROVE Goal
    <2>1. [NoJob EXCEPT !.op = "workflow", !.target = w] \in Jobs
      BY DEF NoJob, Jobs, Purges
    <2> QED
      BY <1>0, <1>2, <2>1, GoFrame DEF PCs, DeleteWorkflow
  <1>3. ASSUME NEW r \in Requests, NEW h \in Histories, ReadMedia(r, h) PROVE Goal
    <2>0. PICK media \in SUBSET Showable(Files) \ {{}}, references \in SUBSET Citable :
              \E expires \in Earliest(media) :
                  Go(r, "insert", [NoJob EXCEPT !.target = h, !.media = media,
                                                !.files = media \cup references,
                                                !.expires = expires])
      BY <1>3 DEF ReadMedia
    <2>1. PICK expires \in Earliest(media) :
              Go(r, "insert", [NoJob EXCEPT !.target = h, !.media = media,
                                            !.files = media \cup references,
                                            !.expires = expires])
      BY <2>0
    <2>2. expires \in Times \cup {Never} /\ media \in SUBSET Files /\ references \in SUBSET Files
      BY DEF Earliest, Showable, TypeOK, Citable
    <2>3. [NoJob EXCEPT !.target = h, !.media = media, !.files = media \cup references,
                        !.expires = expires] \in Jobs
      BY <2>2 DEF NoJob, Jobs
    <2> QED
      BY <1>0, <2>1, <2>3, GoFrame DEF PCs
  <1>4. ASSUME NEW r \in Requests, SaveGenerationHistory(r) PROVE Goal
    BY <1>0, <1>4, GoFrame DEF PCs, SaveGenerationHistory
  <1>5. ASSUME NEW r \in Requests, NEW h \in Histories, DeleteHistory(r, h) PROVE Goal
    <2>1. [NoJob EXCEPT !.op = "history", !.target = h] \in Jobs
      BY DEF NoJob, Jobs, Purges
    <2> QED
      BY <1>0, <1>5, <2>1, GoFrame DEF PCs, DeleteHistory
  <1>6. ASSUME NEW r \in Requests, NEW h \in Histories, PruneHistory(r, h) PROVE Goal
    <2>1. [NoJob EXCEPT !.op = "prune", !.target = h] \in Jobs
      BY DEF NoJob, Jobs, Purges
    <2> QED
      BY <1>0, <1>6, <2>1, GoFrame DEF PCs, PruneHistory
  <1>7. ASSUME NEW p \in Processes, ListFiles(p) PROVE Goal
    <2> DEFINE S == {f \in Files : Live(f) /\ IF job[p].op = "workflow"
                                              THEN file[f].workflow = job[p].target
                                              ELSE file[f].history = job[p].target}
    <2>1. [job[p] EXCEPT !.files = S] \in Jobs
      BY <1>0 DEF Jobs
    <2>2. Continue(p, [job[p] EXCEPT !.files = S])
      BY <1>7 DEF ListFiles
    <2> QED
      BY <2>1, <2>2, ContinueFrame
  <1>8. ASSUME NEW p \in Processes, DeleteStoredFile(p) PROVE Goal
    <2>1. PICK f \in job[p].files : Go(p, "mark", [job[p] EXCEPT !.files = @ \ {f}, !.at = f])
      BY <1>8 DEF DeleteStoredFile
    <2>2. [job[p] EXCEPT !.files = @ \ {f}, !.at = f] \in Jobs
      BY <1>0 DEF Jobs
    <2> QED
      BY <2>1, <2>2, GoFrame DEF PCs
  <1>9. ASSUME NEW p \in Processes, MarkCloudFileDeleted(p) PROVE Goal
    BY <1>0, <1>9, ContinueFrame DEF MarkCloudFileDeleted
  <1>10. ASSUME NEW p \in Processes, DeleteGenerationHistory(p) PROVE Goal
    <2>1. [job[p] EXCEPT !.target = Nothing] \in Jobs
      BY <1>0 DEF Jobs
    <2> QED
      BY <1>10, <2>1, GoFrame, StopFrame DEF DeleteGenerationHistory, PCs
  <1>11. ASSUME Wake PROVE Goal
    <2>1. PICK Q \in SUBSET Histories :
              Go(Sweeper, "batch", [NoJob EXCEPT !.op = "cleanup", !.queue = Q])
      BY <1>11 DEF Wake, Oldest
    <2>2. [NoJob EXCEPT !.op = "cleanup", !.queue = Q] \in Jobs
      BY DEF NoJob, Jobs, Purges
    <2> QED
      BY <1>0, <2>1, <2>2, GoFrame DEF PCs
  <1>12. ASSUME NextHistory PROVE Goal
    <2>1. PICK h \in job[Sweeper].queue :
              Go(Sweeper, "list", [job[Sweeper] EXCEPT !.target = h, !.queue = @ \ {h}])
      BY <1>12 DEF NextHistory
    <2>2. [job[Sweeper] EXCEPT !.target = h, !.queue = @ \ {h}] \in Jobs
      BY <1>0 DEF Jobs
    <2> QED
      BY <1>0, <2>1, <2>2, GoFrame DEF PCs
  <1>13. ASSUME ListExpiredCloudFiles PROVE Goal
    <2>1. PICK S \in SUBSET Files :
              Continue(Sweeper, [NoJob EXCEPT !.op = "sweep", !.files = S])
      BY <1>13 DEF ListExpiredCloudFiles, Oldest
    <2>2. [NoJob EXCEPT !.op = "sweep", !.files = S] \in Jobs
      BY DEF NoJob, Jobs, Purges
    <2> QED
      BY <1>0, <2>1, <2>2, ContinueFrame
  <1>14. ASSUME NEW p \in Processes, FailDelete(p) PROVE Goal
    <2>1. /\ [NoJob EXCEPT !.op = "cleanup"] \in Jobs
          /\ \A f \in Files : [job[p] EXCEPT !.files = @ \ {f}] \in Jobs
          /\ job[p].files \subseteq Files
      BY <1>0 DEF NoJob, Jobs, Purges
    <2>2. \/ Continue(p, job[p])
          \/ \E f \in Files : Continue(p, [job[p] EXCEPT !.files = @ \ {f}])
          \/ Finish(p, job[p]) \/ Go(p, "batch", [NoJob EXCEPT !.op = "cleanup"])
          \/ Stop(p)
      BY <1>14, <2>1 DEF FailDelete
    <2> QED
      BY <1>0, <2>1, <2>2, ContinueFrame, FinishFrame, GoFrame, StopFrame DEF PCs
  <1>15. ASSUME NEW p \in Processes, Interrupt(p) PROVE Goal
    BY <1>15, StopFrame DEF Interrupt
  <1>16. ASSUME NEW r \in Requests, BindWorkflowCloudFiles(r) \/ BindCloudFiles(r) PROVE Goal
    BY <1>0, <1>16, StopFrame DEF BindWorkflowCloudFiles, BindCloudFiles
  <1>17. ASSUME NEW w \in Workflows, CreateWorkflow(w) PROVE Goal
    BY <1>0, <1>17 DEF CreateWorkflow
  <1>18. ASSUME NEW f \in Files, StoreUserFile(f) PROVE Goal
    BY <1>0, <1>18 DEF StoreUserFile
  <1>19. ASSUME Tick PROVE Goal
    BY <1>0, <1>19 DEF Tick
  <1> HIDE DEF Goal
  <1>20. ASSUME NEW r \in Requests, Begin(r) \/ Resume(r) PROVE Goal
    BY <1>1, <1>2, <1>3, <1>4, <1>5, <1>6, <1>16, <1>20 DEF Begin, Resume
  <1>21. ASSUME NEW p \in Processes, Purge(p) PROVE Goal
    BY <1>7, <1>8, <1>9, <1>10, <1>21 DEF Purge
  <1> QED
    BY <1>11, <1>12, <1>13, <1>14, <1>15, <1>17, <1>18, <1>19, <1>20, <1>21
    DEF Next, Sweep

\* The steps in which something goes wrong
LEMMA MishapSteps ==
    ASSUME Next
    PROVE  \/ UNCHANGED mishaps
           \/ \E w \in Workflows : CreateWorkflow(w)
           \/ \E r \in Requests : BindWorkflowCloudFiles(r)
           \/ \E r \in Requests : BindCloudFiles(r)
           \/ \E p \in Processes : FailDelete(p)
           \/ \E p \in Processes : Interrupt(p)
  BY DEF Next, Begin, Resume, Purge, Sweep,
         StoreUserFile, UpdateWorkflow, DeleteWorkflow, ReadMedia,
         SaveGenerationHistory, DeleteHistory, PruneHistory, ListFiles,
         DeleteStoredFile, MarkCloudFileDeleted, DeleteGenerationHistory,
         Wake, NextHistory, ListExpiredCloudFiles, Tick

LEMMA CounterSteps ==
    ASSUME TypeOK, Next
    PROVE  /\ clock' \in 0 .. MaxClock /\ failures' \in 0 .. MaxFailures
           /\ clock <= clock'
  <1>1. \/ UNCHANGED <<clock, failures>>
        \/ \E f \in Files : StoreUserFile(f)
        \/ \E p \in Processes : FailDelete(p)
        \/ \E p \in Processes : Interrupt(p)
        \/ \E r \in Requests, h \in Histories : PruneHistory(r, h)
        \/ Tick
    BY DEF Next, Begin, Resume, Purge, Sweep,
           CreateWorkflow, UpdateWorkflow, BindWorkflowCloudFiles,
           DeleteWorkflow, ReadMedia, SaveGenerationHistory, BindCloudFiles,
           DeleteHistory, ListFiles, DeleteStoredFile,
           MarkCloudFileDeleted, DeleteGenerationHistory, Wake, NextHistory,
           ListExpiredCloudFiles
  <1>2. clock \in 0 .. MaxClock /\ failures \in 0 .. MaxFailures
    BY DEF TypeOK
  <1>3. ASSUME NEW f \in Files, StoreUserFile(f)
        PROVE  /\ clock' = clock
               /\ \/ failures' = failures
                  \/ failures' = failures + 1 /\ failures < MaxFailures
    BY <1>3 DEF StoreUserFile
  <1>4. ASSUME NEW p \in Processes, FailDelete(p) \/ Interrupt(p)
        PROVE  clock' = clock /\ failures' = failures + 1 /\ failures < MaxFailures
    BY <1>4 DEF FailDelete, Interrupt
  <1>5. ASSUME Tick
        PROVE  clock' = clock + 1 /\ failures' = failures /\ clock < MaxClock
    BY <1>5 DEF Tick
  <1>6. ASSUME NEW r \in Requests, NEW h \in Histories, PruneHistory(r, h)
        PROVE  /\ clock' = clock
               /\ \/ failures' = failures
                  \/ failures' = failures + 1 /\ failures < MaxFailures
    BY <1>6 DEF PruneHistory
  <1> QED
    BY <1>1, <1>2, <1>3, <1>4, <1>5, <1>6, CloudFilesAssumption

LEMMA MishapsTyped ==
    ASSUME TypeOK, JobsFit, Next
    PROVE  mishaps' \subseteq Files \X Kinds
  <1>0. /\ mishaps \subseteq Files \X Kinds
        /\ \A p \in Processes : job[p].files \in SUBSET Files
        /\ \A p \in Processes : pc[p] = "mark" => job[p].at \in Files
    BY DEF TypeOK, JobsFit, JobFits
  <1>1. ASSUME NEW w \in Workflows, CreateWorkflow(w)
        PROVE  mishaps' \subseteq Files \X Kinds
    BY <1>0, <1>1, DisturbedTyped DEF CreateWorkflow, Citable
  <1>2. ASSUME NEW r \in Requests, BindWorkflowCloudFiles(r) \/ BindCloudFiles(r)
        PROVE  mishaps' \subseteq Files \X Kinds
    <2>1. job[r].files \in SUBSET Files
      BY <1>0 DEF Processes
    <2> QED
      BY <1>0, <1>2, <2>1, DisturbedTyped DEF BindWorkflowCloudFiles, BindCloudFiles
  <1>3. ASSUME NEW p \in Processes, FailDelete(p)
        PROVE  mishaps' \subseteq Files \X Kinds
    BY <1>0, <1>3 DEF FailDelete, Marks, Kinds
  <1>4. ASSUME NEW p \in Processes, Interrupt(p)
        PROVE  mishaps' \subseteq Files \X Kinds
    BY <1>0, <1>4 DEF Interrupt, Marks, Kinds
  <1> QED
    BY <1>0, <1>1, <1>2, <1>3, <1>4, MishapSteps

LEMMA TypeStep ==
    ASSUME TypeOK, JobsFit, Next
    PROVE  TypeOK'
  BY RowsTyped, WorkflowsTyped, HistoriesTyped, ProcessesTyped, CounterSteps, MishapsTyped
  DEF TypeOK, Rows, Jobs

-----------------------------------------------------------------------------
(* What a step does to one workflow, one history, one file *)

LEMMA WorkflowsStay ==
    ASSUME TypeOK, Next, NEW w \in Workflows
    PROVE  /\ workflow[w].state # "none" => workflow'[w].state # "none"
           /\ workflow[w].state = "deleted" => workflow'[w].state = "deleted"
  <1>0. workflow \in [Workflows -> [state : {"none", "live", "deleted"},
                                    cites : SUBSET Files]]
    BY DEF TypeOK
  <1>1. ASSUME NEW v \in Workflows, CreateWorkflow(v)
        PROVE  /\ workflow[w].state # "none" => workflow'[w].state # "none"
               /\ workflow[w].state = "deleted" => workflow'[w].state = "deleted"
    BY <1>0, <1>1 DEF CreateWorkflow
  <1>2. ASSUME NEW r \in Requests, NEW v \in Workflows, UpdateWorkflow(r, v)
        PROVE  workflow'[w].state = workflow[w].state
    BY <1>0, <1>2 DEF UpdateWorkflow
  <1>3. ASSUME NEW r \in Requests, NEW v \in Workflows, DeleteWorkflow(r, v)
        PROVE  workflow'[w].state = workflow[w].state \/ workflow'[w].state = "deleted"
    BY <1>0, <1>3 DEF DeleteWorkflow
  <1> QED
    BY <1>1, <1>2, <1>3, WorkflowSteps

LEMMA HistoriesStay ==
    ASSUME TypeOK, JobsFit, Next, NEW h \in Histories
    PROVE  history[h].state # "none" =>
               history'[h].state # "none" /\ history'[h].expires = history[h].expires
  <1>0. history \in [Histories -> [state : {"none", "live", "deleted"},
                                   media : SUBSET Files, expires : Times \cup {Never}]]
    BY DEF TypeOK
  <1>1. ASSUME NEW r \in Requests, SaveGenerationHistory(r), history[h].state # "none"
        PROVE  history'[h] = history[h]
    <2>1. job[r].target \in Histories /\ history[job[r].target].state = "none"
      BY <1>1 DEF SaveGenerationHistory, JobsFit, JobFits, Processes
    <2> QED
      BY <1>0, <1>1, <2>1 DEF SaveGenerationHistory
  <1>2. ASSUME NEW p \in Processes, DeleteGenerationHistory(p)
        PROVE  /\ history'[h].state = history[h].state \/ history'[h].state = "deleted"
               /\ history'[h].expires = history[h].expires
    BY <1>0, <1>2 DEF DeleteGenerationHistory
  <1> QED
    BY <1>1, <1>2, HistorySteps

\* A step stores, binds, deletes or leaves a file.
Bound(f, w, h, t) ==
    /\ Live(f)
    /\ file'[f] = [state |-> "live", workflow |-> w, history |-> h, expires |-> t]
    /\ Purging(f) => <<f, "raced">> \in mishaps'
    /\ objects' = objects

LEMMA FileChange ==
    ASSUME TypeOK, JobsFit, Next, NEW f \in Files
    PROVE  \/ file'[f] = file[f]
           \/ /\ file[f].state = "none" /\ f \notin objects /\ objects' = objects \cup {f}
              /\ file'[f] = [state |-> "live", workflow |-> Nothing, history |-> Nothing,
                             expires |-> clock + Lifetime]
           \/ \E w \in Workflows :
                  workflow'[w].state # "none" /\ Bound(f, w, Nothing, Never)
           \/ \E r \in Requests : /\ pc[r] = "attach"
                                  /\ Bound(f, Nothing, job[r].target, job[r].expires)
           \/ \E p \in Processes : /\ pc[p] = "mark" /\ job[p].at = f
                                   /\ file'[f] = [file[f] EXCEPT !.state = "deleted"]
                                   /\ objects' = objects
  <1>0. file \in [Files -> Rows]
    BY DEF TypeOK, Rows
  <1> DEFINE Goal ==
           \/ file'[f] = file[f]
           \/ /\ file[f].state = "none" /\ f \notin objects /\ objects' = objects \cup {f}
              /\ file'[f] = [state |-> "live", workflow |-> Nothing, history |-> Nothing,
                             expires |-> clock + Lifetime]
           \/ \E w \in Workflows :
                  workflow'[w].state # "none" /\ Bound(f, w, Nothing, Never)
           \/ \E r \in Requests : /\ pc[r] = "attach"
                                  /\ Bound(f, Nothing, job[r].target, job[r].expires)
           \/ \E p \in Processes : /\ pc[p] = "mark" /\ job[p].at = f
                                   /\ file'[f] = [file[f] EXCEPT !.state = "deleted"]
                                   /\ objects' = objects
  <1> SUFFICES Goal
    OBVIOUS
  <1>1. ASSUME NEW g \in Files, StoreUserFile(g) PROVE Goal
    BY <1>0, <1>1 DEF StoreUserFile
  <1>2. ASSUME NEW w \in Workflows, CreateWorkflow(w) PROVE Goal
    <2>1. PICK S \in SUBSET Citable :
              /\ workflow' = [workflow EXCEPT ![w] = [state |-> "live", cites |-> S]]
              /\ Bind(S, w, Nothing, Never)
              /\ mishaps' = mishaps \cup Disturbed(S, w)
      BY <1>2 DEF CreateWorkflow
    <2>2. workflow'[w].state # "none"
      BY <2>1 DEF TypeOK
    <2>3. f \in S /\ Live(f) /\ Purging(f) => <<f, "raced">> \in mishaps'
      BY <2>1 DEF Disturbed, Marks
    <2>4. objects' = objects
      BY <1>2 DEF CreateWorkflow
    <2>5. CASE f \in S /\ Live(f)
      BY <1>0, <2>1, <2>2, <2>3, <2>4, <2>5 DEF Bind, Bound
    <2>6. CASE ~(f \in S /\ Live(f))
      BY <1>0, <2>1, <2>6 DEF Bind
    <2> QED
      BY <2>5, <2>6
  <1>3. ASSUME NEW r \in Requests, BindWorkflowCloudFiles(r) PROVE Goal
    <2> DEFINE S == job[r].files
               w == job[r].target
    <2>1. /\ Bind(S, w, Nothing, Never) /\ mishaps' = mishaps \cup Disturbed(S, w)
          /\ objects' = objects /\ workflow' = workflow
      BY <1>3 DEF BindWorkflowCloudFiles
    <2>2. w \in Workflows /\ workflow'[w].state # "none"
      BY <1>3, <2>1 DEF BindWorkflowCloudFiles, JobsFit, JobFits, Processes
    <2>3. f \in S /\ Live(f) /\ Purging(f) => <<f, "raced">> \in mishaps'
      BY <2>1 DEF Disturbed, Marks
    <2>5. CASE f \in S /\ Live(f)
      BY <1>0, <2>1, <2>2, <2>3, <2>5 DEF Bind, Bound
    <2>6. CASE ~(f \in S /\ Live(f))
      BY <1>0, <2>1, <2>6 DEF Bind
    <2> QED
      BY <2>5, <2>6
  <1>4. ASSUME NEW r \in Requests, BindCloudFiles(r) PROVE Goal
    <2> DEFINE S == job[r].files
    <2>1. /\ Bind(S, Nothing, job[r].target, job[r].expires)
          /\ mishaps' = mishaps \cup Disturbed(S, Nothing)
          /\ objects' = objects /\ pc[r] = "attach"
      BY <1>4 DEF BindCloudFiles
    <2>3. f \in S /\ Live(f) /\ Purging(f) => <<f, "raced">> \in mishaps'
      BY <2>1 DEF Disturbed, Marks
    <2>5. CASE f \in S /\ Live(f)
      BY <1>0, <2>1, <2>3, <2>5 DEF Bind, Bound
    <2>6. CASE ~(f \in S /\ Live(f))
      BY <1>0, <2>1, <2>6 DEF Bind
    <2> QED
      BY <2>5, <2>6
  <1>5. ASSUME NEW p \in Processes, DeleteStoredFile(p) PROVE Goal
    BY <1>5 DEF DeleteStoredFile
  <1>6. ASSUME NEW p \in Processes, MarkCloudFileDeleted(p) PROVE Goal
    BY <1>0, <1>6 DEF MarkCloudFileDeleted
  <1> QED
    BY <1>1, <1>2, <1>3, <1>4, <1>5, <1>6, FileSteps

LEMMA InsertedStep ==
    ASSUME TypeOK, JobsFit, Inserted, Next
    PROVE  Inserted'
  <1> SUFFICES ASSUME NEW h \in Histories, history'[h].state # "none"
               PROVE  history'[h].expires \in Times
    BY DEF Inserted
  <1>1. CASE history[h].state # "none"
    BY <1>1, HistoriesStay DEF Inserted
  <1>2. CASE history[h].state = "none" /\ UNCHANGED history
    BY <1>2
  <1>3. ASSUME NEW r \in Requests, SaveGenerationHistory(r), history[h].state = "none"
        PROVE  history'[h].expires \in Times
    <2>1. job[r].target \in Histories /\ job[r].expires \in Times
      BY <1>3 DEF SaveGenerationHistory, JobsFit, JobFits, Processes
    <2>2. history' = [history EXCEPT ![job[r].target] =
              [state |-> "live", media |-> job[r].media, expires |-> job[r].expires]]
      BY <1>3 DEF SaveGenerationHistory
    <2> QED
      BY <1>3, <2>1, <2>2 DEF TypeOK
  <1>4. ASSUME NEW p \in Processes, DeleteGenerationHistory(p), history[h].state = "none"
        PROVE  history'[h].expires \in Times
    <2>1. job[p].target \in Histories /\ history[job[p].target].state # "none"
      BY <1>4 DEF DeleteGenerationHistory, JobsFit, JobFits, OwnsHistory
    <2> QED
      BY <1>4, <2>1 DEF TypeOK, DeleteGenerationHistory
  <1> QED
    BY <1>1, <1>2, <1>3, <1>4, HistorySteps

LEMMA RowsStep ==
    ASSUME TypeOK, JobsFit, RowsKnown, HolderDecides, InHandMayGo, Next
    PROVE  RowsKnown' /\ HolderDecides'
  <1> SUFFICES ASSUME NEW f \in Files
               PROVE  LET w == file'[f].workflow
                          h == file'[f].history
                      IN
                      /\ w # Nothing => workflow'[w].state # "none"
                      /\ h # Nothing => history'[h].state # "none"
                      /\ file'[f].state = "none" => file'[f] = NoFile
                      /\ file'[f].state # "none" =>
                            /\ w = Nothing <=> file'[f].expires # Never
                            /\ w # Nothing => h = Nothing
                            /\ h # Nothing => file'[f].expires = history'[h].expires
    BY DEF RowsKnown, HolderDecides
  <1>0. file[f] \in Rows
    BY DEF TypeOK, Rows
  <1>1. /\ file[f].workflow # Nothing => workflow[file[f].workflow].state # "none"
        /\ file[f].history # Nothing => history[file[f].history].state # "none"
        /\ file[f].state = "none" => file[f] = NoFile
        /\ file[f].state # "none" =>
               /\ file[f].workflow = Nothing <=> file[f].expires # Never
               /\ file[f].workflow # Nothing => file[f].history = Nothing
               /\ file[f].history # Nothing =>
                      file[f].expires = history[file[f].history].expires
    BY DEF RowsKnown, HolderDecides
  <1>2. /\ file[f].workflow # Nothing => workflow'[file[f].workflow].state # "none"
        /\ file[f].history # Nothing =>
               /\ history'[file[f].history].state # "none"
               /\ history'[file[f].history].expires = history[file[f].history].expires
    BY <1>0, <1>1, WorkflowsStay, HistoriesStay DEF Rows
  <1>3. CASE file'[f] = file[f]
    BY <1>1, <1>2, <1>3
  <1>4. CASE file'[f] = [state |-> "live", workflow |-> Nothing, history |-> Nothing,
                         expires |-> clock + Lifetime]
    <2>1. clock + Lifetime # Never
      BY CloudFilesAssumption DEF Never, TypeOK
    <2> QED
      BY <1>4, <2>1
  <1>5. ASSUME NEW w \in Workflows, workflow'[w].state # "none", Bound(f, w, Nothing, Never)
        PROVE  /\ file'[f].workflow # Nothing => workflow'[file'[f].workflow].state # "none"
               /\ file'[f].state = "live" /\ file'[f].expires = Never
               /\ file'[f].workflow # Nothing /\ file'[f].history = Nothing
    BY <1>5, CloudFilesAssumption DEF Bound
  <1>6. ASSUME NEW r \in Requests, pc[r] = "attach",
               Bound(f, Nothing, job[r].target, job[r].expires)
        PROVE  /\ file'[f].history = job[r].target /\ job[r].target \in Histories
               /\ history'[job[r].target].state # "none"
               /\ file'[f].state = "live" /\ file'[f].expires # Never
               /\ file'[f].workflow = Nothing
               /\ file'[f].expires = history'[job[r].target].expires
    <2>1. /\ job[r].target \in Histories /\ history[job[r].target].state # "none"
          /\ job[r].expires \in Times /\ history[job[r].target].expires = job[r].expires
      BY <1>6 DEF JobsFit, JobFits, Processes
    <2>2. job[r].expires # Never
      BY <2>1 DEF Times, Never
    <2> QED
      BY <1>6, <2>1, <2>2, HistoriesStay DEF Bound
  <1>7. CASE file'[f] = [file[f] EXCEPT !.state = "deleted"] /\ file[f].state # "none"
    BY <1>0, <1>1, <1>2, <1>7 DEF Rows
  <1>8. ASSUME NEW p \in Processes, pc[p] = "mark", job[p].at = f
        PROVE  file[f].state # "none"
    BY <1>8 DEF InHandMayGo, InHand
  <1> QED
    BY <1>3, <1>4, <1>5, <1>6, <1>7, <1>8, FileChange

-----------------------------------------------------------------------------
(* What the processes are about *)

LEMMA JobStays ==
    ASSUME TypeOK, JobsFit, OneInsertEach, Next, NEW p \in Processes,
           pc'[p] = pc[p], job'[p] = job[p]
    PROVE  JobFits(p)'
  <1> DEFINE j == job[p]
  <1>0. j \in Jobs /\ JobFits(p)
    BY DEF TypeOK, Jobs, JobsFit
  <1>1. /\ j.target \in Workflows /\ workflow[j.target].state # "none" =>
               workflow'[j.target].state # "none"
        /\ j.target \in Workflows /\ workflow[j.target].state = "deleted" =>
               workflow'[j.target].state = "deleted"
    BY WorkflowsStay
  <1>2. j.target \in Histories /\ history[j.target].state # "none" =>
               /\ history'[j.target].state # "none"
               /\ history'[j.target].expires = history[j.target].expires
    BY HistoriesStay
  <1>3. pc[p] = "insert" => history'[j.target].state = "none"
    <2>1. ASSUME NEW r \in Requests, SaveGenerationHistory(r), pc[p] = "insert"
          PROVE  history'[j.target] = history[j.target]
      <3>1. pc[r] = "insert" /\ pc'[r] = "attach" /\ r \in Processes
        BY <2>1 DEF SaveGenerationHistory, Go, TypeOK, Processes
      <3>2. r # p /\ p \in Requests
        BY <1>0, <2>1, <3>1 DEF JobFits, Processes
      <3>3. job[r].target # j.target
        BY <2>1, <3>1, <3>2 DEF OneInsertEach
      <3> QED
        BY <1>0, <2>1, <3>3 DEF SaveGenerationHistory, TypeOK
    <2>2. ASSUME NEW q \in Processes, DeleteGenerationHistory(q), pc[p] = "insert"
          PROVE  history'[j.target] = history[j.target]
      <3>1. job[q].target \in Histories /\ history[job[q].target].state # "none"
        BY <2>2 DEF DeleteGenerationHistory, JobsFit, JobFits
      <3>2. job[q].target # j.target
        BY <1>0, <2>2, <3>1 DEF JobFits
      <3> QED
        BY <1>0, <2>2, <3>1, <3>2 DEF DeleteGenerationHistory, TypeOK, JobFits
    <2>3. pc[p] = "insert" => history[j.target].state = "none"
      BY <1>0 DEF JobFits
    <2> HIDE DEF j
    <2> QED
      BY <2>1, <2>2, <2>3, HistorySteps
  <1>4. j.op = "cleanup" => \A x \in j.queue : /\ history'[x].state # "none"
                                               /\ history'[x].expires <= clock'
    <2>1. SUFFICES ASSUME j.op = "cleanup", NEW x \in j.queue
                   PROVE  history'[x].state # "none" /\ history'[x].expires <= clock'
      OBVIOUS
    <2>2. x \in Histories /\ history[x].state # "none" /\ history[x].expires <= clock
      BY <1>0, <2>1 DEF JobFits, Jobs
    <2>3. history[x].expires \in Int /\ clock \in Int /\ clock' \in Int
      BY <2>2, CounterSteps, CloudFilesAssumption DEF TypeOK, Times, Never
    <2> QED
      BY <2>2, <2>3, HistoriesStay, CounterSteps
  <1>5. j.op = "cleanup" /\ pc[p] \in {"list", "purge", "mark", "forget"} =>
            history'[j.target].expires <= clock'
    <2>1. SUFFICES ASSUME j.op = "cleanup", pc[p] \in {"list", "purge", "mark", "forget"}
                   PROVE  history'[j.target].expires <= clock'
      OBVIOUS
    <2>2. /\ j.target \in Histories /\ history[j.target].state # "none"
          /\ history[j.target].expires <= clock
      BY <1>0, <2>1 DEF JobFits, OwnsHistory
    <2>3. history[j.target].expires \in Int /\ clock \in Int /\ clock' \in Int
      BY <2>2, CounterSteps, CloudFilesAssumption DEF TypeOK, Times, Never
    <2> QED
      BY <2>2, <2>3, HistoriesStay, CounterSteps
  <1> QED
    BY <1>0, <1>1, <1>2, <1>3, <1>4, <1>5 DEF JobFits

\* What process p does in a step: nothing, or one of these.
Stays(p) == pc'[p] = pc[p] /\ job'[p] = job[p]
Rests(p) == pc'[p] \in {"idle", "done"} /\ job'[p] = NoJob
Moves(p, next, op, target) ==
    pc'[p] = next /\ job'[p].op = op /\ job'[p].target = target
GoesOn(p, next) == /\ Moves(p, next, job[p].op, job[p].target)
                   /\ job'[p].files \subseteq job[p].files
                   /\ job'[p].queue = job[p].queue
Binds(p) ==
    \E w \in Workflows : /\ p # Sweeper /\ Moves(p, "bind", Nothing, w)
                         /\ workflow'[w].state # "none"
ReadsMedia(p) ==
    \E h \in Histories : /\ p # Sweeper /\ Moves(p, "insert", Nothing, h)
                         /\ history'[h].state = "none" /\ job'[p].expires \in Times
                         /\ \A q \in Requests \ {p} :
                                pc'[q] = "insert" => job'[q].target # h
Inserts(p) ==
    /\ p # Sweeper /\ pc[p] = "insert" /\ pc'[p] = "attach" /\ job'[p] = job[p]
    /\ history'[job[p].target].state = "live"
    /\ history'[job[p].target].expires = job[p].expires
ListsWorkflow(p) ==
    \E w \in Workflows : Moves(p, "list", "workflow", w) /\ workflow'[w].state = "deleted"
ListsHistory(p) ==
    \E h \in Histories, op \in {"history", "prune"} :
        Moves(p, "list", op, h) /\ history'[h].state # "none"
ListsExpired(p) ==
    /\ pc[p] = "batch" /\ \E h \in job[p].queue : Moves(p, "list", job[p].op, h)
    /\ job'[p].queue \subseteq job[p].queue
Batches(p) ==
    /\ p = Sweeper /\ pc'[p] = "batch" /\ job'[p].op = "cleanup"
    /\ \A h \in job'[p].queue : \/ history[h].state # "none" /\ history[h].expires <= clock
                                \/ job[p].op = "cleanup" /\ h \in job[p].queue
Listed(p, f) == Live(f) /\ IF job[p].op = "workflow" THEN file[f].workflow = job[p].target
                                                     ELSE file[f].history = job[p].target
StartsPurge(p) ==
    /\ pc[p] = "list" /\ job'[p].at = Nothing /\ job'[p].queue = job[p].queue
    /\ Moves(p, "purge", job[p].op, job[p].target) /\ file' = file
    /\ \A f \in job'[p].files : Listed(p, f)
StartsSweep(p) ==
    /\ Moves(p, "purge", "sweep", Nothing) /\ job'[p].at = Nothing /\ file' = file
    /\ \A f \in job'[p].files : Expired(f)
Resumes(p) == /\ pc[p] \in {"purge", "mark"} /\ GoesOn(p, "purge")
              /\ job'[p].at = Nothing
Removes(p) ==
    \E f \in job[p].files : /\ pc[p] = "purge" /\ GoesOn(p, "mark") /\ job'[p].at = f
                            /\ objects' = objects \ {f} /\ file' = file
Forgets(p) == /\ pc[p] \in {"list", "purge", "mark"} /\ job[p].op \in OwnsHistory
              /\ Moves(p, "forget", job[p].op, job[p].target)
              /\ job'[p].queue = job[p].queue
\* The mark of a row is the last step of a deletion, or the mark fails.
Marked(p) ==
    pc[p] = "mark" => \/ Stays(p)
                      \/ file' = [file EXCEPT ![job[p].at].state = "deleted"]
                      \/ <<job[p].at, "unmarked">> \in mishaps'
Does(p) ==
    /\ \/ Stays(p) \/ Rests(p) \/ Binds(p) \/ ReadsMedia(p) \/ Inserts(p)
       \/ ListsWorkflow(p) \/ ListsHistory(p) \/ ListsExpired(p) \/ Batches(p)
       \/ StartsPurge(p) \/ StartsSweep(p) \/ Resumes(p) \/ Removes(p) \/ Forgets(p)
    /\ Marked(p)

\* How Continue and Finish move a process that deletes.
LEMMA ContinueDoes ==
    ASSUME TypeOK, NEW p \in Processes, NEW j \in Jobs, Continue(p, j),
           pc[p] \in {"list", "purge", "mark"}, j.op = job[p].op,
           j.target = job[p].target, j.queue = job[p].queue,
           \/ pc[p] = "list" /\ file' = file /\ \A f \in j.files : Listed(p, f)
           \/ pc[p] \in {"purge", "mark"} /\ j.files \subseteq job[p].files
    PROVE  /\ Rests(p) \/ Forgets(p) \/ StartsPurge(p) \/ Resumes(p)
           /\ \A q \in Processes \ {p} : Stays(q)
  <1>1. \A q \in Processes \ {p} : Stays(q)
    BY ContinueFrame DEF Stays
  <1>2. CASE pc'[p] \in {"idle", "done"} /\ job'[p] = NoJob
    BY <1>1, <1>2 DEF Rests
  <1>3. CASE /\ pc'[p] = "forget" /\ j.op \in OwnsHistory
             /\ job'[p] = [j EXCEPT !.files = {}, !.at = Nothing]
    BY <1>1, <1>3 DEF Forgets, Moves, Jobs
  <1>4. CASE pc'[p] = "purge" /\ job'[p] = [j EXCEPT !.at = Nothing]
    <2>1. /\ job'[p].op = j.op /\ job'[p].target = j.target /\ job'[p].files = j.files
          /\ job'[p].queue = j.queue /\ job'[p].at = Nothing
      BY <1>4 DEF Jobs
    <2> QED
      BY <1>1, <1>4, <2>1 DEF StartsPurge, Resumes, GoesOn, Moves
  <1> QED
    BY <1>1, <1>2, <1>3, <1>4, ContinueFrame

LEMMA ProcessChange ==
    ASSUME TypeOK, JobsFit, Next, NEW p \in Processes
    PROVE  Does(p)
  <1> USE CloudFilesAssumption DEF Processes
  <1>0. \A q \in Processes : job[q] \in Jobs /\ JobFits(q)
    BY DEF TypeOK, Jobs, JobsFit
  <1>same. ASSUME Stays(p) PROVE Does(p)
    BY <1>same DEF Does, Marked
  <1>1. ASSUME NEW r \in Requests, NEW w \in Workflows, UpdateWorkflow(r, w)
        PROVE  Does(p)
    <2>1. PICK S \in SUBSET Citable :
              /\ workflow' = [workflow EXCEPT ![w].cites = S]
              /\ Go(r, "bind", [NoJob EXCEPT !.target = w, !.files = S])
      BY <1>1 DEF UpdateWorkflow
    <2> DEFINE j == [NoJob EXCEPT !.target = w, !.files = S]
    <2>2. j \in Jobs /\ j.op = Nothing /\ j.target = w
      BY DEF NoJob, Jobs, Citable
    <2> HIDE DEF j
    <2>3. Moves(r, "bind", Nothing, w) /\ \A q \in Processes \ {r} : Stays(q)
      BY <2>1, <2>2, GoFrame DEF PCs, Moves, Stays, j
    <2>4. workflow'[w].state # "none" /\ pc[r] = "idle"
      BY <1>1, <2>1 DEF UpdateWorkflow, TypeOK
    <2>5. CASE p = r
      BY <2>3, <2>4, <2>5 DEF Does, Binds, Marked
    <2> QED
      BY <1>same, <2>3, <2>5
  <1>2. ASSUME NEW r \in Requests, NEW w \in Workflows, DeleteWorkflow(r, w)
        PROVE  Does(p)
    <2> DEFINE j == [NoJob EXCEPT !.op = "workflow", !.target = w]
    <2>0. Go(r, "list", j)
      BY <1>2 DEF DeleteWorkflow
    <2>1. j \in Jobs /\ j.op = "workflow" /\ j.target = w
      BY DEF NoJob, Jobs, Purges
    <2> HIDE DEF j
    <2>2. Moves(r, "list", "workflow", w) /\ \A q \in Processes \ {r} : Stays(q)
      BY <2>0, <2>1, GoFrame DEF PCs, Moves, Stays
    <2>3. workflow'[w].state = "deleted" /\ pc[r] = "idle"
      BY <1>2 DEF DeleteWorkflow, TypeOK
    <2>4. CASE p = r
      BY <2>2, <2>3, <2>4 DEF Does, ListsWorkflow, Marked
    <2> QED
      BY <1>same, <2>2, <2>4
  <1>3. ASSUME NEW r \in Requests, NEW h \in Histories, ReadMedia(r, h)
        PROVE  Does(p)
    <2>1. PICK media \in SUBSET Showable(Files) \ {{}}, references \in SUBSET Citable :
              \E expires \in Earliest(media) :
                  Go(r, "insert", [NoJob EXCEPT !.target = h, !.media = media,
                                                !.files = media \cup references,
                                                !.expires = expires])
      BY <1>3 DEF ReadMedia
    <2>2. PICK expires \in Earliest(media) :
              Go(r, "insert", [NoJob EXCEPT !.target = h, !.media = media,
                                            !.files = media \cup references,
                                            !.expires = expires])
      BY <2>1
    <2>3. expires \in Times /\ media \in SUBSET Files /\ references \in SUBSET Files
      BY DEF Earliest, Showable, TypeOK, Citable, Times, Never
    <2> DEFINE j == [NoJob EXCEPT !.target = h, !.media = media,
                                  !.files = media \cup references, !.expires = expires]
    <2>4. j \in Jobs /\ j.op = Nothing /\ j.target = h /\ j.expires = expires
      BY <2>3 DEF NoJob, Jobs
    <2>8. Go(r, "insert", j)
      BY <2>2
    <2> HIDE DEF j
    <2>5. /\ Moves(r, "insert", Nothing, h) /\ job'[r].expires \in Times
          /\ \A q \in Processes \ {r} : Stays(q)
      BY <2>3, <2>4, <2>8, GoFrame DEF PCs, Moves, Stays
    <2>6. /\ history'[h].state = "none" /\ pc[r] = "idle"
          /\ \A q \in Requests \ {r} : pc'[q] = "insert" => job'[q].target # h
      BY <1>3, <2>5 DEF ReadMedia, Stays
    <2>7. CASE p = r
      BY <2>5, <2>6, <2>7 DEF Does, ReadsMedia, Marked
    <2> QED
      BY <1>same, <2>5, <2>7
  <1>4. ASSUME NEW r \in Requests, SaveGenerationHistory(r)
        PROVE  Does(p)
    <2>1. /\ pc[r] = "insert" /\ Go(r, "attach", job[r])
          /\ history' = [history EXCEPT ![job[r].target] =
                 [state |-> "live", media |-> job[r].media, expires |-> job[r].expires]]
      BY <1>4 DEF SaveGenerationHistory
    <2>2. pc'[r] = "attach" /\ job'[r] = job[r] /\ \A q \in Processes \ {r} : Stays(q)
      BY <1>0, <2>1, GoFrame DEF PCs, Stays
    <2>3. /\ history'[job[r].target].state = "live"
          /\ history'[job[r].target].expires = job[r].expires
      BY <1>0, <2>1 DEF JobFits, TypeOK
    <2>4. CASE p = r
      BY <2>1, <2>2, <2>3, <2>4 DEF Does, Inserts, Marked
    <2> QED
      BY <1>same, <2>2, <2>4
  <1>5. ASSUME NEW r \in Requests, NEW h \in Histories,
               DeleteHistory(r, h) \/ PruneHistory(r, h)
        PROVE  Does(p)
    <2>1. PICK op \in {"history", "prune"} :
              Go(r, "list", [NoJob EXCEPT !.op = op, !.target = h])
      BY <1>5 DEF DeleteHistory, PruneHistory
    <2> DEFINE j == [NoJob EXCEPT !.op = op, !.target = h]
    <2>2. Go(r, "list", j) /\ j \in Jobs /\ j.op = op /\ j.target = h
      BY <2>1 DEF NoJob, Jobs, Purges
    <2> HIDE DEF j
    <2>3. Moves(r, "list", op, h) /\ \A q \in Processes \ {r} : Stays(q)
      BY <2>2, GoFrame DEF PCs, Moves, Stays
    <2>4. history'[h].state # "none" /\ pc[r] = "idle"
      BY <1>5 DEF DeleteHistory, PruneHistory
    <2>5. CASE p = r
      BY <2>3, <2>4, <2>5 DEF Does, ListsHistory, Marked
    <2> QED
      BY <1>same, <2>3, <2>5
  <1>6. ASSUME NEW q \in Processes, ListFiles(q)
        PROVE  Does(p)
    <2> DEFINE S == {f \in Files : Live(f) /\ IF job[q].op = "workflow"
                                              THEN file[f].workflow = job[q].target
                                              ELSE file[f].history = job[q].target}
               j == [job[q] EXCEPT !.files = S]
    <2>1. /\ j \in Jobs /\ j.op = job[q].op /\ j.target = job[q].target
          /\ j.queue = job[q].queue /\ j.files = S
      BY <1>0 DEF Jobs
    <2>2. pc[q] = "list" /\ file' = file /\ Continue(q, j)
      BY <1>6 DEF ListFiles
    <2>3. \A f \in j.files : Listed(q, f)
      BY <2>1 DEF Listed
    <2> HIDE DEF j, S
    <2>4. /\ Rests(q) \/ Forgets(q) \/ StartsPurge(q) \/ Resumes(q)
          /\ \A x \in Processes \ {q} : Stays(x)
      BY <2>1, <2>2, <2>3, ContinueDoes
    <2>5. CASE p = q
      BY <2>2, <2>4, <2>5 DEF Does, Marked
    <2> QED
      BY <1>same, <2>4, <2>5
  <1>7. ASSUME NEW q \in Processes, DeleteStoredFile(q)
        PROVE  Does(p)
    <2>1. PICK f \in job[q].files :
              /\ objects' = objects \ {f}
              /\ Go(q, "mark", [job[q] EXCEPT !.files = @ \ {f}, !.at = f])
      BY <1>7 DEF DeleteStoredFile
    <2> DEFINE j == [job[q] EXCEPT !.files = @ \ {f}, !.at = f]
    <2>2. /\ j \in Jobs /\ j.op = job[q].op /\ j.target = job[q].target
          /\ j.queue = job[q].queue /\ j.files \subseteq job[q].files /\ j.at = f
      BY <1>0 DEF Jobs
    <2>3. pc[q] = "purge" /\ file' = file /\ Go(q, "mark", j)
      BY <1>7, <2>1 DEF DeleteStoredFile
    <2> HIDE DEF j
    <2>4. /\ pc'[q] = "mark" /\ job'[q] = j
          /\ \A x \in Processes \ {q} : Stays(x)
      BY <2>2, <2>3, GoFrame DEF PCs, Stays
    <2>5. CASE p = q
      BY <2>1, <2>2, <2>3, <2>4, <2>5 DEF Does, Removes, GoesOn, Moves, Marked
    <2> QED
      BY <1>same, <2>4, <2>5
  <1>8. ASSUME NEW q \in Processes, MarkCloudFileDeleted(q)
        PROVE  Does(p)
    <2>1. /\ pc[q] = "mark" /\ Continue(q, job[q])
          /\ file' = [file EXCEPT ![job[q].at].state = "deleted"]
      BY <1>8 DEF MarkCloudFileDeleted
    <2>2. /\ Rests(q) \/ Forgets(q) \/ StartsPurge(q) \/ Resumes(q)
          /\ \A x \in Processes \ {q} : Stays(x)
      BY <1>0, <2>1, ContinueDoes
    <2>3. CASE p = q
      BY <2>1, <2>2, <2>3 DEF Does, Marked
    <2> QED
      BY <1>same, <2>2, <2>3
  <1>9. ASSUME NEW q \in Processes, DeleteGenerationHistory(q)
        PROVE  Does(p)
    <2> DEFINE j == [job[q] EXCEPT !.target = Nothing]
    <2>1. j \in Jobs /\ j.op = job[q].op /\ j.queue = job[q].queue
      BY <1>0 DEF Jobs
    <2>2. /\ pc[q] = "forget"
          /\ \/ job[q].op = "cleanup" /\ Go(q, "batch", j)
             \/ Stop(q)
      BY <1>9 DEF DeleteGenerationHistory
    <2> HIDE DEF j
    <2>3. CASE Stop(q)
      <3>1. Rests(q) /\ \A x \in Processes \ {q} : Stays(x)
        BY <2>3, StopFrame DEF Rests, Stays
      <3>2. CASE p = q
        BY <2>2, <3>1, <3>2 DEF Does, Marked
      <3> QED
        BY <1>same, <3>1, <3>2
    <2>4. CASE job[q].op = "cleanup" /\ Go(q, "batch", j)
      <3>1. /\ pc'[q] = "batch" /\ job'[q] = j /\ \A x \in Processes \ {q} : Stays(x)
        BY <2>1, <2>4, GoFrame DEF PCs, Stays
      <3>2. q = Sweeper
        BY <1>0, <2>2, <2>4 DEF JobFits
      <3>3. CASE p = q
        BY <2>1, <2>2, <2>4, <3>1, <3>2, <3>3 DEF Does, Batches, Marked
      <3> QED
        BY <1>same, <3>1, <3>3
    <2> QED
      BY <2>2, <2>3, <2>4
  <1>10. ASSUME Wake
         PROVE  Does(p)
    <2>1. PICK Q \in SUBSET {h \in Histories : /\ history[h].state = "live"
                                               /\ history[h].expires <= clock} :
              Go(Sweeper, "batch", [NoJob EXCEPT !.op = "cleanup", !.queue = Q])
      BY <1>10 DEF Wake, Oldest
    <2> DEFINE j == [NoJob EXCEPT !.op = "cleanup", !.queue = Q]
    <2>2. Go(Sweeper, "batch", j) /\ j \in Jobs /\ j.op = "cleanup" /\ j.queue = Q
      BY <2>1 DEF NoJob, Jobs, Purges
    <2> HIDE DEF j
    <2>3. /\ pc'[Sweeper] = "batch" /\ job'[Sweeper].op = "cleanup"
          /\ job'[Sweeper].queue = Q
      BY <2>2, GoFrame DEF PCs
    <2>0. \A x \in Processes \ {Sweeper} : Stays(x)
      BY <2>2, GoFrame DEF PCs, Stays
    <2>4. CASE p = Sweeper
      BY <1>10, <2>3, <2>4 DEF Does, Batches, Marked, Wake
    <2> QED
      BY <1>same, <2>0, <2>4
  <1>11. ASSUME NextHistory
         PROVE  Does(p)
    <2>1. PICK h \in job[Sweeper].queue :
              Go(Sweeper, "list", [job[Sweeper] EXCEPT !.target = h, !.queue = @ \ {h}])
      BY <1>11 DEF NextHistory
    <2> DEFINE j == [job[Sweeper] EXCEPT !.target = h, !.queue = @ \ {h}]
    <2>2. /\ j \in Jobs /\ j.op = job[Sweeper].op /\ j.target = h
          /\ j.queue \subseteq job[Sweeper].queue
      BY <1>0 DEF Jobs
    <2>3. pc[Sweeper] = "batch" /\ Go(Sweeper, "list", j)
      BY <1>11, <2>1 DEF NextHistory
    <2> HIDE DEF j
    <2>4. /\ pc'[Sweeper] = "list" /\ job'[Sweeper] = j
          /\ \A x \in Processes \ {Sweeper} : Stays(x)
      BY <2>2, <2>3, GoFrame DEF PCs, Stays
    <2>5. CASE p = Sweeper
      BY <2>2, <2>3, <2>4, <2>5 DEF Does, ListsExpired, Moves, Marked
    <2> QED
      BY <1>same, <2>4, <2>5
  <1>12. ASSUME ListExpiredCloudFiles
         PROVE  Does(p)
    <2>1. PICK S \in SUBSET {f \in Files : Expired(f)} :
              Continue(Sweeper, [NoJob EXCEPT !.op = "sweep", !.files = S])
      BY <1>12 DEF ListExpiredCloudFiles, Oldest
    <2> DEFINE j == [NoJob EXCEPT !.op = "sweep", !.files = S]
    <2>2. /\ j \in Jobs /\ j.op = "sweep" /\ j.op \notin OwnsHistory
          /\ j.files = S /\ j.target = Nothing
      BY DEF NoJob, Jobs, Purges, OwnsHistory
    <2>3. Continue(Sweeper, j) /\ pc[Sweeper] = "batch" /\ file' = file
      BY <1>12, <2>1 DEF ListExpiredCloudFiles
    <2> HIDE DEF j
    <2>4. /\ \/ Rests(Sweeper)
             \/ pc'[Sweeper] = "purge" /\ job'[Sweeper] = [j EXCEPT !.at = Nothing]
          /\ \A x \in Processes \ {Sweeper} : Stays(x)
      BY <2>2, <2>3, ContinueFrame DEF Rests, Stays
    <2>5. /\ [j EXCEPT !.at = Nothing].op = "sweep" /\ [j EXCEPT !.at = Nothing].files = S
          /\ [j EXCEPT !.at = Nothing].target = Nothing
          /\ [j EXCEPT !.at = Nothing].at = Nothing
      BY <2>2 DEF Jobs
    <2>6. Rests(Sweeper) \/ StartsSweep(Sweeper)
      BY <2>3, <2>4, <2>5 DEF StartsSweep, Moves
    <2>7. CASE p = Sweeper
      BY <2>3, <2>6, <2>7 DEF Does, Marked
    <2> QED
      BY <1>same, <2>4, <2>7
  <1>13. ASSUME NEW q \in Processes, FailDelete(q)
         PROVE  Does(p)
    <2>0. /\ pc[q] \in {"purge", "mark"}
          /\ pc[q] = "mark" => <<job[q].at, "unmarked">> \in mishaps'
      BY <1>13 DEF FailDelete, Marks
    <2>1. \/ Continue(q, job[q])
          \/ \E f \in job[q].files : Continue(q, [job[q] EXCEPT !.files = @ \ {f}])
          \/ job[q].op = "prune" /\ Finish(q, job[q])
          \/ job[q].op = "cleanup" /\ Go(q, "batch", [NoJob EXCEPT !.op = "cleanup"])
          \/ Stop(q)
      BY <1>13 DEF FailDelete
    <2>2. CASE Continue(q, job[q])
      <3>1. /\ Rests(q) \/ Forgets(q) \/ StartsPurge(q) \/ Resumes(q)
            /\ \A x \in Processes \ {q} : Stays(x)
        BY <1>0, <2>0, <2>2, ContinueDoes
      <3>2. CASE p = q
        BY <2>0, <3>1, <3>2 DEF Does, Marked
      <3> QED
        BY <1>same, <3>1, <3>2
    <2>3. ASSUME NEW f \in job[q].files, Continue(q, [job[q] EXCEPT !.files = @ \ {f}])
          PROVE  Does(p)
      <3> DEFINE j == [job[q] EXCEPT !.files = @ \ {f}]
      <3>1. /\ j \in Jobs /\ j.op = job[q].op /\ j.target = job[q].target
            /\ j.queue = job[q].queue /\ j.files \subseteq job[q].files
        BY <1>0 DEF Jobs
      <3>2. Continue(q, j)
        BY <2>3
      <3> HIDE DEF j
      <3>3. /\ Rests(q) \/ Forgets(q) \/ StartsPurge(q) \/ Resumes(q)
            /\ \A x \in Processes \ {q} : Stays(x)
        BY <2>0, <3>1, <3>2, ContinueDoes
      <3>4. CASE p = q
        BY <2>0, <3>3, <3>4 DEF Does, Marked
      <3> QED
        BY <1>same, <3>3, <3>4
    <2>4. CASE job[q].op = "prune" /\ Finish(q, job[q])
      <3> DEFINE j == [job[q] EXCEPT !.files = {}, !.at = Nothing]
      <3>1. j.op = job[q].op /\ j.target = job[q].target /\ j.queue = job[q].queue
        BY <1>0 DEF Jobs
      <3>2. /\ \/ pc'[q] \in {"idle", "done"} /\ job'[q] = NoJob
               \/ pc'[q] = "forget" /\ job[q].op \in OwnsHistory /\ job'[q] = j
            /\ \A x \in Processes \ {q} : Stays(x)
        BY <1>0, <2>4, FinishFrame DEF Stays
      <3> HIDE DEF j
      <3>3. CASE p = q
        BY <2>0, <3>1, <3>2, <3>3 DEF Does, Marked, Rests, Forgets, Moves
      <3> QED
        BY <1>same, <3>2, <3>3
    <2>5. CASE job[q].op = "cleanup" /\ Go(q, "batch", [NoJob EXCEPT !.op = "cleanup"])
      <3> DEFINE j == [NoJob EXCEPT !.op = "cleanup"]
      <3>1. j \in Jobs /\ j.op = "cleanup" /\ j.queue = {}
        BY DEF NoJob, Jobs, Purges
      <3> HIDE DEF j
      <3>2. pc'[q] = "batch" /\ job'[q] = j /\ \A x \in Processes \ {q} : Stays(x)
        BY <2>5, <3>1, GoFrame DEF PCs, Stays, j
      <3>3. q = Sweeper
        BY <1>0, <2>0, <2>5 DEF JobFits
      <3>4. CASE p = q
        BY <2>0, <3>1, <3>2, <3>3, <3>4 DEF Does, Marked, Batches
      <3> QED
        BY <1>same, <3>2, <3>4
    <2>6. CASE Stop(q)
      <3>1. Rests(q) /\ \A x \in Processes \ {q} : Stays(x)
        BY <2>6, StopFrame DEF Rests, Stays
      <3>2. CASE p = q
        BY <2>0, <3>1, <3>2 DEF Does, Marked
      <3> QED
        BY <1>same, <3>1, <3>2
    <2> QED
      BY <2>1, <2>2, <2>3, <2>4, <2>5, <2>6
  <1>14. ASSUME NEW q \in Processes, Interrupt(q)
         PROVE  Does(p)
    <2>1. /\ Rests(q) /\ \A x \in Processes \ {q} : Stays(x)
          /\ pc[q] = "mark" => <<job[q].at, "unmarked">> \in mishaps'
      BY <1>14, StopFrame DEF Interrupt, Marks, Rests, Stays
    <2>2. CASE p = q
      BY <2>1, <2>2 DEF Does, Marked
    <2> QED
      BY <1>same, <2>1, <2>2
  <1>15. ASSUME NEW r \in Requests, BindWorkflowCloudFiles(r) \/ BindCloudFiles(r)
         PROVE  Does(p)
    <2>1. /\ Rests(r) /\ \A x \in Processes \ {r} : Stays(x)
          /\ pc[r] \in {"bind", "attach"}
      BY <1>15, StopFrame DEF BindWorkflowCloudFiles, BindCloudFiles, Rests, Stays
    <2>2. CASE p = r
      BY <2>1, <2>2 DEF Does, Marked
    <2> QED
      BY <1>same, <2>1, <2>2
  <1>16. ASSUME NEW w \in Workflows, CreateWorkflow(w)
         PROVE  Does(p)
    BY <1>16, <1>same DEF CreateWorkflow, Stays
  <1>17. ASSUME NEW f \in Files, StoreUserFile(f)
         PROVE  Does(p)
    BY <1>17, <1>same DEF StoreUserFile, Stays
  <1>18. ASSUME Tick
         PROVE  Does(p)
    BY <1>18, <1>same DEF Tick, Stays
  <1>19. ASSUME NEW r \in Requests, Begin(r) \/ Resume(r)
         PROVE  Does(p)
    BY <1>1, <1>2, <1>3, <1>4, <1>5, <1>15, <1>19 DEF Begin, Resume
  <1>20. ASSUME NEW q \in Processes, Purge(q)
         PROVE  Does(p)
    BY <1>6, <1>7, <1>8, <1>9, <1>20 DEF Purge
  <1> QED
    BY <1>10, <1>11, <1>12, <1>13, <1>14, <1>16, <1>17, <1>18, <1>19, <1>20
    DEF Next, Sweep

LEMMA JobsStep ==
    ASSUME TypeOK, JobsFit, OneInsertEach, Next
    PROVE  JobsFit'
  <1> SUFFICES ASSUME NEW p \in Processes
               PROVE  JobFits(p)'
    BY DEF JobsFit, Processes
  <1>0. JobFits(p) /\ job[p] \in Jobs /\ Does(p)
    BY ProcessChange DEF TypeOK, Jobs, JobsFit
  <1>1. \A w \in Workflows :
            /\ workflow[w].state # "none" => workflow'[w].state # "none"
            /\ workflow[w].state = "deleted" => workflow'[w].state = "deleted"
    BY WorkflowsStay
  <1>2. \A h \in Histories : history[h].state # "none" =>
            history'[h].state # "none" /\ history'[h].expires = history[h].expires
    BY HistoriesStay
  <1>3. ASSUME NEW h \in Histories, history[h].state # "none", history[h].expires <= clock
        PROVE  history'[h].state # "none" /\ history'[h].expires <= clock'
    <2>1. history[h].expires \in Int /\ clock \in Int /\ clock' \in Int
      BY CounterSteps, CloudFilesAssumption DEF TypeOK, Times, Never
    <2> QED
      BY <1>2, <1>3, <2>1, CounterSteps
  <1>4. job[p].op = "cleanup" => \A x \in job[p].queue : /\ x \in Histories
                                                         /\ history'[x].state # "none"
                                                         /\ history'[x].expires <= clock'
    BY <1>0, <1>3 DEF JobFits, Jobs
  <1>5. job[p].op = "cleanup" /\ pc[p] \in {"list", "purge", "mark", "forget"} =>
            history'[job[p].target].expires <= clock'
    BY <1>0, <1>3 DEF JobFits, OwnsHistory
  <1>10. CASE Stays(p)
    BY <1>10, JobStays DEF Stays
  <1>11. CASE Rests(p)
    BY <1>11 DEF Rests, JobFits, NoJob, Nothing, OwnsHistory
  <1>12. CASE Binds(p)
    BY <1>12 DEF Binds, Moves, JobFits, Nothing, OwnsHistory
  <1>13. CASE ReadsMedia(p)
    BY <1>13 DEF ReadsMedia, Moves, JobFits, Nothing, OwnsHistory
  <1>14. CASE Inserts(p)
    BY <1>0, <1>14 DEF Inserts, JobFits, Nothing, OwnsHistory
  <1>15. CASE ListsWorkflow(p)
    BY <1>15 DEF ListsWorkflow, Moves, JobFits, Nothing, OwnsHistory
  <1>16. CASE ListsHistory(p)
    BY <1>16 DEF ListsHistory, Moves, JobFits, Nothing, OwnsHistory
  <1>17. CASE ListsExpired(p)
    BY <1>0, <1>4, <1>17 DEF ListsExpired, Moves, JobFits, Nothing, OwnsHistory
  <1>18. CASE Batches(p)
    <2>1. \A x \in job'[p].queue : x \in Histories
      BY ProcessesTyped DEF Jobs
    <2>2. \A x \in job'[p].queue : history'[x].state # "none" /\ history'[x].expires <= clock'
      BY <1>3, <1>4, <1>18, <2>1 DEF Batches
    <2> QED
      BY <1>18, <2>2 DEF Batches, JobFits, OwnsHistory, Nothing
  <1>19. CASE StartsPurge(p)
    BY <1>0, <1>1, <1>2, <1>4, <1>5, <1>19
    DEF StartsPurge, Moves, JobFits, OwnsHistory, Nothing, Purges
  <1>20. CASE StartsSweep(p)
    BY <1>20 DEF StartsSweep, Moves, JobFits, OwnsHistory, Nothing, Purges
  <1>21. CASE Resumes(p)
    BY <1>0, <1>1, <1>2, <1>4, <1>5, <1>21
    DEF Resumes, GoesOn, Moves, JobFits, OwnsHistory, Nothing
  <1>22. CASE Removes(p)
    BY <1>0, <1>1, <1>2, <1>4, <1>5, <1>22
    DEF Removes, GoesOn, Moves, JobFits, OwnsHistory, Nothing, Jobs
  <1>23. CASE Forgets(p)
    BY <1>0, <1>2, <1>4, <1>5, <1>23
    DEF Forgets, Moves, JobFits, OwnsHistory, Nothing
  <1> QED
    BY <1>0, <1>10, <1>11, <1>12, <1>13, <1>14, <1>15, <1>16, <1>17, <1>18, <1>19,
       <1>20, <1>21, <1>22, <1>23 DEF Does

LEMMA OneInsertStep ==
    ASSUME TypeOK, JobsFit, OneInsertEach, Next
    PROVE  OneInsertEach'
  <1> SUFFICES ASSUME NEW p \in Requests, NEW q \in Requests, p # q,
                      pc'[p] = "insert", pc'[q] = "insert"
               PROVE  job'[p].target # job'[q].target
    BY DEF OneInsertEach
  <1>1. ASSUME NEW r \in Requests, pc'[r] = "insert"
        PROVE  Stays(r) \/ ReadsMedia(r)
    BY <1>1, ProcessChange
    DEF Does, Processes, Rests, Binds, Inserts, ListsWorkflow, ListsHistory, ListsExpired,
        Batches, StartsPurge, StartsSweep, Resumes, Removes, Forgets, Moves, GoesOn
  <1>2. CASE ReadsMedia(p)
    BY <1>2 DEF ReadsMedia, Moves
  <1>3. CASE ReadsMedia(q)
    BY <1>3 DEF ReadsMedia, Moves
  <1>4. CASE Stays(p) /\ Stays(q)
    BY <1>4 DEF Stays, OneInsertEach
  <1> QED
    BY <1>1, <1>2, <1>3, <1>4

-----------------------------------------------------------------------------
(* What is about to be deleted, and what has been *)

LEMMA ObjectChange ==
    ASSUME TypeOK, Next, NEW f \in Files
    PROVE  /\ f \in objects' \ objects => file[f].state = "none"
           /\ f \in objects \ objects' =>
                  \E p \in Processes : /\ pc[p] = "purge" /\ f \in job[p].files
                                       /\ file' = file
  BY FileSteps
  DEF StoreUserFile, CreateWorkflow, BindWorkflowCloudFiles, BindCloudFiles,
      DeleteStoredFile, MarkCloudFileDeleted

\* What may go before a step may go after it.
LEMMA ReasonStays ==
    ASSUME TypeOK, JobsFit, RowsKnown, HolderDecides, Next,
           NEW p \in Processes, NEW f \in Files,
           file[f].state # "none", MayGo(p, f),
           job'[p].op = job[p].op, job'[p].target = job[p].target,
           file' = file \/ Purging(f)
    PROVE  file'[f].state # "none" /\ MayGo(p, f)'
  <1>0. file[f] \in Rows /\ mishaps \subseteq mishaps'
    BY MishapSteps DEF TypeOK, Rows, CreateWorkflow, BindWorkflowCloudFiles,
                       BindCloudFiles, FailDelete, Interrupt
  <1>1. ASSUME file'[f].state # "none", file'[f].workflow = file[f].workflow,
               file'[f].history = file[f].history, file'[f].expires = file[f].expires
        PROVE  file'[f].state # "none" /\ MayGo(p, f)'
    <2>1. CASE Had(f, "raced")
      BY <1>0, <1>1, <2>1 DEF MayGo, Had
    <2>2. CASE file[f].expires # Never /\ file[f].expires <= clock
      <3>1. file[f].expires \in Int /\ clock \in Int /\ clock' \in Int
        BY <1>0, CounterSteps, CloudFilesAssumption DEF TypeOK, Rows, Times, Never
      <3>2. file[f].expires <= clock'
        BY <2>2, <3>1, CounterSteps
      <3> QED
        BY <1>1, <2>2, <3>2 DEF MayGo
    <2>3. CASE file[f].workflow # Nothing /\ workflow[file[f].workflow].state = "deleted"
      BY <1>0, <1>1, <2>3, WorkflowsStay DEF MayGo, Rows
    <2>4. CASE job[p].op \in {"history", "prune"} /\ job[p].target = file[f].history
      BY <1>1, <2>4 DEF MayGo
    <2> QED
      BY <2>1, <2>2, <2>3, <2>4 DEF MayGo
  <1>2. CASE file'[f] = file[f]
    BY <1>1, <1>2
  <1>3. CASE file'[f] = [file[f] EXCEPT !.state = "deleted"]
    BY <1>0, <1>1, <1>3 DEF Rows
  <1>4. ASSUME NEW w, NEW h, NEW t, Bound(f, w, h, t)
        PROVE  file'[f].state # "none" /\ MayGo(p, f)'
    BY <1>2, <1>4 DEF Bound, MayGo, Had
  <1> QED
    BY <1>2, <1>3, <1>4, FileChange

LEMMA InHandStep ==
    ASSUME TypeOK, JobsFit, RowsKnown, HolderDecides, InHandMayGo, Next
    PROVE  InHandMayGo'
  <1> SUFFICES ASSUME NEW p \in Processes, NEW f \in Files, InHand(p, f)'
               PROVE  file'[f].state # "none" /\ MayGo(p, f)'
    BY DEF InHandMayGo, Processes
  <1>0. /\ Does(p) /\ JobFits(p) /\ job[p] \in Jobs /\ file[f] \in Rows
        /\ pc'[p] \in {"purge", "mark"}
        /\ f \in job'[p].files \/ (pc'[p] = "mark" /\ f = job'[p].at)
    BY ProcessChange DEF JobsFit, TypeOK, Jobs, Rows, InHand
  <1>1. ASSUME InHand(p, f), job'[p].op = job[p].op, job'[p].target = job[p].target
        PROVE  file'[f].state # "none" /\ MayGo(p, f)'
    BY <1>1, ReasonStays DEF InHandMayGo, InHand, Purging
  <1>2. CASE Stays(p)
    BY <1>0, <1>1, <1>2 DEF Stays, InHand
  <1>3. CASE Resumes(p)
    BY <1>0, <1>1, <1>3 DEF Resumes, GoesOn, Moves, InHand
  <1>4. CASE Removes(p)
    BY <1>0, <1>1, <1>4 DEF Removes, GoesOn, Moves, InHand
  <1>5. CASE StartsPurge(p)
    <2>1. /\ pc[p] = "list" /\ Listed(p, f) /\ file' = file
          /\ job'[p].op = job[p].op /\ job'[p].target = job[p].target
      BY <1>0, <1>5 DEF StartsPurge, Moves
    <2>2. job[p].op \in OwnsHistory \cup {"workflow"}
      BY <1>0, <2>1 DEF JobFits
    <2>3. CASE job[p].op = "workflow"
      <3>1. /\ file[f].workflow = job[p].target /\ job[p].target \in Workflows
            /\ workflow[job[p].target].state = "deleted" /\ file[f].state # "none"
        BY <1>0, <2>1, <2>3 DEF Listed, Live, JobFits
      <3>2. MayGo(p, f)
        BY <3>1, CloudFilesAssumption DEF MayGo
      <3> QED
        BY <2>1, <3>1, <3>2, ReasonStays
    <2>4. CASE job[p].op \in {"history", "prune"}
      <3>1. file[f].history = job[p].target /\ file[f].state # "none"
        BY <2>1, <2>4 DEF Listed, Live
      <3>2. MayGo(p, f)
        BY <2>4, <3>1 DEF MayGo
      <3> QED
        BY <2>1, <3>1, <3>2, ReasonStays
    <2>5. CASE job[p].op = "cleanup"
      <3>1. /\ file[f].history = job[p].target /\ file[f].state # "none"
            /\ job[p].target \in Histories /\ history[job[p].target].expires <= clock
        BY <1>0, <2>1, <2>5 DEF Listed, Live, JobFits, OwnsHistory
      <3>2. /\ file[f].history # Nothing /\ file[f].workflow = Nothing
            /\ file[f].expires # Never /\ file[f].expires <= clock
        BY <3>1, CloudFilesAssumption DEF HolderDecides
      <3>3. MayGo(p, f)
        BY <3>2 DEF MayGo
      <3> QED
        BY <2>1, <3>1, <3>3, ReasonStays
    <2> QED
      BY <2>2, <2>3, <2>4, <2>5 DEF OwnsHistory
  <1>6. CASE StartsSweep(p)
    <2>1. Expired(f) /\ file' = file
      BY <1>0, <1>6 DEF StartsSweep, Moves
    <2>2. /\ file[f].expires # Never /\ file[f].expires <= clock /\ file[f].state # "none"
          /\ file[f].expires \in Int /\ clock \in Int /\ clock' \in Int
      BY <1>0, <2>1, CounterSteps, CloudFilesAssumption
      DEF Expired, Live, TypeOK, Rows, Times, Never
    <2>3. file'[f].expires # Never /\ file'[f].expires <= clock'
      BY <2>1, <2>2, CounterSteps
    <2> QED
      BY <2>1, <2>2, <2>3 DEF MayGo
  <1> QED
    BY <1>0, <1>2, <1>3, <1>4, <1>5, <1>6
    DEF Does, Rests, Binds, ReadsMedia, Inserts, ListsWorkflow, ListsHistory, ListsExpired,
        Batches, Forgets, Moves

\* A step stores, binds, marks or leaves a row.
LEMMA RowChange ==
    ASSUME TypeOK, JobsFit, Next, NEW f \in Files
    PROVE  \/ file'[f] = file[f]
           \/ /\ file[f].state = "none" /\ f \in objects'
              /\ file'[f].state = "live" /\ file'[f].workflow = Nothing
           \/ /\ Live(f) /\ file'[f].state = "live" /\ objects' = objects
              /\ Purging(f) => <<f, "raced">> \in mishaps'
           \/ \E p \in Processes : /\ pc[p] = "mark" /\ job[p].at = f
                                   /\ file'[f] = [file[f] EXCEPT !.state = "deleted"]
                                   /\ objects' = objects
  <1>1. ASSUME NEW w, NEW h, NEW t, Bound(f, w, h, t)
        PROVE  /\ Live(f) /\ file'[f].state = "live" /\ objects' = objects
               /\ Purging(f) => <<f, "raced">> \in mishaps'
    BY <1>1 DEF Bound
  <1>2. \/ file'[f] = file[f]
        \/ /\ file[f].state = "none" /\ f \in objects'
           /\ file'[f].state = "live" /\ file'[f].workflow = Nothing
        \/ \E w, h, t : Bound(f, w, h, t)
        \/ \E p \in Processes : /\ pc[p] = "mark" /\ job[p].at = f
                                /\ file'[f] = [file[f] EXCEPT !.state = "deleted"]
                                /\ objects' = objects
    BY FileChange
  <1> QED
    BY <1>1, <1>2

LEMMA ObjectFirstStep ==
    ASSUME TypeOK, JobsFit, RowsKnown, HolderDecides, InHandMayGo, ObjectGoesFirst, Next
    PROVE  ObjectGoesFirst'
  <1>1. ASSUME NEW f \in Files, file'[f].state = "deleted"
        PROVE  f \notin objects'
    <2>1. CASE file'[f] = file[f]
      BY <1>1, <2>1, ObjectChange DEF ObjectGoesFirst
    <2>2. CASE \E p \in Processes : pc[p] = "mark" /\ job[p].at = f /\ objects' = objects
      BY <2>2 DEF ObjectGoesFirst
    <2> QED
      BY <1>1, <2>1, <2>2, RowChange
  <1>2. ASSUME NEW p \in Processes, pc'[p] = "mark"
        PROVE  job'[p].at \notin objects'
    <2>1. CASE Stays(p)
      <3>1. pc[p] = "mark" /\ job'[p].at = job[p].at /\ job[p].at \in Files
        BY <1>2, <2>1 DEF Stays, JobsFit, JobFits
      <3>2. file[job[p].at].state # "none" /\ job[p].at \notin objects
        BY <3>1 DEF InHandMayGo, InHand, ObjectGoesFirst
      <3> QED
        BY <3>1, <3>2, ObjectChange
    <2>2. CASE Removes(p)
      BY <2>2 DEF Removes
    <2> QED
      BY <1>2, <2>1, <2>2, ProcessChange
      DEF Does, Rests, Binds, ReadsMedia, Inserts, ListsWorkflow, ListsHistory,
          ListsExpired, Batches, StartsPurge, StartsSweep, Resumes, Forgets, Moves, GoesOn
  <1> QED
    BY <1>1, <1>2 DEF ObjectGoesFirst, Processes

LEMMA RowObjectStep ==
    ASSUME TypeOK, JobsFit, RowHasObject, Next
    PROVE  RowHasObject'
  <1> SUFFICES ASSUME NEW f \in Files, Live(f)', f \notin objects', ~Had(f, "unmarked")'
               PROVE  \E p \in Processes : pc'[p] = "mark" /\ job'[p].at = f
    BY DEF RowHasObject, Processes
  <1>0. ~Had(f, "unmarked")
    BY MishapSteps DEF Had, CreateWorkflow, BindWorkflowCloudFiles,
                       BindCloudFiles, FailDelete, Interrupt
  <1>1. ~(\E p \in Processes : /\ pc[p] = "mark" /\ job[p].at = f
                               /\ file' = [file EXCEPT ![f].state = "deleted"])
    BY DEF Live, TypeOK
  <1>4. Live(f)
    <2>1. file'[f].state = "live" /\ file[f] \in Rows /\ f \notin objects'
      BY DEF Live, TypeOK, Rows
    <2>2. file'[f] # [file[f] EXCEPT !.state = "deleted"]
      BY <2>1 DEF Rows
    <2> QED
      BY <2>1, <2>2, RowChange DEF Live
  <1>2. CASE f \notin objects
    <2>1. PICK p \in Processes : pc[p] = "mark" /\ job[p].at = f
      BY <1>0, <1>4, <1>2 DEF RowHasObject
    <2>2. Stays(p)
      BY <1>1, <2>1, ProcessChange DEF Does, Marked, Had
    <2> QED
      BY <2>1, <2>2 DEF Stays
  <1>3. CASE f \in objects
    <2>1. PICK q \in Processes : DeleteStoredFile(q)
      BY <1>3, FileSteps
      DEF StoreUserFile, CreateWorkflow, BindWorkflowCloudFiles, BindCloudFiles,
          MarkCloudFileDeleted
    <2>2. PICK g \in job[q].files :
              /\ objects' = objects \ {g}
              /\ Go(q, "mark", [job[q] EXCEPT !.files = @ \ {g}, !.at = g])
      BY <2>1 DEF DeleteStoredFile
    <2>3. g = f
      BY <1>3, <2>2
    <2>4. job[q] \in Jobs
      BY DEF TypeOK, Jobs
    <2> DEFINE j == [job[q] EXCEPT !.files = @ \ {g}, !.at = g]
    <2>5. j \in Jobs /\ j.at = g
      BY <2>2, <2>4 DEF Jobs
    <2>6. Go(q, "mark", j)
      BY <2>2
    <2> HIDE DEF j
    <2> QED
      BY <2>3, <2>5, <2>6, GoFrame DEF PCs
  <1> QED
    BY <1>2, <1>3

\* Nothing has a reason to delete a file bound to a workflow that exists.
LEMMA BoundMayNotGo ==
    ASSUME TypeOK, JobsFit, HolderDecides, InHandMayGo,
           NEW p \in Processes, NEW f \in Files, InHand(p, f),
           file[f].workflow # Nothing, workflow[file[f].workflow].state = "live",
           ~Had(f, "raced")
    PROVE  FALSE
  <1>1. file[f].state # "none" /\ MayGo(p, f) /\ JobFits(p)
    BY DEF InHandMayGo, JobsFit
  <1>2. file[f].expires = Never /\ file[f].history = Nothing
    BY <1>1 DEF HolderDecides
  <1>3. job[p].op \in {"history", "prune"} /\ job[p].target = Nothing
    BY <1>1, <1>2 DEF MayGo
  <1>4. job[p].target \in Histories
    BY <1>1, <1>3 DEF JobFits, InHand, OwnsHistory
  <1> QED
    BY <1>3, <1>4, CloudFilesAssumption

LEMMA BoundStayStep ==
    ASSUME TypeOK, JobsFit, RowsKnown, HolderDecides, InHandMayGo, RowHasObject,
           BoundFilesStay, Next
    PROVE  BoundFilesStay'
  <1> SUFFICES ASSUME NEW f \in Files, file'[f].workflow # Nothing,
                      workflow'[file'[f].workflow].state = "live",
                      ~Had(f, "raced")', ~Had(f, "unmarked")'
               PROVE  file'[f].state = "live" /\ f \in objects'
    BY DEF BoundFilesStay, Live
  <1>0. ~Had(f, "raced") /\ ~Had(f, "unmarked") /\ file[f] \in Rows
    BY MishapSteps DEF Had, CreateWorkflow, BindWorkflowCloudFiles,
                       BindCloudFiles, FailDelete, Interrupt, TypeOK, Rows
  <1>1. ASSUME file'[f].workflow = file[f].workflow
        PROVE  /\ file[f].state = "live" /\ f \in objects
               /\ \A p \in Processes : ~InHand(p, f)
    <2>1. file[f].workflow \in Workflows /\ workflow[file[f].workflow].state # "none"
      BY <1>0, <1>1 DEF Rows, RowsKnown
    <2>2. workflow[file[f].workflow].state = "live"
      BY <1>1, <2>1, WorkflowsStay DEF TypeOK
    <2>3. file[f].state = "live" /\ f \in objects
      BY <1>0, <1>1, <2>2 DEF BoundFilesStay, Live
    <2> QED
      BY <1>0, <1>1, <2>2, <2>3, BoundMayNotGo
  <1>2. CASE file'[f] = file[f]
    BY <1>1, <1>2, ObjectChange DEF InHand
  <1>3. CASE \E p \in Processes : /\ pc[p] = "mark" /\ job[p].at = f
                                  /\ file'[f] = [file[f] EXCEPT !.state = "deleted"]
    BY <1>0, <1>1, <1>3 DEF InHand, Rows
  <1>4. CASE /\ Live(f) /\ file'[f].state = "live" /\ objects' = objects
             /\ Purging(f) => <<f, "raced">> \in mishaps'
    BY <1>0, <1>4 DEF RowHasObject, Purging, Had
  <1> QED
    BY <1>2, <1>3, <1>4, RowChange

\* A request that deletes a workflow goes on with its files, or leaves a trace.
LEMMA PursuitGoesOn ==
    ASSUME TypeOK, JobsFit, Next, NEW p \in Processes, NEW f \in Files,
           Live(f), Live(f)', Pursues(p, f, file[f].workflow), ~Had(f, "leaked")'
    PROVE  Pursues(p, f, file[f].workflow)'  \/ file'[f].workflow # file[f].workflow
  <1> DEFINE w == file[f].workflow
             Goes == /\ job'[p].op = "workflow" /\ job'[p].target = w
                     /\ \/ pc'[p] = "list"
                        \/ pc'[p] = "purge" /\ f \in job'[p].files
                        \/ pc'[p] = "mark" /\ f \in job'[p].files \cup {job'[p].at}
  <1>0. /\ job[p] \in Jobs /\ JobFits(p) /\ job[p].op = "workflow" /\ job[p].target = w
        /\ pc[p] \in {"list", "purge", "mark"} /\ file \in [Files -> Rows]
        /\ p # Sweeper \/ pc[p] \notin {"idle", "batch"}
    BY DEF TypeOK, JobsFit, Pursues, Jobs, Rows
  <1>1. SUFFICES Goes
    BY DEF Pursues
  <1>2. ASSUME Stays(p) PROVE Goes
    BY <1>2 DEF Stays, Pursues
  <1>3. ASSUME NEW j \in Jobs, Continue(p, j), j.op = "workflow", j.target = w, f \in j.files
        PROVE  Goes
    <2>1. Go(p, "purge", [j EXCEPT !.at = Nothing])
      BY <1>3 DEF Continue
    <2>2. pc'[p] = "purge" /\ job'[p] = [j EXCEPT !.at = Nothing]
      BY <2>1 DEF Go, TypeOK
    <2> QED
      BY <1>3, <2>2 DEF Jobs
  <1>4. CASE ListFiles(p)
    <2> DEFINE S == {g \in Files : Live(g) /\ IF job[p].op = "workflow"
                                              THEN file[g].workflow = job[p].target
                                              ELSE file[g].history = job[p].target}
               j == [job[p] EXCEPT !.files = S]
    <2>1. Continue(p, j)
      BY <1>4 DEF ListFiles
    <2>2. f \in S /\ S \in SUBSET Files
      BY <1>0
    <2> HIDE DEF S
    <2>3. j \in Jobs /\ j.op = "workflow" /\ j.target = w /\ j.files = S
      BY <1>0, <2>2 DEF Jobs
    <2> HIDE DEF j
    <2> QED
      BY <1>3, <2>1, <2>2, <2>3
  <1>5. CASE DeleteStoredFile(p)
    <2>1. PICK g \in job[p].files : Go(p, "mark", [job[p] EXCEPT !.files = @ \ {g}, !.at = g])
      BY <1>5 DEF DeleteStoredFile
    <2>2. /\ pc'[p] = "mark" /\ job'[p].op = job[p].op /\ job'[p].target = job[p].target
          /\ job'[p].files = job[p].files \ {g} /\ job'[p].at = g
      BY <1>0, <2>1 DEF Go, TypeOK, Jobs
    <2>3. f \in job[p].files
      BY <1>5 DEF DeleteStoredFile, Pursues
    <2> QED
      BY <1>0, <2>2, <2>3
  <1>6. CASE MarkCloudFileDeleted(p)
    <2>1. Continue(p, job[p]) /\ file' = [file EXCEPT ![job[p].at].state = "deleted"] /\ pc[p] = "mark"
      BY <1>6 DEF MarkCloudFileDeleted
    <2>2. job[p].at # f
      BY <1>0, <2>1 DEF Live, Rows
    <2>3. f \in job[p].files
      BY <2>1, <2>2 DEF Pursues
    <2> QED
      BY <1>0, <1>3, <2>1, <2>3
  <1>7. CASE FailDelete(p) \/ Interrupt(p)
    <2> DEFINE lost == IF pc[p] = "mark" THEN {job[p].at} ELSE {}
               unlisted == {g \in Files : Live(g) /\ file[g].workflow = job[p].target}
    <2>1. CASE FailDelete(p)
      <3>1. Marks(job[p].files \cup lost, "leaked") \subseteq mishaps' /\ pc[p] \in {"purge", "mark"}
        BY <1>0, <2>1 DEF FailDelete
      <3>2. f \in job[p].files \cup lost
        BY <3>1 DEF Pursues
      <3> QED
        BY <3>1, <3>2 DEF Marks, Had
    <2>2. CASE Interrupt(p)
      <3>1. Marks(lost \cup IF pc[p] = "list" THEN unlisted ELSE job[p].files, "leaked") \subseteq mishaps'
        BY <1>0, <2>2 DEF Interrupt
      <3>2. f \in lost \cup IF pc[p] = "list" THEN unlisted ELSE job[p].files
        BY <1>0 DEF Pursues
      <3> QED
        BY <3>1, <3>2 DEF Marks, Had
    <2> QED
      BY <1>7, <2>1, <2>2
  <1>8. ASSUME NEW q \in Processes, q # p,
               ListFiles(q) \/ DeleteStoredFile(q) \/ MarkCloudFileDeleted(q)
               \/ DeleteGenerationHistory(q) \/ FailDelete(q) \/ Interrupt(q)
        PROVE  Stays(p)
    BY <1>8 DEF ListFiles, DeleteStoredFile, MarkCloudFileDeleted, DeleteGenerationHistory,
                FailDelete, Interrupt, Continue, Finish, Stop, Go, Stays, TypeOK
  <1>9. ~DeleteGenerationHistory(p)
    BY <1>0 DEF DeleteGenerationHistory
  <1>10. ASSUME NEW r \in Requests, Begin(r) \/ Resume(r)
         PROVE  Stays(p)
    <2>1. pc[r] \in {"idle", "bind", "insert", "attach"}
      BY <1>10 DEF Begin, Resume, UpdateWorkflow, DeleteWorkflow, ReadMedia, DeleteHistory,
                   PruneHistory, BindWorkflowCloudFiles, SaveGenerationHistory, BindCloudFiles
    <2>2. r # p
      BY <1>0, <2>1
    <2>3. \E n, j : Go(r, n, j)
      BY <1>10 DEF Begin, Resume, UpdateWorkflow, DeleteWorkflow, ReadMedia, DeleteHistory,
                   PruneHistory, BindWorkflowCloudFiles, SaveGenerationHistory, BindCloudFiles, Stop
    <2> QED
      BY <2>2, <2>3 DEF Go, Stays, TypeOK
  <1>11. ASSUME Sweep
         PROVE  Stays(p)
    <2>1. pc[Sweeper] \in {"idle", "batch"}
      BY <1>11 DEF Sweep, Wake, NextHistory, ListExpiredCloudFiles
    <2>2. p # Sweeper
      BY <1>0, <2>1
    <2>3. \E n, j : Go(Sweeper, n, j)
      BY <1>11 DEF Sweep, Wake, NextHistory, ListExpiredCloudFiles, Continue, Finish, Stop
    <2> QED
      BY <2>2, <2>3 DEF Go, Stays, TypeOK
  <1>12. ASSUME \/ \E g \in Files : StoreUserFile(g)
                \/ \E v \in Workflows : CreateWorkflow(v)
                \/ Tick
         PROVE  Stays(p)
    BY <1>12 DEF StoreUserFile, CreateWorkflow, Tick, Stays
  <1> QED
    BY <1>2, <1>4, <1>5, <1>6, <1>7, <1>8, <1>9, <1>10, <1>11, <1>12 DEF Next, Purge

\* A file that is bound to a deleted workflow is so too late.
LEMMA BoundLate ==
    ASSUME TypeOK, JobsFit, Next, NEW f \in Files,
           file'[f].workflow # file[f].workflow, file'[f].workflow # Nothing,
           workflow'[file'[f].workflow].state = "deleted"
    PROVE  Had(f, "late")'
  <1>0. file \in [Files -> Rows]
    BY DEF TypeOK, Rows
  <1>1. ASSUME NEW g \in Files, StoreUserFile(g) PROVE FALSE
    BY <1>0, <1>1 DEF StoreUserFile, Nothing
  <1>2. ASSUME NEW w \in Workflows, CreateWorkflow(w) PROVE FALSE
    <2>1. PICK S \in SUBSET Citable :
              /\ workflow' = [workflow EXCEPT ![w] = [state |-> "live", cites |-> S]]
              /\ Bind(S, w, Nothing, Never)
      BY <1>2 DEF CreateWorkflow
    <2>2. file'[f].workflow = w
      BY <1>0, <2>1 DEF Bind
    <2> QED
      BY <2>1, <2>2 DEF TypeOK
  <1>3. ASSUME NEW r \in Requests, BindWorkflowCloudFiles(r) PROVE Had(f, "late")'
    <2> DEFINE S == job[r].files
               w == job[r].target
    <2>1. /\ Bind(S, w, Nothing, Never) /\ mishaps' = mishaps \cup Disturbed(S, w)
          /\ workflow' = workflow
      BY <1>3 DEF BindWorkflowCloudFiles
    <2>2. w \in Workflows
      BY <1>3 DEF BindWorkflowCloudFiles, JobsFit, JobFits, Processes
    <2>3. file'[f].workflow = w /\ f \in S /\ Live(f)
      BY <1>0, <2>1 DEF Bind
    <2> QED
      BY <2>1, <2>2, <2>3 DEF Disturbed, Marks, Had
  <1>4. ASSUME NEW r \in Requests, BindCloudFiles(r) PROVE FALSE
    BY <1>0, <1>4 DEF BindCloudFiles, Bind
  <1>5. ASSUME NEW p \in Processes, DeleteStoredFile(p) PROVE FALSE
    BY <1>5 DEF DeleteStoredFile
  <1>6. ASSUME NEW p \in Processes, MarkCloudFileDeleted(p) PROVE FALSE
    BY <1>0, <1>6 DEF MarkCloudFileDeleted, Rows
  <1> QED
    BY <1>1, <1>2, <1>3, <1>4, <1>5, <1>6, FileSteps

LEMMA PursuitStep ==
    ASSUME TypeOK, JobsFit, OwnerPursues, RowsKnown, Next
    PROVE  OwnerPursues'
  <1> SUFFICES ASSUME NEW f \in Files, Live(f)', file'[f].workflow # Nothing,
                      workflow'[file'[f].workflow].state = "deleted",
                      ~Had(f, "late")', ~Had(f, "leaked")'
               PROVE  \E p \in Processes : Pursues(p, f, file[f].workflow)'
    BY DEF OwnerPursues
  <1>1. file'[f].workflow = file[f].workflow
    BY BoundLate
  <1> DEFINE w == file[f].workflow
  <1>2. /\ ~Had(f, "late") /\ ~Had(f, "leaked") /\ file[f] \in Rows
    BY MishapSteps DEF Had, CreateWorkflow, BindWorkflowCloudFiles,
                       BindCloudFiles, FailDelete, Interrupt, TypeOK, Rows
  <1>3. w \in Workflows
    BY <1>1, <1>2 DEF Rows
  <1>4. Live(f)
    <2>1. file[f].state # "none"
      BY <1>1 DEF RowsKnown, NoFile
    <2>2. file[f].state # "deleted"
      <3>1. ASSUME file[f].state = "deleted" PROVE file'[f].state # "live"
        BY <1>2, <3>1, RowChange DEF Live, Rows
      <3> QED
        BY <3>1 DEF Live
    <2> QED
      BY <1>2, <2>1, <2>2 DEF Live, Rows
  <1>5. CASE workflow[w].state = "deleted"
    <2>1. PICK p \in Processes : Pursues(p, f, w)
      BY <1>1, <1>2, <1>4, <1>5 DEF OwnerPursues
    <2> QED
      BY <1>1, <1>4, <2>1, PursuitGoesOn
  <1>6. CASE workflow[w].state # "deleted"
    <2>1. workflow'[w].state # workflow[w].state
      BY <1>1, <1>6
    <2>2. ~\E v \in Workflows : CreateWorkflow(v)
      BY <1>1, <1>3, <2>1 DEF CreateWorkflow, TypeOK
    <2>3. ~\E r \in Requests, v \in Workflows : UpdateWorkflow(r, v)
      <3>1. SUFFICES ASSUME NEW r \in Requests, NEW v \in Workflows, UpdateWorkflow(r, v)
                     PROVE  FALSE
        OBVIOUS
      <3>2. PICK S \in SUBSET Citable : workflow' = [workflow EXCEPT ![v].cites = S]
        BY <3>1 DEF UpdateWorkflow
      <3>3. workflow'[w] = IF w = v THEN [workflow[w] EXCEPT !.cites = S] ELSE workflow[w]
        BY <1>3, <3>2 DEF TypeOK
      <3>4. workflow'[w].state = workflow[w].state
        BY <1>3, <3>3 DEF TypeOK
      <3> QED
        BY <2>1, <3>4
    <2>4. PICK r \in Requests, v \in Workflows : DeleteWorkflow(r, v)
      BY <2>1, <2>2, <2>3, WorkflowSteps
    <2>5. v = w
      BY <1>3, <2>1, <2>4 DEF DeleteWorkflow, TypeOK
    <2>6. pc'[r] = "list" /\ job'[r] = [NoJob EXCEPT !.op = "workflow", !.target = w] /\ r \in Processes
      BY <2>4, <2>5 DEF DeleteWorkflow, Go, TypeOK, Processes
    <2> QED
      BY <1>1, <2>6 DEF Pursues, NoJob
  <1> QED
    BY <1>5, <1>6

-----------------------------------------------------------------------------
(* The theorems *)

LEMMA InvariantHolds == Spec => []IInv
  <1>1. Init => IInv
    BY TypeInit, CloudFilesAssumption
    DEF Init, IInv, JobsFit, JobFits, OneInsertEach, RowsKnown, Inserted, HolderDecides,
        InHandMayGo, InHand, ObjectGoesFirst, BoundFilesStay, RowHasObject, OwnerPursues, Live,
        NoFile, NoJob, NoHistory, Nothing, Processes, OwnsHistory
  <1>2. ASSUME IInv, Next
        PROVE  IInv'
    BY <1>2, TypeStep, JobsStep, OneInsertStep, InsertedStep, RowsStep, InHandStep,
       ObjectFirstStep, RowObjectStep, BoundStayStep, PursuitStep DEF IInv
  <1>3. ASSUME IInv, UNCHANGED vars
        PROVE  IInv'
    BY <1>3 DEF vars, IInv, TypeOK, JobsFit, JobFits, OneInsertEach, RowsKnown, Inserted,
        HolderDecides, InHandMayGo, InHand, MayGo, Had, ObjectGoesFirst, BoundFilesStay,
        RowHasObject, OwnerPursues, Pursues, Live
  <1> QED
    BY <1>1, <1>2, <1>3, PTL DEF Spec

\* Every variable stays in its domain.
THEOREM FilesTyped == Spec => []TypeOK
  BY InvariantHolds, PTL DEF IInv

\* A file bound to a workflow that exists keeps its row and its object.
THEOREM BoundFilesKept == Spec => []BoundFilesStay
  BY InvariantHolds, PTL DEF IInv

\* A readable row has its object, but while it is being deleted.
THEOREM RowsHaveObjects == Spec => []RowHasObject
  BY InvariantHolds, PTL DEF IInv

\* A workflow's files are permanent, a history's expire with it.
THEOREM HolderSetsLifetime == Spec => []LifetimeFollowsHolder
  <1>1. IInv => LifetimeFollowsHolder
    BY DEF IInv, HolderDecides, LifetimeFollowsHolder, Live
  <1> QED
    BY <1>1, InvariantHolds, PTL

\* A permanent file whose workflow is deleted is in the hands of a request that deletes
\* it, unless it was bound too late or that request gave up (DeleteWorkflow and
\* deleteStoredFile in workflow.go and cloud_storage.go).
THEOREM NoFileLeaks == Spec => []NothingLeaks
  <1>1. IInv => NothingLeaks
    BY DEF IInv, OwnerPursues, Pursues, NothingLeaks
  <1> QED
    BY <1>1, InvariantHolds, PTL

\* No object is removed that is still wanted.
THEOREM DeletionsJustified == Spec => DeletionHasReason
  <1> DEFINE Reasons == \A f \in objects \ objects' :
        \/ Had(f, "raced")
        \/ Expired(f)
        \/ file[f].workflow # Nothing /\ workflow[file[f].workflow].state = "deleted"
        \/ \E p \in Processes : /\ job[p].op \in {"history", "prune"}
                                /\ job[p].target = file[f].history
  <1>1. ASSUME IInv, Next
        PROVE  Reasons
    <2> SUFFICES ASSUME NEW f \in objects \ objects'
                 PROVE  \/ Had(f, "raced")
                        \/ Expired(f)
                        \/ /\ file[f].workflow # Nothing
                           /\ workflow[file[f].workflow].state = "deleted"
                        \/ \E p \in Processes : /\ job[p].op \in {"history", "prune"}
                                                /\ job[p].target = file[f].history
      OBVIOUS
    <2>1. f \in Files
      BY <1>1 DEF IInv, TypeOK
    <2>2. PICK p \in Processes : pc[p] = "purge" /\ f \in job[p].files
      BY <1>1, <2>1, ObjectChange DEF IInv
    <2>3. file[f].state # "none" /\ MayGo(p, f)
      BY <1>1, <2>1, <2>2 DEF IInv, InHandMayGo, InHand
    <2>4. file[f].state = "live"
      BY <1>1, <2>1, <2>3 DEF IInv, ObjectGoesFirst, TypeOK
    <2> QED
      BY <2>3, <2>4 DEF MayGo, Expired, Live
  <1>2. IInv /\ [Next]_vars => [Reasons]_vars
    BY <1>1
  <1> QED
    BY <1>2, InvariantHolds, PTL DEF Spec, DeletionHasReason
=============================================================================
