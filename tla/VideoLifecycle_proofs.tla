----------------------- MODULE VideoLifecycle_proofs -----------------------
(***************************************************************************)
(* Proofs about VideoLifecycle for every set of calls, jobs and updates    *)
(* and every retry bound: type correctness, the safety properties, and     *)
(* that it implements VideoPublication.                                    *)
(*                                                                         *)
(* The invariant is IInv.  TypeStep proves its type part, SafeStep the     *)
(* rest, with one step for each action.                                    *)
(***************************************************************************)
EXTENDS VideoLifecycle, TLAPS

-----------------------------------------------------------------------------
(* The initial states satisfy the inductive invariant. *)
LEMMA InitInv == Init => IInv
<1>. SUFFICES ASSUME Init PROVE IInv
  OBVIOUS
<1>1. TypeOK
  BY LifecycleAssumption DEF Init, TypeOK, VideoRow, InfoRow, UploadStatus, MetaStatus, RowStatus,
     Visibility, Objects, CompleteCall, UpdateCall, RemoveCall, Job, Run, IdleRun, Message
<1>2. SafeInv
  BY LifecycleAssumption
  DEF Init, SafeInv, AbsentInv, CompleteInv, QueueInv, RunInv, PathInv, AnswerInv,
      PublishedIsReady, JobFollowsWrites, GoneForAReason, DeletedLeavesNoRow, Present, IdleRun
<1>. QED
  BY <1>1, <1>2 DEF IInv

(* Every step keeps the types; the counters of a job stay in their ranges
   because only an active job is retried or stalls (QueueInv). *)
LEMMA TypeStep == TypeOK /\ QueueInv /\ [Next]_vars => TypeOK'
<1>. USE LifecycleAssumption DEF TypeOK, rows, calls
<1>. SUFFICES ASSUME TypeOK, QueueInv, [Next]_vars PROVE TypeOK'
  OBVIOUS
<1>1. CASE InitUpload
  BY <1>1 DEF InitUpload, VideoRow
<1>2. CASE PutObject
  BY <1>2 DEF PutObject, Objects, PrivatePart
<1>3. ASSUME NEW c \in Jobs, CompleteCheck(c)
      PROVE  TypeOK'
  BY <1>3 DEF CompleteCheck, CompleteCall
<1>4. ASSUME NEW c \in Jobs, CompleteExists(c)
      PROVE  TypeOK'
  BY <1>4 DEF CompleteExists, CompleteCall
<1>5. ASSUME NEW c \in Jobs, CompleteCreateRow(c)
      PROVE  TypeOK'
  BY <1>5 DEF CompleteCreateRow, CompleteCall, RowStatus
<1>6. ASSUME NEW c \in Jobs, CompleteMark(c)
      PROVE  TypeOK'
  BY <1>6 DEF CompleteMark, CompleteCall, InfoRow, UploadStatus
<1>7. ASSUME NEW c \in Jobs, CompleteEnqueue(c)
      PROVE  TypeOK'
  BY <1>7 DEF CompleteEnqueue, CompleteCall, Job
<1>8. ASSUME NEW c \in Jobs, Pick(c)
      PROVE  TypeOK'
  BY <1>8 DEF Pick, Job, Run
<1>9. ASSUME NEW c \in Jobs, Transcode(c)
      PROVE  TypeOK'
  BY <1>9 DEF Transcode, Run, SetStage
<1>10. ASSUME NEW c \in Jobs, NEW a \in Artifacts, UploadArtifact(c, a)
      PROVE  TypeOK'
  <2>1. store' \in SUBSET Objects
    BY <1>10 DEF UploadArtifact, Artifacts, Objects, PrivatePart, PublicPart
  <2>2. run' \in [Jobs -> Run]
    BY <1>10 DEF UploadArtifact, Run
  <2>. QED
    BY <1>10, <2>1, <2>2 DEF UploadArtifact
<1>11. ASSUME NEW c \in Jobs, Commit(c)
      PROVE  TypeOK'
  <2>1. info' \in InfoRow /\ video' \in VideoRow
    BY <1>11 DEF Commit, InfoRow, UploadStatus, VideoRow
  <2>2. vproc' \in [Jobs -> RowStatus]
    BY <1>11 DEF Commit, RowStatus
  <2>3. run' \in [Jobs -> Run]
    BY <1>11 DEF Commit, Run
  <2>. QED
    BY <1>11, <2>1, <2>2, <2>3 DEF Commit
<1>12. ASSUME NEW c \in Jobs, Publish(c)
      PROVE  TypeOK'
  BY <1>12 DEF Publish, Run, SetStage, VideoRow, Visibility
<1>13. ASSUME NEW c \in Jobs, NoPublish(c)
      PROVE  TypeOK'
  BY <1>13 DEF NoPublish, Run, SetStage
<1>14. ASSUME NEW c \in Jobs, RecordFailure(c)
      PROVE  TypeOK'
  BY <1>14 DEF RecordFailure, Run, SetStage, InfoRow, UploadStatus, RowStatus
<1>15. ASSUME NEW c \in Jobs, Ack(c)
      PROVE  TypeOK'
  BY <1>15 DEF Ack, Job, Run, IdleRun
<1>16. ASSUME NEW c \in Jobs, Nack(c)
      PROVE  TypeOK'
  <2>1. job[c] \in Job /\ job' \in [Jobs -> Job]
    BY <1>16 DEF Nack, Job, QueueInv
  <2>2. run' \in [Jobs -> Run]
    BY <1>16 DEF Nack, Run, IdleRun
  <2>. QED
    BY <1>16, <2>1, <2>2 DEF Nack
<1>17. ASSUME NEW u \in Updates, NEW v \in {"PRIVATE", "PUBLIC", video.visibility}, NEW b \in BOOLEAN, UpdateFind(u, v, b)
      PROVE  TypeOK'
  <2>1. v \in Visibility
    BY <1>17 DEF TypeOK, VideoRow, Visibility
  <2>2. QED
    BY <1>17, <2>1 DEF UpdateFind, UpdateCall, Visibility
<1>18. ASSUME NEW u \in Updates, UpdateRow(u)
      PROVE  TypeOK'
  BY <1>18 DEF UpdateRow, UpdateCall, VideoRow
<1>19. ASSUME NEW u \in Updates, UpdateInfo(u)
      PROVE  TypeOK'
  <2>1. info' \in InfoRow
    BY <1>19 DEF UpdateInfo, InfoRow, MetaStatus
  <2>2. update' \in [Updates -> UpdateCall]
    <3>1. PICK p \in {"sending", "done"}, l \in SUBSET {"row", "publish"} :
            update' = [update EXCEPT ![u] = [update[u] EXCEPT !.pc = p, !.left = l]]
      BY <1>19 DEF UpdateInfo
    <3>2. [update[u] EXCEPT !.pc = p, !.left = l] \in UpdateCall
      BY DEF UpdateCall
    <3>. QED
      BY <3>1, <3>2
  <2>. QED
    BY <1>19, <2>1, <2>2 DEF UpdateInfo
<1>20. ASSUME NEW u \in Updates, SendRow(u)
      PROVE  TypeOK'
  BY <1>20 DEF SendRow, UpdateCall, RowStatus
<1>21. ASSUME NEW u \in Updates, SendMessage(u)
      PROVE  TypeOK'
  BY <1>21 DEF SendMessage, UpdateCall, Message
<1>22. ASSUME NEW u \in Updates, NEW o \in {"succeeded", "failed"}, Answer(u, o)
      PROVE  TypeOK'
  BY <1>22 DEF Answer, Message
<1>23. ASSUME NEW u \in Updates, NEW g \in BOOLEAN, HandleAnswer(u, g)
      PROVE  TypeOK'
  BY <1>23 DEF HandleAnswer, Message, RowStatus, InfoRow, MetaStatus
<1>24. ASSUME NEW d \in Deletes, DeleteFind(d)
      PROVE  TypeOK'
  BY <1>24 DEF DeleteFind, RemoveCall
<1>25. ASSUME NEW d \in Deletes, NEW p \in {"private", "public"}, DeleteDirectory(d, p)
      PROVE  TypeOK'
  BY <1>25 DEF DeleteDirectory, RemoveCall
<1>26. ASSUME NEW d \in Deletes, DeleteRow(d)
      PROVE  TypeOK'
  BY <1>26 DEF DeleteRow, RemoveCall, VideoRow, RowStatus
<1>27. ASSUME NEW c \in Jobs, NEW w \in {"row", "mark"}, CompleteWriteFails(c, w)
      PROVE  TypeOK'
  BY <1>27 DEF CompleteWriteFails, CompleteCall
<1>28. ASSUME NEW c \in Jobs, CompleteEnqueueFails(c)
      PROVE  TypeOK'
  BY <1>28 DEF CompleteEnqueueFails, CompleteCall
<1>29. ASSUME NEW c \in Jobs, TranscodeFails(c)
      PROVE  TypeOK'
  BY <1>29 DEF TranscodeFails, Run, SetStage, Artifacts, Objects, PrivatePart, PublicPart
<1>30. ASSUME NEW c \in Jobs, CommitFails(c)
      PROVE  TypeOK'
  BY <1>30 DEF CommitFails, Run, SetStage
<1>31. ASSUME NEW c \in Jobs, PublishFails(c)
      PROVE  TypeOK'
  BY <1>31 DEF PublishFails, Run, SetStage
<1>32. ASSUME NEW c \in Jobs, RecordFailureFails(c)
      PROVE  TypeOK'
  BY <1>32 DEF RecordFailureFails, Run, SetStage
<1>33. ASSUME NEW c \in Jobs, ProgressFails(c)
      PROVE  TypeOK'
  BY <1>33 DEF ProgressFails, Run, SetStage
<1>34. ASSUME NEW c \in Jobs, WorkerCrash(c)
      PROVE  TypeOK'
  <2>1. job[c] \in Job /\ job' \in [Jobs -> Job]
    BY <1>34 DEF WorkerCrash, Job, QueueInv
  <2>2. run' \in [Jobs -> Run]
    BY <1>34 DEF WorkerCrash, Run, IdleRun
  <2>. QED
    BY <1>34, <2>1, <2>2 DEF WorkerCrash
<1>35. ASSUME NEW u \in Updates, UpdateFails(u)
      PROVE  TypeOK'
  BY <1>35 DEF UpdateFails, UpdateCall
<1>36. ASSUME NEW u \in Updates, NEW s \in {"row", "publish"}, SendFails(u, s)
      PROVE  TypeOK'
  BY <1>36 DEF SendFails, UpdateCall
<1>37. ASSUME NEW d \in Deletes, NEW q \in {"private", "public", "row"}, DeleteFails(d, q)
      PROVE  TypeOK'
  BY <1>37 DEF DeleteFails, RemoveCall
<1>38. CASE UNCHANGED vars
  BY <1>38 DEF vars
<1>. HIDE DEF TypeOK
<1>. QED
  BY <1>1, <1>2, <1>3, <1>4, <1>5, <1>6, <1>7, <1>8, <1>9, <1>10, <1>11, <1>12,
     <1>13, <1>14, <1>15, <1>16, <1>17, <1>18, <1>19, <1>20, <1>21, <1>22,
     <1>23, <1>24, <1>25, <1>26, <1>27, <1>28, <1>29, <1>30, <1>31, <1>32,
     <1>33, <1>34, <1>35, <1>36, <1>37, <1>38
  DEF Next, Healthy, Fault, CompleteStep, WorkStep, UpdateStep, DeleteStep, WorkFault

(* One artifact more is in the store, and a run that reaches "commit" has
   uploaded both. *)
LEMMA UploadSafe ==
  ASSUME IInv, NEW c \in Jobs, NEW a \in Artifacts, UploadArtifact(c, a)
  PROVE  SafeInv'
<1>. USE DEF IInv
<1>1. /\ UNCHANGED <<video, info, vproc, mproc, complete, update, remove, job, message>>
      /\ store' = store \cup {a}
      /\ run[c].stage = "upload"
  BY DEF UploadArtifact, rows, calls
<1>2. /\ \A j \in Jobs \ {c} : run'[j] = run[j]
      /\ run'[c].left = run[c].left \ {a}
      /\ run'[c].stage = IF run[c].left = {a} THEN "commit" ELSE "upload"
  BY DEF UploadArtifact, TypeOK, Run
<1>3. AbsentInv' /\ CompleteInv' /\ AnswerInv'
  BY <1>1 DEF SafeInv, AbsentInv, CompleteInv, AnswerInv, Present, Described
<1>4. PublishedIsReady' /\ JobFollowsWrites' /\ GoneForAReason' /\ DeletedLeavesNoRow'
  BY <1>1 DEF SafeInv, PublishedIsReady, JobFollowsWrites, GoneForAReason, DeletedLeavesNoRow,
              Present, Described
<1>5. QueueInv'
  BY <1>1, <1>2 DEF SafeInv, QueueInv
<1>6. RunInv'
  BY <1>1, <1>2 DEF SafeInv, RunInv, Untouched, Present, Described, Artifacts
<1>7. PathInv'
  BY <1>1 DEF SafeInv, PathInv, Present, Untouched
<1>. QED
  BY <1>3, <1>4, <1>5, <1>6, <1>7 DEF SafeInv

(* The transaction writes the paths with the COMPLETED row, and what it saw of
   the metadata is what the worker will publish on. *)
LEMMA CommitSafe ==
  ASSUME IInv, NEW c \in Jobs, Commit(c)
  PROVE  SafeInv'
<1>. USE DEF IInv
<1>1. /\ UNCHANGED <<mproc, store, complete, update, remove, job, message>>
      /\ Present /\ Present' /\ video'.path /\ video'.status = video.status
      /\ info'.videoStatus = "PROCESSED" /\ info'.metaStatus = info.metaStatus
      /\ vproc'[c] = "COMPLETED" /\ \A j \in Jobs \ {c} : vproc'[j] = vproc[j]
  BY DEF Commit, calls, TypeOK, VideoRow, InfoRow, Present
<1>2. /\ \A j \in Jobs \ {c} : run'[j] = run[j]
      /\ run[c].stage = "commit" /\ run'[c].stage = "trigger"
      /\ run'[c].meta => Described
  <2>1. run'[c].meta = (info.metaStatus = "PROCESSED")
    BY DEF Commit, TypeOK
  <2>2. Present /\ info.metaStatus = "PROCESSED" => Described
    BY DEF SafeInv, AnswerInv
  <2>. QED
    BY <1>1, <2>1, <2>2 DEF Commit, TypeOK, Run
<1>3. AbsentInv' /\ CompleteInv' /\ AnswerInv'
  BY <1>1 DEF SafeInv, AbsentInv, CompleteInv, AnswerInv, Present, Described
<1>4. PublishedIsReady' /\ JobFollowsWrites' /\ GoneForAReason' /\ DeletedLeavesNoRow'
  BY <1>1 DEF SafeInv, PublishedIsReady, JobFollowsWrites, GoneForAReason, DeletedLeavesNoRow,
              Present, Described
<1>5. QueueInv'
  BY <1>1, <1>2 DEF SafeInv, QueueInv
<1>6. RunInv'
  BY <1>1, <1>2 DEF SafeInv, RunInv, Untouched, Present, Described
<1>7. PathInv'
  BY <1>1, <1>2 DEF SafeInv, PathInv, RunInv, Present, Untouched
<1>. QED
  BY <1>3, <1>4, <1>5, <1>6, <1>7 DEF SafeInv

(* Every step keeps the rest of the inductive invariant. *)
LEMMA SafeStep == IInv /\ TypeOK' /\ [Next]_vars => SafeInv'
<1>. USE LifecycleAssumption
     DEF IInv, TypeOK, SafeInv, AbsentInv, CompleteInv, QueueInv, RunInv, PathInv, AnswerInv,
         PublishedIsReady, JobFollowsWrites, GoneForAReason, DeletedLeavesNoRow,
         VideoRow, InfoRow, Artifacts, PrivatePart, PublicPart, Objects, CompleteCall,
         UpdateCall, RemoveCall, Job, Run, Message, Present, IdleRun, Untouched, Described,
         SetStage, rows, calls
<1>. SUFFICES ASSUME IInv, TypeOK', [Next]_vars PROVE SafeInv'
  OBVIOUS
<1>1. CASE InitUpload
  <2>1. \A j \in Jobs : complete[j].pc = "idle" /\ job[j].state = "none" /\ run[j].stage = "idle"
    BY <1>1 DEF InitUpload
  <2>2. RunInv'
    BY <1>1, <2>1 DEF InitUpload
  <2>3. CompleteInv' /\ QueueInv' /\ JobFollowsWrites' /\ GoneForAReason'
    BY <1>1, <2>1 DEF InitUpload
  <2>4. AbsentInv' /\ PathInv' /\ AnswerInv' /\ PublishedIsReady' /\ DeletedLeavesNoRow'
    BY <1>1 DEF InitUpload
  <2>. QED
    BY <2>2, <2>3, <2>4
<1>2. CASE PutObject
  BY <1>2 DEF PutObject
<1>3. ASSUME NEW c \in Jobs, CompleteCheck(c)
      PROVE  SafeInv'
  BY <1>3 DEF CompleteCheck
<1>4. ASSUME NEW c \in Jobs, CompleteExists(c)
      PROVE  SafeInv'
  BY <1>4 DEF CompleteExists
<1>5. ASSUME NEW c \in Jobs, CompleteCreateRow(c)
      PROVE  SafeInv'
  BY <1>5 DEF CompleteCreateRow
<1>6. ASSUME NEW c \in Jobs, CompleteMark(c)
      PROVE  SafeInv'
  BY <1>6 DEF CompleteMark
<1>7. ASSUME NEW c \in Jobs, CompleteEnqueue(c)
      PROVE  SafeInv'
  BY <1>7 DEF CompleteEnqueue
<1>8. ASSUME NEW c \in Jobs, Pick(c)
      PROVE  SafeInv'
  BY <1>8 DEF Pick
<1>9. ASSUME NEW c \in Jobs, Transcode(c)
      PROVE  SafeInv'
  BY <1>9 DEF Transcode
<1>10. ASSUME NEW c \in Jobs, NEW a \in Artifacts, UploadArtifact(c, a)
      PROVE  SafeInv'
  BY <1>10, UploadSafe DEF IInv
<1>11. ASSUME NEW c \in Jobs, Commit(c)
      PROVE  SafeInv'
  BY <1>11, CommitSafe DEF IInv
<1>12. ASSUME NEW c \in Jobs, Publish(c)
      PROVE  SafeInv'
  BY <1>12 DEF Publish
<1>13. ASSUME NEW c \in Jobs, NoPublish(c)
      PROVE  SafeInv'
  BY <1>13 DEF NoPublish
<1>14. ASSUME NEW c \in Jobs, RecordFailure(c)
      PROVE  SafeInv'
  BY <1>14 DEF RecordFailure
<1>15. ASSUME NEW c \in Jobs, Ack(c)
      PROVE  SafeInv'
  BY <1>15 DEF Ack
<1>16. ASSUME NEW c \in Jobs, Nack(c)
      PROVE  SafeInv'
  <2>1. QueueInv'
    BY <1>16 DEF Nack
  <2>2. RunInv' /\ CompleteInv'
    BY <1>16 DEF Nack
  <2>3. JobFollowsWrites' /\ GoneForAReason'
    BY <1>16 DEF Nack
  <2>4. AbsentInv' /\ PathInv' /\ AnswerInv' /\ PublishedIsReady' /\ DeletedLeavesNoRow'
    BY <1>16 DEF Nack
  <2>. QED
    BY <2>1, <2>2, <2>3, <2>4 DEF SafeInv
<1>17. ASSUME NEW u \in Updates, NEW v \in {"PRIVATE", "PUBLIC", video.visibility}, NEW b \in BOOLEAN, UpdateFind(u, v, b)
      PROVE  SafeInv'
  BY <1>17 DEF UpdateFind
<1>18. ASSUME NEW u \in Updates, UpdateRow(u)
      PROVE  SafeInv'
  BY <1>18 DEF UpdateRow
<1>19. ASSUME NEW u \in Updates, UpdateInfo(u)
      PROVE  SafeInv'
  BY <1>19 DEF UpdateInfo
<1>20. ASSUME NEW u \in Updates, SendRow(u)
      PROVE  SafeInv'
  BY <1>20 DEF SendRow
<1>21. ASSUME NEW u \in Updates, SendMessage(u)
      PROVE  SafeInv'
  BY <1>21 DEF SendMessage
<1>22. ASSUME NEW u \in Updates, NEW o \in {"succeeded", "failed"}, Answer(u, o)
      PROVE  SafeInv'
  BY <1>22 DEF Answer
<1>23. ASSUME NEW u \in Updates, NEW g \in BOOLEAN, HandleAnswer(u, g)
      PROVE  SafeInv'
  BY <1>23 DEF HandleAnswer
<1>24. ASSUME NEW d \in Deletes, DeleteFind(d)
      PROVE  SafeInv'
  BY <1>24 DEF DeleteFind
<1>25. ASSUME NEW d \in Deletes, NEW p \in {"private", "public"}, DeleteDirectory(d, p)
      PROVE  SafeInv'
  BY <1>25 DEF DeleteDirectory
<1>26. ASSUME NEW d \in Deletes, DeleteRow(d)
      PROVE  SafeInv'
  BY <1>26 DEF DeleteRow
<1>27. ASSUME NEW c \in Jobs, NEW w \in {"row", "mark"}, CompleteWriteFails(c, w)
      PROVE  SafeInv'
  BY <1>27 DEF CompleteWriteFails
<1>28. ASSUME NEW c \in Jobs, CompleteEnqueueFails(c)
      PROVE  SafeInv'
  BY <1>28 DEF CompleteEnqueueFails
<1>29. ASSUME NEW c \in Jobs, TranscodeFails(c)
      PROVE  SafeInv'
  BY <1>29 DEF TranscodeFails
<1>30. ASSUME NEW c \in Jobs, CommitFails(c)
      PROVE  SafeInv'
  BY <1>30 DEF CommitFails
<1>31. ASSUME NEW c \in Jobs, PublishFails(c)
      PROVE  SafeInv'
  BY <1>31 DEF PublishFails
<1>32. ASSUME NEW c \in Jobs, RecordFailureFails(c)
      PROVE  SafeInv'
  BY <1>32 DEF RecordFailureFails
<1>33. ASSUME NEW c \in Jobs, ProgressFails(c)
      PROVE  SafeInv'
  BY <1>33 DEF ProgressFails
<1>34. ASSUME NEW c \in Jobs, WorkerCrash(c)
      PROVE  SafeInv'
  <2>1. QueueInv'
    BY <1>34 DEF WorkerCrash
  <2>2. RunInv' /\ CompleteInv'
    BY <1>34 DEF WorkerCrash
  <2>3. JobFollowsWrites' /\ GoneForAReason'
    BY <1>34 DEF WorkerCrash
  <2>4. AbsentInv' /\ PathInv' /\ AnswerInv' /\ PublishedIsReady' /\ DeletedLeavesNoRow'
    BY <1>34 DEF WorkerCrash
  <2>. QED
    BY <2>1, <2>2, <2>3, <2>4 DEF SafeInv
<1>35. ASSUME NEW u \in Updates, UpdateFails(u)
      PROVE  SafeInv'
  BY <1>35 DEF UpdateFails
<1>36. ASSUME NEW u \in Updates, NEW s \in {"row", "publish"}, SendFails(u, s)
      PROVE  SafeInv'
  BY <1>36 DEF SendFails
<1>37. ASSUME NEW d \in Deletes, NEW q \in {"private", "public", "row"}, DeleteFails(d, q)
      PROVE  SafeInv'
  BY <1>37 DEF DeleteFails
<1>38. CASE UNCHANGED vars
  BY <1>38 DEF vars
<1>. HIDE DEF AbsentInv, CompleteInv, QueueInv, RunInv, PathInv, AnswerInv, PublishedIsReady,
       JobFollowsWrites, GoneForAReason, DeletedLeavesNoRow, SafeInv, IInv, TypeOK
<1>. QED
  BY <1>1, <1>2, <1>3, <1>4, <1>5, <1>6, <1>7, <1>8, <1>9, <1>10, <1>11, <1>12,
     <1>13, <1>14, <1>15, <1>16, <1>17, <1>18, <1>19, <1>20, <1>21, <1>22,
     <1>23, <1>24, <1>25, <1>26, <1>27, <1>28, <1>29, <1>30, <1>31, <1>32,
     <1>33, <1>34, <1>35, <1>36, <1>37, <1>38
  DEF Next, Healthy, Fault, CompleteStep, WorkStep, UpdateStep, DeleteStep, WorkFault

(* IInv is an invariant of the specification. *)
LEMMA Invariance == Spec => []IInv
<1>1. IInv /\ [Next]_vars => IInv'
  BY TypeStep, SafeStep DEF IInv, SafeInv
<1>. QED
  BY InitInv, <1>1, PTL DEF Spec

-----------------------------------------------------------------------------
(* Every reachable state is well typed: in particular no job is tried more
   than MaxAttempts times, nor stalls more than once after its last chance. *)
THEOREM TypeCorrect == Spec => []TypeOK
<1>1. IInv => TypeOK
  BY DEF IInv
<1>. QED
  BY Invariance, <1>1, PTL

(* triggerVideoStatus only publishes what has been transcoded and described. *)
THEOREM PublicationSafe == Spec => []PublishedIsReady
<1>1. IInv => PublishedIsReady
  BY DEF IInv, SafeInv
<1>. QED
  BY Invariance, <1>1, PTL

(* A COMPLETED row keeps standing for stored artifacts and written paths,
   through retries, crashes, concurrent jobs of one upload, and failures. *)
THEOREM CompletionSafe == Spec => []CompletedIsPlayable
<1>1. IInv => CompletedIsPlayable
  BY DEF IInv, SafeInv, PathInv, CompletedIsPlayable
<1>. QED
  BY Invariance, <1>1, PTL

(* The queue only holds jobs whose rows were written before. *)
THEOREM QueueSafe == Spec => []JobFollowsWrites
<1>1. IInv => JobFollowsWrites
  BY DEF IInv, SafeInv
<1>. QED
  BY Invariance, <1>1, PTL

(* The queue gives up a job of a video that is there only when the job is
   done, or has used its attempts or its stalls. *)
THEOREM NoJobIsLost == Spec => []GoneForAReason
<1>1. IInv => GoneForAReason
  BY DEF IInv, SafeInv
<1>. QED
  BY Invariance, <1>1, PTL

(* A deleted video has no rows, whatever was in flight when it was deleted. *)
THEOREM DeletionSafe == Spec => []DeletedLeavesNoRow
<1>1. IInv => DeletedLeavesNoRow
  BY DEF IInv, SafeInv
<1>. QED
  BY Invariance, <1>1, PTL

(* A row gets its outcome from its job, which was queued before. *)
LEMMA OutcomeStep ==
  ASSUME IInv, OwedInv, [Next]_vars,
         NEW c \in Jobs, vproc'[c] \notin {"none", "PROCESSING"}
  PROVE  job'[c].state # "none"
<1>. USE DEF IInv, TypeOK
<1>1. CASE vproc[c] \notin {"none", "PROCESSING"}
  <2>1. job[c].state # "none"
    BY <1>1 DEF OwedInv
  <2>2. CASE UNCHANGED job
    BY <2>1, <2>2
  <2>3. ASSUME NEW j \in Jobs, CompleteEnqueue(j) \/ Pick(j) \/ Ack(j) \/ Nack(j) \/ WorkerCrash(j)
        PROVE  job'[c].state # "none"
    BY <2>1, <2>3 DEF CompleteEnqueue, Pick, Ack, Nack, WorkerCrash, Job
  <2>4. ASSUME \A j \in Jobs : ~ (CompleteEnqueue(j) \/ Pick(j) \/ Ack(j) \/ Nack(j) \/ WorkerCrash(j))
        PROVE  UNCHANGED job
    BY <2>4 DEF Next, Healthy, Fault, CompleteStep, WorkStep, UpdateStep, DeleteStep, WorkFault,
       InitUpload, PutObject, CompleteCheck, CompleteExists, CompleteCreateRow, CompleteMark,
       CompleteWriteFails, CompleteEnqueueFails, Transcode, UploadArtifact, TranscodeFails,
       Commit, CommitFails, Publish, NoPublish, PublishFails, RecordFailure, RecordFailureFails,
       ProgressFails, UpdateFind, UpdateRow, UpdateInfo, UpdateFails, SendRow, SendMessage,
       SendFails, Answer, HandleAnswer, DeleteFind, DeleteDirectory, DeleteRow, DeleteFails, vars
  <2>. QED
    BY <2>2, <2>3, <2>4
<1>2. CASE vproc[c] \in {"none", "PROCESSING"}
  <2>1. ASSUME NEW j \in Jobs, Commit(j) \/ RecordFailure(j)
        PROVE  job'[c].state # "none"
    <3>1. j = c /\ run[j].stage # "idle" /\ job' = job
      BY <1>2, <2>1 DEF Commit, RecordFailure
    <3>2. job[j].state = "active"
      BY <3>1 DEF SafeInv, QueueInv
    <3>. QED
      BY <3>1, <3>2
  <2>2. ASSUME \A j \in Jobs : ~ (Commit(j) \/ RecordFailure(j))
        PROVE  FALSE
    <3>1. ASSUME NEW j \in Jobs, CompleteCreateRow(j) PROVE FALSE
      BY <1>2, <3>1 DEF CompleteCreateRow
    <3>2. ASSUME NEW d \in Deletes, DeleteRow(d) PROVE FALSE
      BY <3>2 DEF DeleteRow
    <3>3. ASSUME \A j \in Jobs : ~ CompleteCreateRow(j), \A d \in Deletes : ~ DeleteRow(d)
          PROVE  UNCHANGED vproc
      BY <2>2, <3>3 DEF Next, Healthy, Fault, CompleteStep, WorkStep, UpdateStep, DeleteStep,
         WorkFault, InitUpload, PutObject, CompleteCheck, CompleteExists, CompleteMark,
         CompleteEnqueue, CompleteWriteFails, CompleteEnqueueFails, Pick, Transcode, Ack, Nack,
         UploadArtifact, TranscodeFails, CommitFails, Publish, NoPublish, PublishFails,
         RecordFailureFails, ProgressFails, WorkerCrash, UpdateFind, UpdateRow, UpdateInfo,
         UpdateFails, SendRow, SendMessage, SendFails, Answer, HandleAnswer, DeleteFind,
         DeleteDirectory, DeleteFails, rows, vars
    <3>. QED
      BY <1>2, <3>1, <3>2, <3>3
  <2>. QED
    BY <2>1, <2>2
<1>. QED
  BY <1>1, <1>2

(* A mark is owed by its call, and the job that follows takes the debt away
   together with UPLOADED. *)
LEMMA OwedStep == IInv /\ OwedInv /\ [Next]_vars => OwedInv'
<1>. SUFFICES ASSUME IInv, OwedInv, [Next]_vars PROVE OwedInv'
  OBVIOUS
<1>. DEFINE Marks == \A c \in Jobs :
                       "mark" \in complete[c].left => complete[c].pc \in {"writing", "done"}
            Absent == video.row = "absent" => info.videoStatus = "PENDING"
            Goal == Marks' /\ Absent' /\ UploadedIsOwed'
<1>. USE DEF UploadedIsOwed, Present, IInv, TypeOK, rows, calls
<1>1. \A c \in Jobs : vproc'[c] \notin {"none", "PROCESSING"} => job'[c].state # "none"
  BY OutcomeStep
<1>2. ASSUME InitUpload PROVE Goal
  BY <1>2 DEF InitUpload, OwedInv
<1>3. ASSUME NEW c \in Jobs, CompleteCheck(c) PROVE Goal
  BY <1>3 DEF CompleteCheck, OwedInv, CompleteCall
<1>4. ASSUME NEW c \in Jobs, CompleteExists(c) PROVE Goal
  BY <1>4 DEF CompleteExists, OwedInv, CompleteCall
<1>5. ASSUME NEW c \in Jobs, CompleteCreateRow(c) PROVE Goal
  BY <1>5 DEF CompleteCreateRow, OwedInv, CompleteCall
<1>6. ASSUME NEW c \in Jobs, CompleteMark(c) PROVE Goal
  <2>1. /\ video.row = "present" /\ "mark" \in complete[c].left
        /\ UNCHANGED <<video, vproc>>
        /\ \A k \in Jobs \ {c} : complete'[k] = complete[k]
        /\ complete'[c].pc = complete[c].pc
        /\ complete'[c].left = complete[c].left \ {"mark"}
    BY <1>6 DEF CompleteMark, CompleteCall
  <2>2. vproc[c] \in {"none", "PROCESSING"}
    <3>1. job[c].state = "none"
      BY <2>1 DEF SafeInv, CompleteInv
    <3>. QED
      BY <3>1 DEF OwedInv
  <2>3. complete[c].pc \in {"writing", "done"}
    BY <2>1 DEF OwedInv
  <2>4. Marks' /\ Absent'
    BY <2>1 DEF OwedInv
  <2>5. UploadedIsOwed'
    BY <2>1, <2>2, <2>3
  <2>. QED
    BY <2>4, <2>5
<1>7. ASSUME NEW c \in Jobs, CompleteEnqueue(c) \/ CompleteEnqueueFails(c) PROVE Goal
  <2>1. /\ UNCHANGED <<video, info, vproc>>
        /\ \A k \in Jobs \ {c} : complete'[k] = complete[k]
        /\ complete[c].pc = "writing" /\ complete'[c].pc = "done"
        /\ complete'[c].left = complete[c].left
    BY <1>7 DEF CompleteEnqueue, CompleteEnqueueFails, CompleteCall
  <2>. QED
    BY <2>1 DEF OwedInv
<1>8. ASSUME NEW c \in Jobs, NEW w \in {"row", "mark"}, CompleteWriteFails(c, w) PROVE Goal
  BY <1>8 DEF CompleteWriteFails, OwedInv, CompleteCall
<1>9. ASSUME NEW c \in Jobs, Commit(c) \/ RecordFailure(c) PROVE Goal
  <2>1. /\ info'.videoStatus # "UPLOADED" /\ UNCHANGED complete
        /\ video.row = "present" /\ video'.row = "present"
    BY <1>9 DEF Commit, RecordFailure, InfoRow, VideoRow
  <2>. QED
    BY <2>1 DEF OwedInv
<1>10. ASSUME NEW u \in Updates, NEW g \in BOOLEAN, UpdateInfo(u) \/ HandleAnswer(u, g)
       PROVE  Goal
  <2>1. info'.videoStatus = info.videoStatus /\ UNCHANGED <<video, vproc, complete>>
    BY <1>10 DEF UpdateInfo, HandleAnswer, InfoRow
  <2>. QED
    BY <2>1 DEF OwedInv
<1>11. ASSUME NEW d \in Deletes, DeleteRow(d) PROVE Goal
  BY <1>11 DEF DeleteRow, VideoRow, OwedInv
<1>12. ASSUME NEW c \in Jobs, Publish(c) PROVE Goal
  BY <1>12 DEF Publish, VideoRow, OwedInv
<1>13. ASSUME NEW u \in Updates, UpdateRow(u) PROVE Goal
  BY <1>13 DEF UpdateRow, VideoRow, OwedInv
<1>14. ASSUME UNCHANGED <<video, info, vproc, complete>> PROVE Goal
  BY <1>14 DEF OwedInv
<1>15. ASSUME NEW c \in Jobs, Pick(c) \/ WorkStep(c) PROVE Goal
  BY <1>9, <1>12, <1>14, <1>15
  DEF Pick, WorkStep, Transcode, UploadArtifact, NoPublish, Ack, Nack
<1>16. ASSUME NEW c \in Jobs, WorkFault(c) \/ WorkerCrash(c) PROVE Goal
  BY <1>14, <1>16 DEF WorkFault, TranscodeFails, CommitFails, PublishFails, RecordFailureFails,
    ProgressFails, WorkerCrash
<1>17. ASSUME NEW u \in Updates, UpdateStep(u) \/ UpdateFails(u) PROVE Goal
  BY <1>10, <1>13, <1>14, <1>17 DEF UpdateStep, SendRow, SendMessage, UpdateFails
<1>18. ASSUME NEW u \in Updates, NEW v \in {"PRIVATE", "PUBLIC", video.visibility},
              NEW b \in BOOLEAN, UpdateFind(u, v, b)
       PROVE  Goal
  BY <1>14, <1>18 DEF UpdateFind
<1>19. ASSUME NEW u \in Updates, NEW s \in {"row", "publish"}, SendFails(u, s) PROVE Goal
  BY <1>14, <1>19 DEF SendFails
<1>20. ASSUME NEW u \in Updates, NEW o \in {"succeeded", "failed"}, Answer(u, o) PROVE Goal
  BY <1>14, <1>20 DEF Answer
<1>21. ASSUME NEW d \in Deletes, DeleteFind(d) \/ DeleteStep(d) PROVE Goal
  BY <1>11, <1>14, <1>21 DEF DeleteFind, DeleteStep, DeleteDirectory
<1>22. ASSUME NEW d \in Deletes, NEW p \in {"private", "public", "row"}, DeleteFails(d, p)
       PROVE  Goal
  BY <1>14, <1>22 DEF DeleteFails
<1>23. ASSUME PutObject \/ UNCHANGED vars PROVE Goal
  BY <1>14, <1>23 DEF PutObject, vars
<1>. HIDE DEF Goal, UploadedIsOwed, Present, IInv, TypeOK
<1>24. ASSUME Healthy PROVE Goal
  BY <1>24, <1>2, <1>3, <1>4, <1>5, <1>6, <1>7, <1>10, <1>15, <1>17, <1>18, <1>20, <1>21, <1>23
  DEF Healthy, CompleteStep
<1>25. ASSUME Fault PROVE Goal
  BY <1>25, <1>7, <1>8, <1>10, <1>16, <1>17, <1>19, <1>20, <1>22 DEF Fault
<1>26. Goal
  BY <1>23, <1>24, <1>25 DEF Next
<1>. QED
  BY <1>1, <1>26 DEF OwedInv, Goal

(* While an upload reads UPLOADED, a call that wrote it is still at work or
   its row is open: a mark that lands late is never that of a job which has
   committed.  IInv says nothing of what gives a row its outcome; OwedInv does. *)
THEOREM UploadedSafe == Spec => []UploadedIsOwed
<1>1. Init => OwedInv
  BY DEF Init, OwedInv, UploadedIsOwed
<1>2. OwedInv => UploadedIsOwed
  BY DEF OwedInv
<1>. QED
  BY <1>1, <1>2, OwedStep, Invariance, PTL DEF Spec
-----------------------------------------------------------------------------
(* The initial state of the life cycle is that of the publication. *)
LEMMA RefineInit == Init => Publication!PubInit
  BY DEF Init, Publication!PubInit, Present

(* Every step of the life cycle is a step of the publication, or none. *)
LEMMA RefineStep == IInv /\ [Next]_vars => [Publication!PubNext]_(Publication!pvars)
<1>. USE DEF IInv, TypeOK, Present, Described, SetStage, rows, calls
<1>. SUFFICES ASSUME IInv, [Next]_vars PROVE [Publication!PubNext]_(Publication!pvars)
  OBVIOUS
<1>1. CASE InitUpload
  <2>1. ~ video.path /\ video.status = "NULL" /\ ~ Described
    BY <1>1 DEF InitUpload, SafeInv, AbsentInv, DeletedLeavesNoRow
  <2>2. Publication!Create
    BY <1>1, <2>1 DEF InitUpload, Publication!Create
  <2>. QED
    BY <2>2 DEF Publication!PubNext
<1>2. CASE PutObject
  BY <1>2 DEF PutObject, Publication!pvars
<1>3. ASSUME NEW c \in Jobs, CompleteCheck(c)
      PROVE  [Publication!PubNext]_(Publication!pvars)
  BY <1>3 DEF CompleteCheck, Publication!pvars
<1>4. ASSUME NEW c \in Jobs, CompleteExists(c)
      PROVE  [Publication!PubNext]_(Publication!pvars)
  BY <1>4 DEF CompleteExists, Publication!pvars
<1>5. ASSUME NEW c \in Jobs, CompleteCreateRow(c)
      PROVE  [Publication!PubNext]_(Publication!pvars)
  BY <1>5 DEF CompleteCreateRow, Publication!pvars
<1>6. ASSUME NEW c \in Jobs, CompleteMark(c)
      PROVE  [Publication!PubNext]_(Publication!pvars)
  BY <1>6 DEF CompleteMark, Publication!pvars
<1>7. ASSUME NEW c \in Jobs, CompleteEnqueue(c)
      PROVE  [Publication!PubNext]_(Publication!pvars)
  BY <1>7 DEF CompleteEnqueue, Publication!pvars
<1>8. ASSUME NEW c \in Jobs, Pick(c)
      PROVE  [Publication!PubNext]_(Publication!pvars)
  BY <1>8 DEF Pick, Publication!pvars
<1>9. ASSUME NEW c \in Jobs, Transcode(c)
      PROVE  [Publication!PubNext]_(Publication!pvars)
  BY <1>9 DEF Transcode, Publication!pvars
<1>10. ASSUME NEW c \in Jobs, NEW a \in Artifacts, UploadArtifact(c, a)
      PROVE  [Publication!PubNext]_(Publication!pvars)
  BY <1>10 DEF UploadArtifact, Publication!pvars
<1>11. ASSUME NEW c \in Jobs, Commit(c)
      PROVE  [Publication!PubNext]_(Publication!pvars)
  <2>1. Publication!Render
    BY <1>11 DEF Commit, Publication!Render, VideoRow
  <2>. QED
    BY <2>1 DEF Publication!PubNext
<1>12. ASSUME NEW c \in Jobs, Publish(c)
      PROVE  [Publication!PubNext]_(Publication!pvars)
  <2>1. video.path /\ Described
    BY <1>12 DEF Publish, SafeInv, RunInv, PathInv
  <2>2. Publication!Announce
    BY <1>12, <2>1 DEF Publish, Publication!Announce, VideoRow
  <2>. QED
    BY <2>2 DEF Publication!PubNext
<1>13. ASSUME NEW c \in Jobs, NoPublish(c)
      PROVE  [Publication!PubNext]_(Publication!pvars)
  BY <1>13 DEF NoPublish, Publication!pvars
<1>14. ASSUME NEW c \in Jobs, RecordFailure(c)
      PROVE  [Publication!PubNext]_(Publication!pvars)
  BY <1>14 DEF RecordFailure, Publication!pvars
<1>15. ASSUME NEW c \in Jobs, Ack(c)
      PROVE  [Publication!PubNext]_(Publication!pvars)
  BY <1>15 DEF Ack, Publication!pvars
<1>16. ASSUME NEW c \in Jobs, Nack(c)
      PROVE  [Publication!PubNext]_(Publication!pvars)
  BY <1>16 DEF Nack, Publication!pvars
<1>17. ASSUME NEW u \in Updates, NEW v \in {"PRIVATE", "PUBLIC", video.visibility}, NEW b \in BOOLEAN, UpdateFind(u, v, b)
      PROVE  [Publication!PubNext]_(Publication!pvars)
  BY <1>17 DEF UpdateFind, Publication!pvars
<1>18. ASSUME NEW u \in Updates, UpdateRow(u)
      PROVE  [Publication!PubNext]_(Publication!pvars)
  BY <1>18 DEF UpdateRow, VideoRow, Publication!pvars
<1>19. ASSUME NEW u \in Updates, UpdateInfo(u)
      PROVE  [Publication!PubNext]_(Publication!pvars)
  BY <1>19 DEF UpdateInfo, Publication!pvars
<1>20. ASSUME NEW u \in Updates, SendRow(u)
      PROVE  [Publication!PubNext]_(Publication!pvars)
  <2>1. Described' = Described
    BY <1>20 DEF SendRow, SafeInv, AnswerInv
  <2>. QED
    BY <1>20, <2>1 DEF SendRow, Publication!pvars
<1>21. ASSUME NEW u \in Updates, SendMessage(u)
      PROVE  [Publication!PubNext]_(Publication!pvars)
  BY <1>21 DEF SendMessage, Publication!pvars
<1>22. ASSUME NEW u \in Updates, NEW o \in {"succeeded", "failed"}, Answer(u, o)
      PROVE  [Publication!PubNext]_(Publication!pvars)
  BY <1>22 DEF Answer, Publication!pvars
<1>23. ASSUME NEW u \in Updates, NEW g \in BOOLEAN, HandleAnswer(u, g)
      PROVE  [Publication!PubNext]_(Publication!pvars)
  <2>1. Present
    BY <1>23 DEF HandleAnswer, SafeInv, DeletedLeavesNoRow
  <2>2. CASE message[u] = "succeeded"
    <3>1. Described'
      BY <1>23, <2>2 DEF HandleAnswer
    <3>2. Publication!Describe
      BY <1>23, <2>1, <3>1 DEF HandleAnswer, Publication!Describe
    <3>. QED
      BY <3>2 DEF Publication!PubNext
  <2>3. CASE message[u] = "failed"
    <3>1. Described' = Described
      BY <1>23, <2>3 DEF HandleAnswer, SafeInv, AnswerInv
    <3>. QED
      BY <1>23, <3>1 DEF HandleAnswer, Publication!pvars
  <2>. QED
    BY <1>23, <2>2, <2>3 DEF HandleAnswer
<1>24. ASSUME NEW d \in Deletes, DeleteFind(d)
      PROVE  [Publication!PubNext]_(Publication!pvars)
  BY <1>24 DEF DeleteFind, Publication!pvars
<1>25. ASSUME NEW d \in Deletes, NEW p \in {"private", "public"}, DeleteDirectory(d, p)
      PROVE  [Publication!PubNext]_(Publication!pvars)
  BY <1>25 DEF DeleteDirectory, Publication!pvars
<1>26. ASSUME NEW d \in Deletes, DeleteRow(d)
      PROVE  [Publication!PubNext]_(Publication!pvars)
  <2>1. Publication!Delete
    BY <1>26 DEF DeleteRow, Publication!Delete, VideoRow
  <2>. QED
    BY <2>1 DEF Publication!PubNext
<1>27. ASSUME NEW c \in Jobs, NEW w \in {"row", "mark"}, CompleteWriteFails(c, w)
      PROVE  [Publication!PubNext]_(Publication!pvars)
  BY <1>27 DEF CompleteWriteFails, Publication!pvars
<1>28. ASSUME NEW c \in Jobs, CompleteEnqueueFails(c)
      PROVE  [Publication!PubNext]_(Publication!pvars)
  BY <1>28 DEF CompleteEnqueueFails, Publication!pvars
<1>29. ASSUME NEW c \in Jobs, TranscodeFails(c)
      PROVE  [Publication!PubNext]_(Publication!pvars)
  BY <1>29 DEF TranscodeFails, Publication!pvars
<1>30. ASSUME NEW c \in Jobs, CommitFails(c)
      PROVE  [Publication!PubNext]_(Publication!pvars)
  BY <1>30 DEF CommitFails, Publication!pvars
<1>31. ASSUME NEW c \in Jobs, PublishFails(c)
      PROVE  [Publication!PubNext]_(Publication!pvars)
  BY <1>31 DEF PublishFails, Publication!pvars
<1>32. ASSUME NEW c \in Jobs, RecordFailureFails(c)
      PROVE  [Publication!PubNext]_(Publication!pvars)
  BY <1>32 DEF RecordFailureFails, Publication!pvars
<1>33. ASSUME NEW c \in Jobs, ProgressFails(c)
      PROVE  [Publication!PubNext]_(Publication!pvars)
  BY <1>33 DEF ProgressFails, Publication!pvars
<1>34. ASSUME NEW c \in Jobs, WorkerCrash(c)
      PROVE  [Publication!PubNext]_(Publication!pvars)
  BY <1>34 DEF WorkerCrash, Publication!pvars
<1>35. ASSUME NEW u \in Updates, UpdateFails(u)
      PROVE  [Publication!PubNext]_(Publication!pvars)
  BY <1>35 DEF UpdateFails, Publication!pvars
<1>36. ASSUME NEW u \in Updates, NEW s \in {"row", "publish"}, SendFails(u, s)
      PROVE  [Publication!PubNext]_(Publication!pvars)
  BY <1>36 DEF SendFails, Publication!pvars
<1>37. ASSUME NEW d \in Deletes, NEW q \in {"private", "public", "row"}, DeleteFails(d, q)
      PROVE  [Publication!PubNext]_(Publication!pvars)
  BY <1>37 DEF DeleteFails, Publication!pvars
<1>38. CASE UNCHANGED vars
  BY <1>38 DEF vars, Publication!pvars
<1>. HIDE DEF IInv, TypeOK
<1>. QED
  BY <1>1, <1>2, <1>3, <1>4, <1>5, <1>6, <1>7, <1>8, <1>9, <1>10, <1>11, <1>12,
     <1>13, <1>14, <1>15, <1>16, <1>17, <1>18, <1>19, <1>20, <1>21, <1>22,
     <1>23, <1>24, <1>25, <1>26, <1>27, <1>28, <1>29, <1>30, <1>31, <1>32,
     <1>33, <1>34, <1>35, <1>36, <1>37, <1>38
  DEF Next, Healthy, Fault, CompleteStep, WorkStep, UpdateStep, DeleteStep, WorkFault

(* The life cycle implements what the service promises of a video. *)
THEOREM Implementation == Spec => ImplementsPublication
<1>. QED
  BY RefineInit, RefineStep, Invariance, PTL
  DEF Spec, ImplementsPublication, Publication!PubSpec

-----------------------------------------------------------------------------
(* The life cycle uses the search service through MetadataChannel: five
   actions are its steps, all others leave the messages and META rows alone. *)
LEMMA ChannelStep == IInv /\ [Next]_vars => [Channel!ChannelNext]_(Channel!cvars)
<1>. USE DEF rows, calls, SetStage, Channel!cvars
<1>. SUFFICES ASSUME IInv, [Next]_vars PROVE [Channel!ChannelNext]_(Channel!cvars)
  OBVIOUS
<1>1. ASSUME NEW u \in Updates, SendRow(u)
      PROVE  Channel!ChannelNext
  <2>1. mproc[u] = "none"
    BY <1>1 DEF SendRow, IInv, SafeInv, AnswerInv
  <2>2. Channel!CreateRow(u)
    BY <1>1, <2>1 DEF SendRow, Channel!CreateRow
  <2>. QED
    BY <2>2 DEF Channel!ChannelNext
<1>2. ASSUME NEW u \in Updates, SendMessage(u)
      PROVE  Channel!ChannelNext
  <2>1. message[u] = "none"
    BY <1>2 DEF SendMessage, IInv, SafeInv, AnswerInv
  <2>2. Channel!Send(u)
    BY <1>2, <2>1 DEF SendMessage, Channel!Send
  <2>. QED
    BY <2>2 DEF Channel!ChannelNext
<1>3. ASSUME NEW u \in Updates, NEW o \in {"succeeded", "failed"}, Answer(u, o)
      PROVE  Channel!ChannelNext
  <2>1. Channel!Reply(u, o)
    BY <1>3 DEF Answer, Channel!Reply
  <2>. QED
    BY <2>1 DEF Channel!ChannelNext
<1>4. ASSUME NEW u \in Updates, NEW g \in BOOLEAN, HandleAnswer(u, g)
      PROVE  Channel!ChannelNext
  <2>1. Channel!Settle(u)
    BY <1>4 DEF HandleAnswer, Channel!Settle
  <2>. QED
    BY <2>1 DEF Channel!ChannelNext
<1>5. ASSUME NEW d \in Deletes, DeleteRow(d)
      PROVE  Channel!ChannelNext
  <2>1. Channel!Cascade
    BY <1>5 DEF DeleteRow, Channel!Cascade
  <2>. QED
    BY <2>1 DEF Channel!ChannelNext
<1>6. ASSUME NEW c \in Jobs, CompleteStep(c) \/ Pick(c) \/ WorkStep(c)
      PROVE  UNCHANGED <<message, mproc>>
  BY <1>6 DEF CompleteStep, CompleteCheck, CompleteExists, CompleteCreateRow, CompleteMark,
    CompleteEnqueue, Pick, WorkStep, Transcode, UploadArtifact, Commit, Publish, NoPublish,
    RecordFailure, Ack, Nack
<1>7. ASSUME NEW c \in Jobs, WorkFault(c) \/ WorkerCrash(c) \/ CompleteEnqueueFails(c)
      PROVE  UNCHANGED <<message, mproc>>
  BY <1>7 DEF WorkFault, TranscodeFails, CommitFails, PublishFails, RecordFailureFails,
    ProgressFails, WorkerCrash, CompleteEnqueueFails
<1>8. ASSUME NEW c \in Jobs, NEW w \in {"row", "mark"}, CompleteWriteFails(c, w)
      PROVE  UNCHANGED <<message, mproc>>
  BY <1>8 DEF CompleteWriteFails
<1>9. ASSUME NEW u \in Updates, UpdateRow(u) \/ UpdateInfo(u) \/ UpdateFails(u)
      PROVE  UNCHANGED <<message, mproc>>
  BY <1>9 DEF UpdateRow, UpdateInfo, UpdateFails
<1>10. ASSUME NEW u \in Updates, NEW v \in {"PRIVATE", "PUBLIC", video.visibility},
              NEW b \in BOOLEAN, UpdateFind(u, v, b)
       PROVE  UNCHANGED <<message, mproc>>
  BY <1>10 DEF UpdateFind
<1>11. ASSUME NEW u \in Updates, NEW s \in {"row", "publish"}, SendFails(u, s)
       PROVE  UNCHANGED <<message, mproc>>
  BY <1>11 DEF SendFails
<1>12. ASSUME NEW d \in Deletes, NEW p \in {"private", "public", "row"},
              DeleteFind(d) \/ DeleteFails(d, p)
       PROVE  UNCHANGED <<message, mproc>>
  BY <1>12 DEF DeleteFind, DeleteFails
<1>13. ASSUME NEW d \in Deletes, NEW p \in {"private", "public"}, DeleteDirectory(d, p)
       PROVE  UNCHANGED <<message, mproc>>
  BY <1>13 DEF DeleteDirectory
<1>14. CASE InitUpload \/ PutObject \/ UNCHANGED vars
  BY <1>14 DEF InitUpload, PutObject, vars
<1>15. CASE Healthy
  BY <1>15, <1>1, <1>2, <1>3, <1>4, <1>5, <1>6, <1>9, <1>10, <1>12, <1>13, <1>14
  DEF Healthy, UpdateStep, DeleteStep
<1>16. CASE Fault
  BY <1>16, <1>3, <1>4, <1>7, <1>8, <1>9, <1>11, <1>12 DEF Fault
<1>. QED
  BY <1>14, <1>15, <1>16 DEF Next

(* Every behaviour of the life cycle follows the protocol that
   MetadataPipeline provides. *)
THEOREM ChannelUse == Spec => ImplementsChannel
<1>1. Init => Channel!ChannelInit
  BY DEF Init, Channel!ChannelInit
<1>. QED
  BY <1>1, ChannelStep, Invariance, PTL DEF Spec, ImplementsChannel, Channel!ChannelSpec
-----------------------------------------------------------------------------
(* What the retries cost.  Work(j) bounds the steps a job can still take; it
   is a number, positive while the job is in the queue. *)
LEMMA WorkIsNat ==
  ASSUME TypeOK, QueueInv, NEW j \in Jobs
  PROVE  /\ Work(j) \in Nat
         /\ StageWork(j) \in 2 .. 9
         /\ InQueue(j) => Chances(j) \in Nat /\ Work(j) > 0
<1>. USE LifecycleAssumption
<1>1. job[j] \in Job /\ run[j] \in Run
  BY DEF TypeOK
<1>2. StageWork(j) \in 2 .. 9
  <2>. DEFINE d == IF "dash" \in run[j].left THEN 1 ELSE 0
              t == IF "thumb" \in run[j].left THEN 1 ELSE 0
  <2>1. d \in 0 .. 1 /\ t \in 0 .. 1
    OBVIOUS
  <2>2. StageWork(j) = CASE run[j].stage = "idle"     -> 9
                         [] run[j].stage = "download" -> 8
                         [] run[j].stage = "upload"   -> 5 + d + t
                         [] run[j].stage = "commit"   -> 5
                         [] run[j].stage = "trigger"  -> 4
                         [] run[j].stage \in {"ack", "failing"} -> 3
                         [] run[j].stage = "nack"     -> 2
    BY DEF StageWork
  <2>3. run[j].stage \in {"idle", "download", "upload", "commit", "trigger",
                          "ack", "failing", "nack"}
    BY <1>1 DEF Run
  <2>. HIDE DEF d, t
  <2>. QED
    BY <2>1, <2>2, <2>3
<1>3. InQueue(j) => Chances(j) \in Nat
  BY <1>1 DEF InQueue, Chances, Job, QueueInv
<1>. QED
  BY <1>2, <1>3 DEF Work

(* The same in the next state. *)
LEMMA WorkIsNatNext == TypeOK' /\ QueueInv' => (\A j \in Jobs : StageWork(j) \in 2 .. 9)'
<1>1. TypeOK /\ QueueInv => \A j \in Jobs : StageWork(j) \in 2 .. 9
  <2>. SUFFICES ASSUME TypeOK, QueueInv, NEW j \in Jobs PROVE StageWork(j) \in 2 .. 9
    OBVIOUS
  <2>. QED
    BY WorkIsNat
<1>. QED
  BY <1>1, PTL

(* A step of one job that shrinks its work. *)
LEMMA OneJob ==
  ASSUME NEW c \in Jobs,
         \A j \in Jobs \ {c} : UNCHANGED <<job[j], run[j]>>,
         job[c].state # "gone",
         InQueue(c) => Work(c)' < Work(c)
  PROVE  WindsDown
<1>. SUFFICES ASSUME NEW j \in Jobs
              PROVE  /\ InQueue(j) => Work(j)' < Work(j) \/ UNCHANGED <<job[j], run[j]>>
                     /\ job[j].state = "gone" => UNCHANGED <<job[j], run[j]>>
  BY DEF WindsDown
<1>1. CASE j = c
  BY <1>1
<1>2. CASE j # c
  BY <1>2
<1>. QED
  BY <1>1, <1>2

(* An execution that goes on: the job is as before, its stage is a later one. *)
LEMMA StageOn ==
  ASSUME TypeOK, QueueInv, TypeOK', QueueInv', NEW c \in Jobs, NEW r,
         run[c].stage # "idle", job' = job, run' = [run EXCEPT ![c] = r],
         StageWork(c)' < StageWork(c)
  PROVE  WindsDown
<1>1. job[c].state = "active"
  BY DEF QueueInv
<1>2. InQueue(c) /\ InQueue(c)' /\ Chances(c)' = Chances(c)
  BY <1>1 DEF InQueue, Chances
<1>3. Work(c)' < Work(c)
  <2>1. Work(c) = 10 * Chances(c) + StageWork(c) /\ Work(c)' = 10 * Chances(c)' + StageWork(c)'
    BY <1>2 DEF Work
  <2>2. Chances(c) \in Nat /\ StageWork(c) \in 2 .. 9
    BY <1>2, WorkIsNat
  <2>3. StageWork(c)' \in 2 .. 9
    BY WorkIsNatNext
  <2>. QED
    BY <1>2, <2>1, <2>2, <2>3
<1>4. \A j \in Jobs \ {c} : UNCHANGED <<job[j], run[j]>>
  BY DEF TypeOK
<1>. QED
  BY <1>1, <1>3, <1>4, OneJob

(* Every step leaves a queued job alone or shrinks its work: an execution
   goes through its stages, a failed one costs an attempt, a crash a stall. *)
LEMMA WindStep == IInv /\ IInv' /\ [Next]_vars => WindsDown
<1>. USE LifecycleAssumption DEF rows, calls
<1>. SUFFICES ASSUME IInv, IInv', [Next]_vars PROVE WindsDown
  OBVIOUS
<1>0. TypeOK /\ QueueInv /\ CompleteInv /\ TypeOK' /\ QueueInv'
  BY DEF IInv, SafeInv
<1>1. UNCHANGED <<job, run>> => WindsDown
  BY DEF WindsDown
<1>2. ASSUME NEW c \in Jobs, CompleteEnqueue(c)
      PROVE  WindsDown
  <2>1. job[c].state = "none"
    BY <1>0, <1>2 DEF CompleteEnqueue, CompleteInv
  <2>2. \A j \in Jobs \ {c} : UNCHANGED <<job[j], run[j]>>
    BY <1>0, <1>2 DEF CompleteEnqueue, TypeOK
  <2>. QED
    BY <2>1, <2>2, OneJob DEF InQueue
<1>3. ASSUME NEW c \in Jobs, Pick(c)
      PROVE  WindsDown
  <2>1. InQueue(c) /\ InQueue(c)' /\ Chances(c)' = Chances(c)
    BY <1>0, <1>3 DEF Pick, InQueue, Chances, TypeOK, Job
  <2>2. StageWork(c) = 9 /\ StageWork(c)' = 8
    <3>1. run[c].stage = "idle" /\ run'[c].stage = "download"
      BY <1>0, <1>3 DEF Pick, QueueInv, TypeOK, Job, Run
    <3>. QED
      BY <3>1 DEF StageWork
  <2>3. Chances(c) \in Nat
    BY <1>0, <2>1, WorkIsNat
  <2>4. Work(c)' < Work(c)
    BY <2>1, <2>2, <2>3 DEF Work
  <2>5. \A j \in Jobs \ {c} : UNCHANGED <<job[j], run[j]>>
    BY <1>0, <1>3 DEF Pick, TypeOK
  <2>. QED
    BY <1>3, <2>4, <2>5, OneJob DEF Pick
<1>4. ASSUME NEW c \in Jobs, NEW s, SetStage(c, s), job' = job,
             \/ run[c].stage = "download" /\ s \in {"upload", "failing", "nack"}
             \/ run[c].stage = "upload" /\ s = "failing"
             \/ run[c].stage = "commit" /\ s = "failing"
             \/ run[c].stage = "trigger" /\ s = "ack"
             \/ run[c].stage \in {"ack", "failing"} /\ s = "nack"
      PROVE  WindsDown
  <2>1. run' = [run EXCEPT ![c] = [run[c] EXCEPT !.stage = s]] /\ run'[c].stage = s
    BY <1>0, <1>4 DEF SetStage, TypeOK, Run
  <2>2. StageWork(c)' < StageWork(c)
    <3>1. CASE run[c].stage = "download"
      BY <1>4, <2>1, <3>1 DEF StageWork
    <3>2. CASE run[c].stage = "upload"
      BY <1>4, <2>1, <3>2 DEF StageWork
    <3>3. CASE run[c].stage \in {"commit", "trigger", "ack", "failing"}
      BY <1>4, <2>1, <3>3 DEF StageWork
    <3>. QED
      BY <1>4, <3>1, <3>2, <3>3
  <2>. QED
    BY <1>0, <1>4, <2>1, <2>2, StageOn
<1>5. ASSUME NEW c \in Jobs, NEW a \in Artifacts, UploadArtifact(c, a)
      PROVE  WindsDown
  <2>. DEFINE left == run[c].left \ {a}
              r == [stage |-> IF left = {} THEN "commit" ELSE "upload",
                    left |-> left, meta |-> FALSE]
  <2>1. run[c].stage = "upload" /\ job' = job /\ run' = [run EXCEPT ![c] = r] /\ run'[c] = r
    BY <1>0, <1>5 DEF UploadArtifact, TypeOK
  <2>2. a \in run[c].left /\ run[c].left \subseteq Artifacts
    BY <1>0, <1>5 DEF UploadArtifact, TypeOK, Run
  <2>3. StageWork(c)' < StageWork(c)
    <3>1. CASE left = {}
      <4>1. StageWork(c)' = 5
        BY <2>1, <3>1 DEF StageWork
      <4>2. StageWork(c) \in {6, 7}
        BY <2>1, <2>2 DEF StageWork, Artifacts
      <4>. QED
        BY <4>1, <4>2
    <3>2. CASE left # {}
      <4>1. run'[c].stage = "upload" /\ run'[c].left = run[c].left \ {a}
        BY <2>1, <3>2
      <4>. QED
        BY <2>1, <2>2, <4>1 DEF StageWork, Artifacts
    <3>. QED
      BY <3>1, <3>2
  <2>. QED
    BY <1>0, <2>1, <2>3, StageOn
<1>6. ASSUME NEW c \in Jobs, Commit(c)
      PROVE  WindsDown
  <2>. DEFINE r == [stage |-> "trigger", left |-> {}, meta |-> info.metaStatus = "PROCESSED"]
  <2>1. job' = job /\ run' = [run EXCEPT ![c] = r]
    BY <1>6 DEF Commit
  <2>2. run[c].stage = "commit" /\ run'[c].stage = "trigger"
    BY <1>0, <1>6, <2>1 DEF Commit, TypeOK
  <2>3. StageWork(c)' < StageWork(c)
    BY <2>2 DEF StageWork
  <2>. QED
    BY <1>0, <2>1, <2>2, <2>3, StageOn
<1>7. ASSUME NEW c \in Jobs, run[c].stage # "idle", run' = [run EXCEPT ![c] = IdleRun],
             \A j \in Jobs \ {c} : UNCHANGED job[j],
             job'[c].state \in {"waiting", "gone"},
             job'[c].state = "waiting" => Chances(c)' = Chances(c) - 1
      PROVE  WindsDown
  <2>1. job[c].state = "active"
    BY <1>0, <1>7 DEF QueueInv
  <2>2. \A j \in Jobs \ {c} : UNCHANGED <<job[j], run[j]>>
    BY <1>0, <1>7 DEF TypeOK
  <2>3. InQueue(c) /\ Work(c) = 10 * Chances(c) + StageWork(c)
    BY <2>1 DEF InQueue, Work
  <2>4. Chances(c) \in Nat /\ StageWork(c) \in 2 .. 9 /\ Work(c) > 0
    BY <1>0, <2>3, WorkIsNat
  <2>5. CASE job'[c].state = "gone"
    <3>1. Work(c)' = 0
      BY <2>5 DEF Work, InQueue
    <3>. QED
      BY <2>1, <2>2, <2>4, <3>1, OneJob
  <2>6. CASE job'[c].state = "waiting"
    <3>1. run'[c].stage = "idle"
      BY <1>0, <1>7 DEF TypeOK, IdleRun
    <3>2. Work(c)' = 10 * Chances(c)' + 9
      BY <2>6, <3>1 DEF Work, InQueue, StageWork
    <3>3. Work(c)' < Work(c)
      BY <1>7, <2>3, <2>4, <2>6, <3>2
    <3>. QED
      BY <2>1, <2>2, <3>3, OneJob
  <2>. QED
    BY <1>7, <2>5, <2>6
<1>8. ASSUME NEW c \in Jobs, Ack(c)
      PROVE  WindsDown
  <2>1. job'[c].state = "gone" /\ \A j \in Jobs \ {c} : UNCHANGED job[j]
    BY <1>0, <1>8 DEF Ack, TypeOK, Job
  <2>. QED
    BY <1>7, <1>8, <2>1 DEF Ack
<1>9. ASSUME NEW c \in Jobs, Nack(c)
      PROVE  WindsDown
  <2>1. job[c] \in Job /\ \A j \in Jobs \ {c} : UNCHANGED job[j]
    BY <1>0, <1>9 DEF Nack, TypeOK
  <2>2. /\ job'[c].state \in {"waiting", "gone"}
        /\ job'[c].attempts = job[c].attempts + 1
        /\ job'[c].stalls = job[c].stalls
    BY <1>0, <1>9 DEF Nack, TypeOK, Job
  <2>3. Chances(c)' = Chances(c) - 1
    BY <2>1, <2>2 DEF Chances, Job
  <2>. QED
    BY <1>7, <1>9, <2>1, <2>2, <2>3 DEF Nack
<1>10. ASSUME NEW c \in Jobs, WorkerCrash(c)
       PROVE  WindsDown
  <2>1. job[c] \in Job /\ \A j \in Jobs \ {c} : UNCHANGED job[j]
    BY <1>0, <1>10 DEF WorkerCrash, TypeOK
  <2>2. /\ job'[c].state \in {"waiting", "gone"}
        /\ job'[c].attempts = job[c].attempts
        /\ job'[c].stalls = job[c].stalls + 1
    BY <1>0, <1>10 DEF WorkerCrash, TypeOK, Job
  <2>3. Chances(c)' = Chances(c) - 1
    BY <2>1, <2>2 DEF Chances, Job
  <2>. QED
    BY <1>7, <1>10, <2>1, <2>2, <2>3 DEF WorkerCrash
<1>11. ASSUME NEW c \in Jobs, CompleteStep(c)
       PROVE  WindsDown
  BY <1>1, <1>2, <1>11 DEF CompleteStep, CompleteCheck, CompleteExists, CompleteCreateRow,
    CompleteMark
<1>12. ASSUME NEW c \in Jobs, WorkStep(c)
       PROVE  WindsDown
  <2>1. CASE Transcode(c)
    BY <1>4, <2>1 DEF Transcode
  <2>2. CASE Publish(c) \/ NoPublish(c) \/ RecordFailure(c)
    BY <1>4, <2>2 DEF Publish, NoPublish, RecordFailure
  <2>. QED
    BY <1>5, <1>6, <1>8, <1>9, <1>12, <2>1, <2>2 DEF WorkStep
<1>13. ASSUME NEW c \in Jobs, WorkFault(c)
       PROVE  WindsDown
  <2>1. CASE TranscodeFails(c) \/ CommitFails(c)
    BY <1>4, <2>1 DEF TranscodeFails, CommitFails
  <2>2. CASE PublishFails(c) \/ RecordFailureFails(c) \/ ProgressFails(c)
    BY <1>4, <2>2 DEF PublishFails, RecordFailureFails, ProgressFails
  <2>. QED
    BY <1>13, <2>1, <2>2 DEF WorkFault
<1>14. ASSUME NEW c \in Jobs, NEW w \in {"row", "mark"},
              CompleteWriteFails(c, w) \/ CompleteEnqueueFails(c)
       PROVE  WindsDown
  BY <1>1, <1>14 DEF CompleteWriteFails, CompleteEnqueueFails
<1>15. ASSUME NEW u \in Updates, UpdateStep(u) \/ UpdateFails(u)
       PROVE  WindsDown
  BY <1>1, <1>15 DEF UpdateStep, UpdateRow, UpdateInfo, SendRow, SendMessage, UpdateFails
<1>16. ASSUME NEW u \in Updates, NEW v \in {"PRIVATE", "PUBLIC", video.visibility},
              NEW b \in BOOLEAN, UpdateFind(u, v, b)
       PROVE  WindsDown
  BY <1>1, <1>16 DEF UpdateFind
<1>17. ASSUME NEW u \in Updates, NEW s \in {"row", "publish"}, SendFails(u, s)
       PROVE  WindsDown
  BY <1>1, <1>17 DEF SendFails
<1>18. ASSUME NEW u \in Updates, NEW o \in {"succeeded", "failed"}, NEW g \in BOOLEAN,
              Answer(u, o) \/ HandleAnswer(u, g)
       PROVE  WindsDown
  BY <1>1, <1>18 DEF Answer, HandleAnswer
<1>19. ASSUME NEW d \in Deletes, DeleteFind(d) \/ DeleteStep(d)
       PROVE  WindsDown
  BY <1>1, <1>19 DEF DeleteFind, DeleteStep, DeleteRow, DeleteDirectory
<1>20. ASSUME NEW d \in Deletes, NEW p \in {"private", "public", "row"}, DeleteFails(d, p)
       PROVE  WindsDown
  BY <1>1, <1>20 DEF DeleteFails
<1>21. CASE InitUpload \/ PutObject \/ UNCHANGED vars
  BY <1>1, <1>21 DEF InitUpload, PutObject, vars
<1>22. CASE Healthy
  BY <1>22, <1>3, <1>11, <1>12, <1>15, <1>16, <1>18, <1>19, <1>21 DEF Healthy
<1>23. CASE Fault
  BY <1>23, <1>10, <1>13, <1>14, <1>15, <1>17, <1>18, <1>20 DEF Fault
<1>. QED
  BY <1>21, <1>22, <1>23 DEF Next

(* Retries end: a job in the queue takes only steps that shrink Work, which is
   a number and positive while the job is there, so it takes at most
   10 * (MaxAttempts + MaxStalls + 1) + 9 of them; and a job that has left the
   queue never runs again.  What is left of JobsDrain is that a queued job
   takes a step at all, which is the fairness of BullMQ. *)
THEOREM RetriesEnd == Spec => [][WindsDown]_vars /\ [](\A j \in Jobs : Work(j) \in Nat)
<1>1. IInv => \A j \in Jobs : Work(j) \in Nat
  BY WorkIsNat DEF IInv, SafeInv
<1>2. IInv /\ IInv' /\ [Next]_vars => [WindsDown]_vars
  BY WindStep
<1>. QED
  BY <1>1, <1>2, Invariance, PTL DEF Spec
=============================================================================
