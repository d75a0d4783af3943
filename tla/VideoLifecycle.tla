--------------------------- MODULE VideoLifecycle ---------------------------
(***************************************************************************)
(* The life of one video in api_service: the upload, the transcoding job   *)
(* and its retries, the owner's edits and the answers of the metadata      *)
(* pipeline, the publication by the worker, and the deletion.              *)
(*                                                                         *)
(* Videos share no row, object or job, so one video is modelled.  Handlers *)
(* are cut at their awaits: between two of them any other call, worker or  *)
(* message may act.  A handler that dies at an await is the same as a      *)
(* failure of the operation it awaited, so each failing operation has an   *)
(* action of its own and there is no separate crash of a request.          *)
(***************************************************************************)
EXTENDS Naturals

CONSTANTS
  Jobs,         \* ids of the VIDEO rows of VideoProcessing; each completeUpload
                \* call creates at most one row and one job, which carry its id
  Updates,      \* ids of the META rows, one per updateVideo call
  Deletes,      \* deleteVideo calls
  MaxAttempts,  \* "attempts" of the BullMQ job (3 in the code)
  MaxStalls     \* maxStalledCount of the BullMQ worker (default 1, not configured)

ASSUME LifecycleAssumption ==
  /\ MaxAttempts \in Nat \ {0}
  /\ MaxStalls \in Nat

VARIABLES
  video,     \* the Video row
  info,      \* the VideoInformation row (created and deleted with the Video row)
  vproc,     \* status of the VIDEO processing rows
  mproc,     \* status of the META processing rows
  store,     \* objects of this video in R2
  complete,  \* the completeUpload calls
  update,    \* the updateVideo calls
  remove,    \* the deleteVideo calls
  job,       \* the jobs in Redis, as BullMQ keeps them
  run,       \* what the worker that holds a job is doing
  message    \* the metadata message of an update and its answer

rows  == <<video, info, vproc, mproc>>
calls == <<complete, update, remove>>
vars  == <<video, info, vproc, mproc, store, complete, update, remove, job, run, message>>

-----------------------------------------------------------------------------
(* The data *)

UploadStatus == {"PENDING", "UPLOADED", "PROCESSING", "PROCESSED", "FAILED"}
MetaStatus   == {"PENDING", "UPDATED", "PROCESSING", "PROCESSED", "FAILED"}
RowStatus    == {"none", "PROCESSING", "COMPLETED", "FAILED", "DEAD"}
Visibility   == {"DRAFT", "PRIVATE", "PUBLIC"}

VideoRow == [row : {"absent", "present", "deleted"},
             status : {"NULL", "PROCESSING", "AVAILABLE"},
             visibility : Visibility,
             path : BOOLEAN]                 \* videoPath and thumbnailPath are set

InfoRow == [videoStatus : UploadStatus, metaStatus : MetaStatus]

Artifacts   == {"dash", "thumb"}             \* what a transcoding run uploads
PrivatePart == {"raw", "dash"}               \* objects under the private prefix
PublicPart  == {"thumb"}                     \* objects under the public prefix
Objects     == PrivatePart \cup PublicPart

CompleteCall == [pc : {"idle", "checked", "writing", "done", "unmarked"},
                 left : SUBSET {"row", "mark"}]  \* unmarked: over without UPLOADED
UpdateCall   == [pc : {"idle", "found", "written", "sending", "done"},
                 vis : Visibility, content : BOOLEAN,
                 left : SUBSET {"row", "publish"}]
RemoveCall   == [begun : BOOLEAN, left : SUBSET {"private", "public", "row"}]
Job          == [state : {"none", "waiting", "active", "gone"},
                 attempts : 0 .. MaxAttempts, stalls : 0 .. MaxStalls + 1]
Run          == [stage : {"idle", "download", "upload", "commit", "trigger",
                          "ack", "failing", "nack"},
                 left : SUBSET Artifacts, meta : BOOLEAN]
Message      == {"none", "queued", "succeeded", "failed", "done"}

Present  == video.row = "present"
IdleRun  == [stage |-> "idle", left |-> {}, meta |-> FALSE]

TypeOK ==
  /\ video \in VideoRow
  /\ info \in InfoRow
  /\ vproc \in [Jobs -> RowStatus]
  /\ mproc \in [Updates -> RowStatus]
  /\ store \in SUBSET Objects
  /\ complete \in [Jobs -> CompleteCall]
  /\ update \in [Updates -> UpdateCall]
  /\ remove \in [Deletes -> RemoveCall]
  /\ job \in [Jobs -> Job]
  /\ run \in [Jobs -> Run]
  /\ message \in [Updates -> Message]

Init ==
  /\ video = [row |-> "absent", status |-> "NULL", visibility |-> "DRAFT", path |-> FALSE]
  /\ info = [videoStatus |-> "PENDING", metaStatus |-> "PENDING"]
  /\ vproc = [j \in Jobs |-> "none"]
  /\ mproc = [u \in Updates |-> "none"]
  /\ store = {}
  /\ complete = [j \in Jobs |-> [pc |-> "idle", left |-> {}]]
  /\ update = [u \in Updates |-> [pc |-> "idle", vis |-> "DRAFT",
                                  content |-> FALSE, left |-> {}]]
  /\ remove = [d \in Deletes |-> [begun |-> FALSE, left |-> {}]]
  /\ job = [j \in Jobs |-> [state |-> "none", attempts |-> 0, stalls |-> 0]]
  /\ run = [j \in Jobs |-> IdleRun]
  /\ message = [u \in Updates |-> "none"]

-----------------------------------------------------------------------------
(* Upload: initUpload, the client's PUT and completeUpload *)

(* The transaction of initVideoUpload; a rejected file changes nothing. *)
InitUpload ==
  /\ video.row = "absent"
  /\ video' = [video EXCEPT !.row = "present"]
  /\ UNCHANGED <<info, vproc, mproc, store, calls, job, run, message>>

(* The client PUTs the file with its presigned URL, which outlives the row. *)
PutObject ==
  /\ video.row # "absent"
  /\ store' = store \cup {"raw"}
  /\ UNCHANGED <<rows, calls, job, run, message>>

CompleteCheck(c) ==
  /\ complete[c].pc = "idle"
  /\ Present
  /\ info.videoStatus = "PENDING"
  /\ complete' = [complete EXCEPT ![c].pc = "checked"]
  /\ UNCHANGED <<rows, store, update, remove, job, run, message>>

CompleteExists(c) ==
  /\ complete[c].pc = "checked"
  /\ complete' = [complete EXCEPT ![c] =
                    IF "raw" \in store THEN [pc |-> "writing", left |-> {"row", "mark"}]
                                       ELSE [pc |-> "unmarked", left |-> {}]]
  /\ UNCHANGED <<rows, store, update, remove, job, run, message>>

(* The two writes under Promise.all, in either order. *)
CompleteCreateRow(c) ==
  /\ "row" \in complete[c].left
  /\ Present
  /\ vproc' = [vproc EXCEPT ![c] = "PROCESSING"]
  /\ complete' = [complete EXCEPT ![c].left = @ \ {"row"}]
  /\ UNCHANGED <<video, info, mproc, store, update, remove, job, run, message>>

CompleteMark(c) ==
  /\ "mark" \in complete[c].left
  /\ Present
  /\ info' = [info EXCEPT !.videoStatus = "UPLOADED"]
  /\ complete' = [complete EXCEPT ![c].left = @ \ {"mark"}]
  /\ UNCHANGED <<video, vproc, mproc, store, update, remove, job, run, message>>

(* Mutant: the job is enqueued without awaiting the writes. *)
CompleteEnqueueEarly(c) ==
  /\ complete[c].pc = "writing"
  /\ complete' = [complete EXCEPT ![c].pc = "done"]
  /\ job' = [job EXCEPT ![c] = [state |-> "waiting", attempts |-> 0, stalls |-> 0]]
  /\ UNCHANGED <<rows, store, update, remove, run, message>>

(* addTranscodingJob runs once both writes are done. *)
CompleteEnqueue(c) ==
  /\ complete[c].pc = "writing"
  /\ complete[c].left = {}
  /\ complete' = [complete EXCEPT ![c].pc = "done"]
  /\ job' = [job EXCEPT ![c] = [state |-> "waiting", attempts |-> 0, stalls |-> 0]]
  /\ UNCHANGED <<rows, store, update, remove, run, message>>

(* A write fails: the call has thrown, the other write still takes effect. *)
CompleteWriteFails(c, w) ==
  /\ w \in complete[c].left
  /\ complete' = [complete EXCEPT ![c] =
       [pc |-> IF w = "mark" \/ @.pc = "unmarked" THEN "unmarked" ELSE "done",
        left |-> @.left \ {w}]]
  /\ UNCHANGED <<rows, store, update, remove, job, run, message>>

(* queue.add fails: the upload stays UPLOADED without a job. *)
CompleteEnqueueFails(c) ==
  /\ complete[c].pc = "writing"
  /\ complete[c].left = {}
  /\ complete' = [complete EXCEPT ![c].pc = "done"]
  /\ UNCHANGED <<rows, store, update, remove, job, run, message>>

-----------------------------------------------------------------------------
(* The worker: one execution of a job, from BullMQ's delivery to its ack *)

SetStage(j, s) == run' = [run EXCEPT ![j].stage = s]

Pick(j) ==
  /\ job[j].state = "waiting"
  /\ job' = [job EXCEPT ![j].state = "active"]
  /\ run' = [run EXCEPT ![j] = [stage |-> "download", left |-> Artifacts, meta |-> FALSE]]
  /\ UNCHANGED <<rows, store, calls, message>>

(* Download, ffprobe, the DASH ladder and the thumbnail, on the local disk. *)
Transcode(j) ==
  /\ run[j].stage = "download"
  /\ "raw" \in store
  /\ SetStage(j, "upload")
  /\ UNCHANGED <<rows, store, calls, job, message>>

(* Mutant: the run goes on as soon as the manifest is stored. *)
UploadManifestOnly(j, a) ==
  /\ run[j].stage = "upload"
  /\ a \in run[j].left
  /\ store' = store \cup {a}
  /\ run' = [run EXCEPT ![j].left = @ \ {a},
                        ![j].stage = IF a = "dash" THEN "commit" ELSE "upload"]
  /\ UNCHANGED <<rows, calls, job, message>>

(* The artifacts go up in parallel; the manifest and the thumbnail are needed. *)
UploadArtifact(j, a) ==
  /\ run[j].stage = "upload"
  /\ a \in run[j].left
  /\ store' = store \cup {a}
  /\ LET left == run[j].left \ {a}
     IN  run' = [run EXCEPT ![j] = [stage |-> IF left = {} THEN "commit" ELSE "upload",
                                    left |-> left, meta |-> FALSE]]
  /\ UNCHANGED <<rows, calls, job, message>>

(* A step before the commit throws; uploads in flight may still land. *)
TranscodeFails(j) ==
  /\ \/ run[j].stage = "download" /\ UNCHANGED store
     \/ /\ run[j].stage = "upload"
        /\ \E late \in SUBSET run[j].left : store' = store \cup late
  /\ SetStage(j, "failing")
  /\ UNCHANGED <<rows, calls, job, message>>

(* Mutant: metadata that has not failed counts as processed. *)
CommitUnlessFailed(j) ==
  /\ run[j].stage = "commit"
  /\ Present
  /\ vproc[j] # "none"
  /\ info' = [info EXCEPT !.videoStatus = "PROCESSED"]
  /\ video' = [video EXCEPT !.path = TRUE]
  /\ vproc' = [vproc EXCEPT ![j] = "COMPLETED"]
  /\ run' = [run EXCEPT ![j] = [stage |-> "trigger", left |-> {},
                                meta |-> info.metaStatus # "FAILED"]]
  /\ UNCHANGED <<mproc, store, calls, job, message>>

(* completeVideoProcessing: one transaction over the three rows. *)
Commit(j) ==
  /\ run[j].stage = "commit"
  /\ Present
  /\ vproc[j] # "none"
  /\ info' = [info EXCEPT !.videoStatus = "PROCESSED"]
  /\ video' = [video EXCEPT !.path = TRUE]
  /\ vproc' = [vproc EXCEPT ![j] = "COMPLETED"]
  /\ run' = [run EXCEPT ![j] = [stage |-> "trigger", left |-> {},
                                meta |-> info.metaStatus = "PROCESSED"]]
  /\ UNCHANGED <<mproc, store, calls, job, message>>

(* The transaction throws: a row is gone, or the database failed. *)
CommitFails(j) ==
  /\ run[j].stage = "commit"
  /\ SetStage(j, "failing")
  /\ UNCHANGED <<rows, store, calls, job, message>>

(* Mutant: the metadata status is not looked at. *)
PublishAnyway(j) ==
  /\ run[j].stage = "trigger"
  /\ Present
  /\ video' = [video EXCEPT !.status = "AVAILABLE", !.visibility = "PUBLIC"]
  /\ SetStage(j, "ack")
  /\ UNCHANGED <<info, vproc, mproc, store, calls, job, message>>

(* triggerVideoStatus acts on the statuses the transaction returned. *)
Publish(j) ==
  /\ run[j].stage = "trigger"
  /\ run[j].meta
  /\ Present
  /\ video' = [video EXCEPT !.status = "AVAILABLE", !.visibility = "PUBLIC"]
  /\ SetStage(j, "ack")
  /\ UNCHANGED <<info, vproc, mproc, store, calls, job, message>>

NoPublish(j) ==
  /\ run[j].stage = "trigger"
  /\ ~ run[j].meta
  /\ SetStage(j, "ack")
  /\ UNCHANGED <<rows, store, calls, job, message>>

(* publicVideo throws; triggerVideoStatus logs the error and goes on. *)
PublishFails(j) ==
  /\ run[j].stage = "trigger"
  /\ run[j].meta
  /\ SetStage(j, "ack")
  /\ UNCHANGED <<rows, store, calls, job, message>>

RecordFailure(j) ==
  /\ run[j].stage = "failing"
  /\ Present
  /\ vproc[j] # "none"
  /\ info' = [info EXCEPT !.videoStatus = "FAILED"]
  /\ vproc' = [vproc EXCEPT ![j] = "FAILED"]
  /\ SetStage(j, "nack")
  /\ UNCHANGED <<video, mproc, store, calls, job, message>>

(* recordFailure swallows the error of its own transaction. *)
RecordFailureFails(j) ==
  /\ run[j].stage = "failing"
  /\ SetStage(j, "nack")
  /\ UNCHANGED <<rows, store, calls, job, message>>

(* A job.updateProgress of the handler throws, before or after the work. *)
ProgressFails(j) ==
  /\ run[j].stage \in {"download", "ack"}
  /\ SetStage(j, "nack")
  /\ UNCHANGED <<rows, store, calls, job, message>>

(* removeOnComplete *)
Ack(j) ==
  /\ run[j].stage = "ack"
  /\ job' = [job EXCEPT ![j].state = "gone"]
  /\ run' = [run EXCEPT ![j] = IdleRun]
  /\ UNCHANGED <<rows, store, calls, message>>

(* Mutants: one attempt too many, no retry at all, and attempts not counted. *)
NackOffByOne(j) ==
  /\ run[j].stage = "nack"
  /\ job' = [job EXCEPT ![j].attempts = @ + 1,
                        ![j].state = IF job[j].attempts < MaxAttempts
                                     THEN "waiting" ELSE "gone"]
  /\ run' = [run EXCEPT ![j] = IdleRun]
  /\ UNCHANGED <<rows, store, calls, message>>

NackForGood(j) ==
  /\ run[j].stage = "nack"
  /\ job' = [job EXCEPT ![j].attempts = @ + 1, ![j].state = "gone"]
  /\ run' = [run EXCEPT ![j] = IdleRun]
  /\ UNCHANGED <<rows, store, calls, message>>

NackUncounted(j) ==
  /\ run[j].stage = "nack"
  /\ job' = [job EXCEPT ![j].state = "waiting"]
  /\ run' = [run EXCEPT ![j] = IdleRun]
  /\ UNCHANGED <<rows, store, calls, message>>

(* attempts, backoff and removeOnFail *)
Nack(j) ==
  /\ run[j].stage = "nack"
  /\ job' = [job EXCEPT ![j].attempts = @ + 1,
                        ![j].state = IF job[j].attempts + 1 < MaxAttempts
                                     THEN "waiting" ELSE "gone"]
  /\ run' = [run EXCEPT ![j] = IdleRun]
  /\ UNCHANGED <<rows, store, calls, message>>

(* The process dies: BullMQ finds the job stalled and requeues or fails it. *)
WorkerCrash(j) ==
  /\ run[j].stage # "idle"
  /\ job' = [job EXCEPT ![j].stalls = @ + 1,
                        ![j].state = IF job[j].stalls < MaxStalls
                                     THEN "waiting" ELSE "gone"]
  /\ run' = [run EXCEPT ![j] = IdleRun]
  /\ UNCHANGED <<rows, store, calls, message>>

-----------------------------------------------------------------------------
(* The owner's edits: updateVideo, and the answer of the metadata pipeline *)

UpdateFind(u, v, b) ==
  /\ update[u].pc = "idle"
  /\ Present
  /\ update' = [update EXCEPT ![u] =
       [pc |-> "found", content |-> b, left |-> {},
        vis |-> IF video.status = "PROCESSING" THEN "DRAFT" ELSE v]]
  /\ UNCHANGED <<rows, store, complete, remove, job, run, message>>

UpdateRow(u) ==
  /\ update[u].pc = "found"
  /\ Present
  /\ video' = [video EXCEPT !.visibility = update[u].vis]
  /\ update' = [update EXCEPT ![u].pc = "written"]
  /\ UNCHANGED <<info, vproc, mproc, store, complete, remove, job, run, message>>

(* metaStatus becomes PROCESSING whether or not anything will be sent. *)
UpdateInfo(u) ==
  /\ update[u].pc = "written"
  /\ Present
  /\ info' = [info EXCEPT !.metaStatus = "PROCESSING"]
  /\ update' = [update EXCEPT
       ![u].pc = IF update[u].content THEN "sending" ELSE "done",
       ![u].left = IF update[u].content THEN {"row", "publish"} ELSE {}]
  /\ UNCHANGED <<video, vproc, mproc, store, complete, remove, job, run, message>>

UpdateFails(u) ==
  /\ update[u].pc \in {"found", "written"}
  /\ update' = [update EXCEPT ![u].pc = "done"]
  /\ UNCHANGED <<rows, store, complete, remove, job, run, message>>

(* The META row and the message, under Promise.all. *)
SendRow(u) ==
  /\ "row" \in update[u].left
  /\ Present
  /\ mproc' = [mproc EXCEPT ![u] = "PROCESSING"]
  /\ update' = [update EXCEPT ![u].left = @ \ {"row"}]
  /\ UNCHANGED <<video, info, vproc, store, complete, remove, job, run, message>>

SendMessage(u) ==
  /\ "publish" \in update[u].left
  /\ message' = [message EXCEPT ![u] = "queued"]
  /\ update' = [update EXCEPT ![u].left = @ \ {"publish"}]
  /\ UNCHANGED <<rows, store, complete, remove, job, run>>

SendFails(u, s) ==
  /\ s \in update[u].left
  /\ update' = [update EXCEPT ![u].left = @ \ {s}]
  /\ UNCHANGED <<rows, store, complete, remove, job, run, message>>

(* The search service has processed the message and answered. *)
Answer(u, outcome) ==
  /\ message[u] = "queued"
  /\ message' = [message EXCEPT ![u] = outcome]
  /\ UNCHANGED <<rows, store, calls, job, run>>

(* Mutant: the answer creates the row when it is missing. *)
UpsertAnswer(u, again) ==
  /\ message[u] \in {"succeeded", "failed"}
  /\ mproc' = [mproc EXCEPT ![u] =
                 IF message[u] = "succeeded" THEN "COMPLETED" ELSE "FAILED"]
  /\ info' = [info EXCEPT !.metaStatus =
                 IF message[u] = "succeeded" THEN "PROCESSED" ELSE "FAILED"]
  /\ message' = IF again THEN message ELSE [message EXCEPT ![u] = "done"]
  /\ UNCHANGED <<video, vproc, store, calls, job, run>>

(* updateMetaProcessingStatus; the answer may be delivered again.  Without
   the META row the update throws and the answer goes back to the queue. *)
HandleAnswer(u, again) ==
  /\ message[u] \in {"succeeded", "failed"}
  /\ mproc[u] # "none"
  /\ mproc' = [mproc EXCEPT ![u] =
                 IF message[u] = "succeeded" THEN "COMPLETED" ELSE "FAILED"]
  /\ info' = [info EXCEPT !.metaStatus =
                 IF message[u] = "succeeded" THEN "PROCESSED" ELSE "FAILED"]
  /\ message' = IF again THEN message ELSE [message EXCEPT ![u] = "done"]
  /\ UNCHANGED <<video, vproc, store, calls, job, run>>

-----------------------------------------------------------------------------
(* deleteVideo: its operations on this state run concurrently *)

DeleteFind(d) ==
  /\ ~ remove[d].begun
  /\ Present
  /\ remove' = [remove EXCEPT ![d] = [begun |-> TRUE, left |-> {"private", "public", "row"}]]
  /\ UNCHANGED <<rows, store, complete, update, job, run, message>>

DeleteDirectory(d, p) ==
  /\ p \in remove[d].left \cap {"private", "public"}
  /\ store' = store \ (IF p = "private" THEN PrivatePart ELSE PublicPart)
  /\ remove' = [remove EXCEPT ![d].left = @ \ {p}]
  /\ UNCHANGED <<rows, complete, update, job, run, message>>

(* Deleting the Video row cascades to its information and processing rows. *)
DeleteRow(d) ==
  /\ "row" \in remove[d].left
  /\ Present
  /\ video' = [video EXCEPT !.row = "deleted"]
  /\ vproc' = [j \in Jobs |-> "none"]
  /\ mproc' = [u \in Updates |-> "none"]
  /\ remove' = [remove EXCEPT ![d].left = @ \ {"row"}]
  /\ UNCHANGED <<info, store, complete, update, job, run, message>>

(* One operation fails, maybe after some objects went; the others go on. *)
DeleteFails(d, p) ==
  /\ p \in remove[d].left
  /\ \/ p # "private" /\ UNCHANGED store
     \/ p = "private" /\ \E gone \in SUBSET PrivatePart : store' = store \ gone
  /\ remove' = [remove EXCEPT ![d].left = @ \ {p}]
  /\ UNCHANGED <<rows, complete, update, job, run, message>>

-----------------------------------------------------------------------------
(* The next-state relation: what the code intends, and what goes wrong *)

CompleteStep(c) ==
  CompleteCheck(c) \/ CompleteExists(c) \/ CompleteCreateRow(c)
    \/ CompleteMark(c) \/ CompleteEnqueue(c)

WorkStep(j) ==
  \/ Transcode(j)
  \/ \E a \in Artifacts : UploadArtifact(j, a)
  \/ Commit(j) \/ Publish(j) \/ NoPublish(j) \/ RecordFailure(j) \/ Ack(j) \/ Nack(j)

UpdateStep(u) ==
  UpdateRow(u) \/ UpdateInfo(u) \/ SendRow(u) \/ SendMessage(u)

DeleteStep(d) ==
  DeleteRow(d) \/ \E p \in {"private", "public"} : DeleteDirectory(d, p)

WorkFault(j) ==
  TranscodeFails(j) \/ CommitFails(j) \/ PublishFails(j)
    \/ RecordFailureFails(j) \/ ProgressFails(j)

(* No operation fails, no process dies, no message is delivered twice. *)
Healthy ==
  \/ InitUpload
  \/ PutObject
  \/ \E c \in Jobs : CompleteStep(c) \/ Pick(c) \/ WorkStep(c)
  \/ \E u \in Updates :
       \/ \E v \in {"PRIVATE", "PUBLIC", video.visibility}, b \in BOOLEAN : UpdateFind(u, v, b)
       \/ UpdateStep(u)
       \/ Answer(u, "succeeded")
       \/ HandleAnswer(u, FALSE)
  \/ \E d \in Deletes : DeleteFind(d) \/ DeleteStep(d)

Fault ==
  \/ \E c \in Jobs :
       \/ \E w \in {"row", "mark"} : CompleteWriteFails(c, w)
       \/ CompleteEnqueueFails(c)
       \/ WorkFault(c)
       \/ WorkerCrash(c)
  \/ \E u \in Updates :
       \/ UpdateFails(u)
       \/ \E s \in {"row", "publish"} : SendFails(u, s)
       \/ Answer(u, "failed")
       \/ HandleAnswer(u, TRUE)
  \/ \E d \in Deletes, p \in {"private", "public", "row"} : DeleteFails(d, p)

Next == Healthy \/ Fault

Spec == Init /\ [][Next]_vars

(* BullMQ delivers waiting jobs, and an execution of a job goes on until it  *)
(* has succeeded or thrown.                                                  *)
WorkerFairness ==
  \A j \in Jobs : WF_vars(Pick(j)) /\ WF_vars(WorkStep(j) \/ WorkFault(j))

FairSpec == Spec /\ WorkerFairness

(* The same system with no fault at all, where every call and every message *)
(* in flight makes progress.                                                *)
HealthySpec ==
  /\ Init
  /\ [][Healthy]_vars
  /\ \A j \in Jobs :
       WF_vars(CompleteStep(j)) /\ WF_vars(Pick(j)) /\ WF_vars(WorkStep(j))
  /\ \A u \in Updates :
       /\ WF_vars(UpdateStep(u))
       /\ WF_vars(Answer(u, "succeeded"))
       /\ WF_vars(HandleAnswer(u, FALSE))

-----------------------------------------------------------------------------
(* Properties *)

Untouched == \A d \in Deletes : ~ remove[d].begun
Described == \E u \in Updates : mproc[u] = "COMPLETED"

(* A video that the worker made AVAILABLE has a manifest and a thumbnail,
   and one of its metadata updates was completed: triggerVideoStatus acts on
   statuses read by an earlier transaction, and answers, retries and other
   jobs come in between. *)
PublishedIsReady ==
  Present /\ video.status = "AVAILABLE" => video.path /\ Described

(* A COMPLETED processing row stands for artifacts that really are in R2 and
   paths that really are in the Video row, until somebody deletes: retries,
   crashes and a second job of the same upload never take them away. *)
CompletedIsPlayable ==
  \A j \in Jobs : Present /\ vproc[j] = "COMPLETED"
    => video.path /\ (Untouched => Artifacts \subseteq store)

(* A job in the queue refers to a processing row of an upload that has left
   PENDING: completeUpload awaits both of its concurrent writes before it
   enqueues, whatever the other calls do meanwhile. *)
JobFollowsWrites ==
  \A j \in Jobs : Present /\ job[j].state # "none"
    => vproc[j] # "none" /\ info.videoStatus # "PENDING"

(* An upload reads UPLOADED only for a call that wrote it and whose own row has
   no outcome yet: the call or its job is still at work, or was lost and leaves
   the row open.  Two calls may overlap, and a slow mark may land after the
   other's job has committed, but never after its own (video.service.ts:107). *)
UploadedIsOwed ==
  Present /\ info.videoStatus = "UPLOADED" =>
    \E c \in Jobs : /\ complete[c].pc \in {"writing", "done"}
                    /\ "mark" \notin complete[c].left
                    /\ vproc[c] \in {"none", "PROCESSING"}

(* A job leaves the queue with its row COMPLETED, or after MaxAttempts
   failures, or after more stalls than BullMQ accepts; nothing else loses it. *)
GoneForAReason ==
  \A j \in Jobs : Present /\ job[j].state = "gone"
    => \/ vproc[j] = "COMPLETED"
       \/ job[j].attempts = MaxAttempts
       \/ job[j].stalls > MaxStalls

(* Nothing brings a deleted video back: the cascade leaves no processing row,
   and no late write of a call, a worker or an answer creates one again. *)
DeletedLeavesNoRow ==
  ~ Present => (\A j \in Jobs : vproc[j] = "none") /\ (\A u \in Updates : mproc[u] = "none")

(* The life cycle implements VideoPublication: the worker publishes only what
   is playable and described although it acts on statuses it read earlier, no
   retry, second job or repeated answer takes a publication back, and no late
   write revives a deleted video. *)
Publication == INSTANCE VideoPublication WITH
  row       <- video.row,
  playable  <- Present /\ video.path,
  described <- Present /\ Described,
  published <- Present /\ video.status = "AVAILABLE"
ImplementsPublication == Publication!PubSpec

(* The metadata messages follow MetadataChannel: what the life cycle assumes
   of the search service is what MetadataPipeline provides, and an answer is
   written only to the row of its own change. *)
Channel == INSTANCE MetadataChannel WITH Changes <- Updates, row <- mproc
ImplementsChannel == Channel!ChannelSpec

(* Every job that was enqueued leaves the queue, whatever fails. *)
JobsDrain == \A j \in Jobs : job[j].state = "waiting" ~> job[j].state = "gone"

(* A video whose file and metadata are both PROCESSED becomes AVAILABLE
   (video-processing.service.ts:81 and 339), unless a new update or job
   changes one of the two first. *)
BothProcessed ==
  Present /\ info.videoStatus = "PROCESSED" /\ info.metaStatus = "PROCESSED"
PublishedWhenReady == BothProcessed ~> (~ BothProcessed \/ video.status = "AVAILABLE")
-----------------------------------------------------------------------------
(* The inductive invariant behind the safety properties: what each call,    *)
(* job, execution and message may rely on.                                  *)

(* Nothing has started before the video exists, nothing is left in its rows
   after it is deleted. *)
AbsentInv ==
  video.row = "absent" =>
    /\ video.status = "NULL" /\ ~ video.path
    /\ info.metaStatus = "PENDING"
    /\ \A c \in Jobs : complete[c].pc = "idle"
    /\ \A u \in Updates : update[u].pc = "idle"
    /\ \A d \in Deletes : ~ remove[d].begun

(* A completeUpload call owns its row until the job is queued. *)
CompleteInv ==
  \A c \in Jobs :
    /\ complete[c].pc \in {"idle", "checked"} => complete[c].left = {}
    /\ complete[c].pc # "done" \/ complete[c].left # {} => job[c].state = "none"
    /\ complete[c].pc = "writing" =>
         /\ Present /\ "row" \notin complete[c].left => vproc[c] # "none"
         /\ "mark" \notin complete[c].left => info.videoStatus # "PENDING"

(* A job is in the worker's hands exactly while BullMQ calls it active, and
   one that may still run has attempts and stalls left. *)
QueueInv ==
  \A j \in Jobs :
    /\ job[j].state = "active" <=> run[j].stage # "idle"
    /\ job[j].state \in {"waiting", "active"} =>
         job[j].attempts < MaxAttempts /\ job[j].stalls =< MaxStalls

(* What an execution has achieved by each stage. *)
RunInv ==
  \A j \in Jobs :
    /\ run[j].stage = "download" => run[j].left = Artifacts
    /\ run[j].stage = "upload" /\ Untouched => Artifacts \ run[j].left \subseteq store
    /\ run[j].stage = "commit" /\ Untouched => Artifacts \subseteq store
    /\ run[j].stage \in {"trigger", "ack"} /\ Present => vproc[j] = "COMPLETED"
    /\ run[j].stage = "trigger" /\ run[j].meta /\ Present => Described

(* Paths stand for artifacts, whoever wrote them. *)
PathInv ==
  /\ Present /\ video.path /\ Untouched => Artifacts \subseteq store
  /\ \A j \in Jobs : Present /\ vproc[j] = "COMPLETED" => video.path
  /\ \A d \in Deletes : ~ remove[d].begun => remove[d].left = {}

(* A META row is written once by its call, then only by its own answer. *)
AnswerInv ==
  /\ \A u \in Updates :
       /\ update[u].pc \in {"idle", "found", "written"} =>
            update[u].left = {} /\ message[u] = "none" /\ mproc[u] = "none"
       /\ "row" \in update[u].left => mproc[u] = "none"
       /\ "publish" \in update[u].left => message[u] = "none"
       /\ mproc[u] = "COMPLETED" => message[u] \in {"succeeded", "done"}
  /\ Present /\ info.metaStatus = "PROCESSED" => Described

SafeInv ==
  /\ AbsentInv /\ CompleteInv /\ QueueInv /\ RunInv /\ PathInv /\ AnswerInv
  /\ PublishedIsReady /\ JobFollowsWrites /\ GoneForAReason /\ DeletedLeavesNoRow

IInv == TypeOK /\ SafeInv

(* Only a job gives its row an outcome, and the first mark is a call's. *)
OwedInv ==
  /\ \A c \in Jobs :
       /\ vproc[c] \notin {"none", "PROCESSING"} => job[c].state # "none"
       /\ "mark" \in complete[c].left => complete[c].pc \in {"writing", "done"}
  /\ video.row = "absent" => info.videoStatus = "PENDING"
  /\ UploadedIsOwed
-----------------------------------------------------------------------------
(* Why a job leaves the queue: the work it can still cause. *)

InQueue(j) == job[j].state \in {"waiting", "active"}

(* The retries and requeues that are left to a job. *)
Chances(j) == (MaxAttempts - job[j].attempts) + (MaxStalls + 1 - job[j].stalls)

(* More than the steps an execution can still take; 9 while it waits for one. *)
StageWork(j) ==
  CASE run[j].stage = "idle"     -> 9
    [] run[j].stage = "download" -> 8
    [] run[j].stage = "upload"   -> 5 + (IF "dash"  \in run[j].left THEN 1 ELSE 0)
                                      + (IF "thumb" \in run[j].left THEN 1 ELSE 0)
    [] run[j].stage = "commit"   -> 5
    [] run[j].stage = "trigger"  -> 4
    [] run[j].stage \in {"ack", "failing"} -> 3
    [] run[j].stage = "nack"     -> 2

Work(j) == IF InQueue(j) THEN 10 * Chances(j) + StageWork(j) ELSE 0

(* A step leaves a queued job alone or shrinks its work, and a job that is
   gone stays gone. *)
WindsDown ==
  \A j \in Jobs :
    /\ InQueue(j) => Work(j)' < Work(j) \/ UNCHANGED <<job[j], run[j]>>
    /\ job[j].state = "gone" => UNCHANGED <<job[j], run[j]>>
=============================================================================
