# Video platform: specification and proofs

TLA+ models of the video platform: `api_service` (NestJS: GraphQL and REST API,
BullMQ worker, RabbitMQ publisher and consumer, gRPC server) and
`search_service` (FastAPI: RabbitMQ consumers, semantic worker, gRPC server).
Paths below are relative to the repository.  `A` stands for
`api_service/src`, `S` for `search_service/src`.

## 1. The system

| Component | State it keeps | Operations | Talks to |
|---|---|---|---|
| Video (`A/video`) | `Video`, `VideoInformation`, `VideoProcessing` rows (PostgreSQL) | `initUpload`, `completeUpload`, `updateVideo`, `deleteVideo`, reads | R2, BullMQ, RabbitMQ, Qdrant, gRPC |
| Engagement (`A/video/repository`) | like rows, subscription rows, comments, watch history, counters on `Video` and `User` | `likeOrDislikeVideo`, `subscribeChannel`, `commentOnVideo`, `watchVideo`, `trackVideoWatchProgress` | PostgreSQL |
| Transcoding (`A/video-processing`) | BullMQ jobs (Redis), DASH segments and thumbnail in R2, processing rows | enqueue, run, commit, publish, record a failure, retry | R2, ffmpeg, PostgreSQL |
| Metadata transfer, api side (`A/rabbitmq`) | queues and exchanges, META processing rows, `metaStatus` | publish a change, consume the answer | RabbitMQ, PostgreSQL |
| Metadata transfer, search side (`S/app/worker/consumer.py`, `dlq_consumer.py`) | the video point in Qdrant | index a change, answer, retry dead letters | RabbitMQ, Qdrant, Redis |
| Search (`S/domain/service/search.py`) | metadata and result caches (Redis), in-flight table of the process | search, page, resolve metadata | Redis, Qdrant, gRPC to api_service |
| Semantic index (`S/app/worker/semantic_worker.py`, `S/domain/service/video_processing_service.py`, `chunk_qdrant.py`) | transcript and caption chunks in Qdrant | transcribe, caption, chunk, upsert | R2, ML models, Qdrant |
| Auth (`A/auth`) | sessions (Redis), users (PostgreSQL), cookies | `signIn`, `rotateToken`, `signOut`, guards | Firebase, Redis |
| Notifications (`A/notification`) | consumer-group stream (Redis), one RxJS subject per connected user, rows | subscribe (SSE), push, read, mark read | Redis, PostgreSQL |
| Storage (`A/s3`) | objects of the bucket | presign, upload, list and delete, cookies | R2 |
| gRPC (`A/grpc`, `S/infrastructure/grpc`) | none | metadata of videos, delete a video | PostgreSQL, Qdrant |

How they interact.  The API process, the BullMQ worker and the RabbitMQ
consumer of `api_service` share only PostgreSQL, Redis and R2: every handler is
a chain of awaits between which anything else may happen.  The transcoding job
is the only writer of the rendition's paths and the only publisher of a video.
A metadata change travels api row -> RabbitMQ -> search index -> RabbitMQ ->
api row and may be retried, repeated or reordered.

### What is hard

* No handler locks or re-reads what it checked: `completeUpload`, `updateVideo`,
  the worker's publication, likes and subscriptions are check-then-act over
  several awaits.
* BullMQ runs a job up to three times, and again after a stall, over whatever
  an earlier run left.
* Concurrent operations under `Promise.all` keep running when one has failed.
* Deletion removes rows, objects and vectors concurrently with jobs, updates
  and answers in flight.
* RabbitMQ delivers at least once, dead letters are republished by hand, and
  the answer may come before the row it is about.
* The search process fills its caches in background tasks while other requests
  wait for them.
* Likes, subscriptions and comments write a row and then a counter, without a
  transaction, and after a check whose answer may be old.
* The notification stream has one consumer group for all processes of the api,
  while each process knows only its own connections.
* Runs over one video share a directory on the worker's disk and a directory in
  R2, and a failed run's uploads go on.
* The tabs of a browser share cookies but not access tokens.

### What makes each component correct

* Video and transcoding: a published video is playable and described; a
  COMPLETED processing row stands for objects that exist; a job is queued once
  both rows are written, and leaves the queue only completed or out of
  retries; every job leaves the queue; nothing revives a deleted video.
* Metadata transfer: each change is eventually answered; a change reported as
  succeeded is in the index; the index ends up with the last committed row.
* Search: every waiter of an in-flight fetch wakes up and finds what it
  waited for; the in-flight table empties.
* Engagement: counters follow the rows they count; nothing is left of a deleted
  video.
* Notifications: an entry of the stream is pushed once, in order, and the loop
  never stops; an open connection is always served.
* Transcoding on disk: what is published is one consistent rendition and
  nothing else; the workspace comes to rest.
* Semantic index: the transcript is cut at full windows, nothing is lost or
  counted twice, and an older job's points cannot be taken for the newer's.
* Auth: the cookies are of one session; calls in order leave a session with a
  user or none.
* Deletion across stores: nothing of a deleted video remains searchable.

## 2. Modules

| Module | Models |
|---|---|
| `VideoLifecycle` | one video from `initUpload` to `deleteVideo`: upload calls, transcoding jobs, updates and their answers, publication |
| `VideoPublication` | the abstract promise that `VideoLifecycle` implements |
| `MCVideoLifecycle` | TLC instance: symmetry |
| `VideoLifecycle_proofs` | theorems and their TLAPS proofs |
| `MetadataChannel` | the protocol between an update and the search service: message, answer, META row |
| `MetadataPipeline` | how a metadata change travels: broker queues, consumer, dead-letter consumer, answers, the video's point |
| `MCMetadataPipeline` | TLC instance: symmetry |
| `MetadataPipeline_proofs` | theorems and their TLAPS proofs |
| `SearchCache` | concurrent searches resolving ids into metadata: Redis entries, fetches in flight, background writes |
| `MCSearchCache` | TLC instance |
| `SearchCache_proofs` | theorems and their TLAPS proofs |
| `Engagement` | likes, subscriptions, comments, views and history of one video and its channel: overlapping calls over rows and counters |
| `NotificationStream` | sending, the Redis stream with its consumer group, the consumer loop of each process, SSE connections |
| `TranscodeWorkspace` | run after run of the transcoding handler: working directory, ffmpeg's files, uploads, clean-up |
| `SemanticIndex` | a semantic job from its download to its points: segments, chunks, captions, upsert |
| `AuthSession` | sign-in, rotation, refresh and sign-out from the tabs of one browser |
| `MCEngagement`, `MCNotificationStream`, `MCTranscodeWorkspace`, `MCSemanticIndex`, `MCAuthSession` | TLC instances; sources and utterances are values defined there |
| `Engagement_proofs`, `NotificationStream_proofs`, `TranscodeWorkspace_proofs`, `SemanticIndex_proofs`, `AuthSession_proofs` | theorems and their TLAPS proofs |

`MetadataChannel` ties the two systems together: `VideoLifecycle` uses the
search service only through it (`ImplementsChannel` there), and
`MetadataPipeline`, which has the broker and the consumers in detail, implements
it (`ImplementsChannel` there).  `TranscodeWorkspace` details the part of a run
that `VideoLifecycle` has as "upload": which files, in which order, and what an
earlier run's tasks still do.

### VideoLifecycle

One video, because videos share no row, object or job; several concurrent
calls on it.  `video` and `info` are the two rows of the video, `vproc` and
`mproc` its VIDEO and META processing rows, `store` what R2 holds of it.
`complete`, `update` and `remove` hold, per call, how far the handler has got;
`left` is the set of `Promise.all` branches still to run.  `job` is what BullMQ
keeps of a job (waiting, active, gone, failed attempts, stalls), `run` what the
worker is doing with it, and `message` the metadata message of an update and
its answer.

Each action is the code between two awaits.  A failing await has its own action
(`CompleteWriteFails`, `TranscodeFails`, `CommitFails`, ...), which also stands
for the death of the process at that await: an API call that dies leaves
exactly what a call that threw there leaves.  The death of a worker is
`WorkerCrash`.  The branches of `Promise.all` are independent steps: when one
fails, the call has thrown and the others still take effect.  A call of
`completeUpload` that ends without having written UPLOADED ends "unmarked".

What is abstracted: DASH segments and manifest are one object "dash" (the
manifest is what makes it playable), file names, durations, errors' texts and
the local temporary directory are left out.  The presigned URL is one action
(`PutObject`) that may come at any time after `initUpload`, also after the
deletion.  A BullMQ lock that is lost while its worker lives on (two workers on
one job) is not modelled: the code leaves BullMQ's lock renewal at its default.

`Healthy` collects what happens when nothing fails, `Fault` the rest, and
`Next == Healthy \/ Fault`.  `WorkerFairness` is weak fairness on delivering a
waiting job and on the steps of a run, successful or failing: BullMQ polls its
queue for ever and each await of the run settles.  Nothing is assumed of
clients, and nothing forces a failure or a crash.  `HealthySpec` has no fault
and additionally lets calls and messages in flight make progress.

### VideoPublication

Four facts of a video: whether the row exists, has a playable rendition, has
been described by a completed metadata update, has been published.  Create,
Render, Describe, Announce, Delete.  Announce needs the two others, nothing
takes a publication back, and Delete is final.  `VideoLifecycle` maps to it
through its rows.

### MetadataChannel

Per change a message ("none", "queued", "succeeded" or "failed", "done") and the
status of its META row.  The row is created once, the message sent once; an
answer is written only to a row that exists, may be written again, and matches
the reply; the deletion of the video takes the rows away.

### MetadataPipeline

One video and any number of changes.  `transfer` and `dead` are the two queues,
as sequences of letters: a message with the death count of its `x-death` header.
`consumer` and `retrier` are what the two consumers of `search_service` have in
hand (both channels have prefetch 1) and how far they got.  `answers` counts the
answers waiting in `video.metadata.response`; they are a bag because the api
consumer takes several at a time.  `row` says which change last wrote each field
of the `Video` row, `index` which change's payload the point holds: the upsert
replaces the whole point, so the change determines the point (`Point`).

A delivery that ends without ack or reject goes back to the head of its queue.
There are two ways: the process dies (`ConsumerCrash`, `RetrierCrash`,
`AnswerRepeats` on the api side), or the robust connection is lost and reopened,
and the handler of the old delivery goes on beside the new one (`stray`).
`MaxLosses` bounds them; the proofs do not depend on its value.  A handler that
throws is `Reject`: `process(requeue=False)` rejects and the broker dead-letters.
The dead-letter consumer (`HandleDeadLetter`) gives a letter up when its death
count has reached `MaxRetries` and republishes it otherwise.  `Republish` goes to
the dead-letter exchange, so the letter comes back to the same queue with the
same count.  `GiveUp` would drop the letter, because its message cannot be
built, but with the code's 3 no letter's count gets there: it stays 1.  An answer without its row throws in the api
consumer, whose library requeues it: `HandleAnswer` is simply not enabled.

`Spec` has everything.  A handler that outlives its delivery can overwrite a
newer change, so `IndexMovesForward` excepts the steps of `stray` handlers: it
claims that nothing else takes the index back.  `Progress` is weak fairness on
the steps of both consumers (asyncio callbacks that the event loop runs) and of
the calls in flight; it is stated per action.  Failures are never forced.

### SearchCache

One process of `search_service`; its event loop interleaves requests only at
awaits, so a step is the code between two of them, and the table
`_inflight_requests` needs no lock.  A *search* is a slot that runs one request
at a time with the tasks it starts: `fetch` (`get_metadata_grpc`), `waiter`
(`_await_cache_metadata`) and `write` (the background `mset`).  A slot is reused
only when all of them are over, so the number of slots bounds the concurrent
requests, not the requests.

`search` is how far `_handle_metadata` has got and what it remembers: the ids it
found missing and the ones in the second half of their TTL, with the value it
read.  `inflight` gives for an id the search that created its `asyncio.Event`;
an Event is the pair of its creator and the id, and `waiter.events` are those
not set yet.  `cache` is a version per video with the half of its TTL, `row` the
version `api_service` would answer, or `None` for a video that is not public.

A Redis command is one step that succeeds or fails (`ReadFails`,
`WaitReadFails`, `MsetFails`); a gRPC call is answered in one step
(`FetchAnswered`) and its task goes on in another (`FetchEnds`), or it fails at
any time (`FetchFails`), which also stands for the 5 s timeout.  When one task
of `gather` raises, the request is over and the other task goes on: `FetchEnds`
then drops its answer.  `WaitMissesEvent` is the `KeyError` of a task that
starts after the fetch has ended.

`Progress` is weak fairness per task (the event loop runs whatever can run, and
every command and call returns or fails, because both clients have timeouts) and
on the TTL.  Each task's fairness is met by its failure as well as by its
success; requests, edits and withdrawals are never forced.

Left out: the ranking of a query and its cached pages, presigning, the
embedding and the vector search, which only decide which ids a request starts
with; the model lets a request start with any.

### Engagement

One video, which is its channel's only one here, and calls of seven operations
(`Op`: the two votes, the two sides of a subscription, watch, comment, track).
A call goes through "checked" (the service has looked at the video or the
channel), "found" (the repository has read the row it may replace, which it
remembers as `seen`), "written" (the row is there, the counter not yet) and
"done".  `Fail` is an await that throws or a process that dies; between row and
counter it leaves the call "lost", because nothing counts it later.

`mark`, `comments`, `history` and `subscribed` are the rows, the rest counters.
`Begin` has the checks as the code makes them: `findVideo` is given the caller's
id, so only the owner finds the video to like, comment or track
(`MayEngage`).  `create` throws when its key is there and `update` and `delete`
when it is not, which is a guard here (`WriteMark`, `WriteSubscription`) with
`Fail` as the alternative.  `Delete` takes the dependent rows away, as the
foreign keys cascade; `SetVisibility` is an edit between the check and the
write.  Counters are unbounded integers.  Left out: the listing of comments
and the errors of refused calls.  `updateVideoHistory` cannot get past its
query (its id is declared `Int`) and changes nothing.  There is no fairness: the
properties are about what is true between any two awaits.

### NotificationStream

An entry is its position in the stream, `cursor` the group's last delivered
entry, `acked` what it counts as done.  A process is "booting" (the group is
being created), "polling", "pushing" or "acking" the entries `first .. last` of
its batch.  `subjects[p]` are the users with a Subject in process `p`, `tab` the
connections of browsers, with the last entry each received.

`EnsureGroupFails` goes on to poll, as the code does; `ReadLost` is a reply
that is lost after Redis has assigned the entries; `AckFails` is logged and
passed over; `Crash` is the death and restart of a process, whose consumer name
is new, so what was pending stays pending.  `Disconnect` completes the Subject
and ends every stream of the user in that process.  `LoopFairness` is weak
fairness on the steps of each loop: it only ends with its process.  Sending and
connections are never forced.  Left out: the listings of a user's
notifications.

### TranscodeWorkspace

A file or an object holds what it was made from (`Content`: a source, or
`None`), so a rendition is consistent when all its parts were made from the same
original.  `run` numbers the runs, `stage` follows the handler await by await,
`upload[r]` has one task per file that run `r` found in the directory, of which
`MaxUploads` are open (`p-limit`).  The ladder, the duration and the streams of
the manifest are computed from the source as in `ffmpeg.service.ts`.

A run that fails leaves its queued and open uploads behind (`UploadFails`); an
open file keeps its content when `Cleanup` removes the directory; a queued one
then fails to open.  `Crash` ends the worker with its requests and leaves the
directory.  `Replace` is the presigned URL used again.  `overtook` is a history
variable, set when a run begins while uploads of an earlier one are still under
way.  `Progress` is weak fairness on the handler's steps and on the transfers,
each of which may fail: commands, disk and R2 answer in the end.

Left out: codecs and bit rates, progress reports, and rows (they are in
`VideoLifecycle`).

### SemanticIndex

One video, job after job.  The loop of `merge_segments_to_chunks` is one step
per segment (`AddSegment`): `buffer` is what it collects, `noise` the sum of the
probabilities it averages.  `segments` only remembers what the loop was given,
so that the cuts can be compared with a definition that knows the whole
transcript: `CutWhereFull` says that chunks and buffer are its segments between
the members of some set of cuts, each with the noise of its own segments, and
that the window is full at those cuts and nowhere else.  `SaidIsKept` says that
`AllChunks`, which adds the remainder, holds every segment with a text; the two
are `TranscriptIsKept`.  The filter of
`process_audio_file` is `Clear`, a recursive function.  Captions are one step per window (`Describe`, `Skip`), the upsert
one step, which is one request.  `CanDownload` says whether the S3 client has a
`download_file`: the tests' mock has one, the client of `search_service` has
none, so a job fails at `video_processing_service.py:75` and with FALSE nothing
is ever indexed.  Left out: the payload's visibility, the search over chunks,
and `delete_chunks_by_video_id`, which has no caller.

### AuthSession

One browser.  A session and the refresh token signed with its id are one
number.  `call` carries the cookies and the user of a request, then those of its
answer; `Answer` is the moment the browser stores them.  Steps "get", "set" and
"del" are the Redis commands of the service.  `Fail` is a command that throws or
an answer that never arrives.  Access tokens are only known by their user, and
expire (`TokenExpires`), as sessions do.  There is no fairness.  Left out:
Firebase's verification, the users' rows, the guards' parsing of headers.

## 3. Runs

| Run | Shows | Bounds |
|---|---|---|
| `jobs` | `TypeOK`, `PublishedIsReady`, `CompletedIsPlayable`, `UploadedIsOwed`, `GoneForAReason` | two overlapping completeUpload calls, one update, 2 attempts, no stall: enough for a retry, and a crash that drops its job, around the other job's commit |
| `delete` | `DeletedLeavesNoRow`, refinement of `VideoPublication` and of `MetadataChannel`, `JobsDrain` under `FairSpec` | one of each call; one job, 2 attempts and 1 stall: a retry, a crash that reruns the job, and both limits reached |
| `unpublished` | counterexample: metadata answered last, never published | no fault, `HealthySpec` |
| `pipeline_faults` | `TypeOK`, `NothingLost`, `IndexMovesForward`, refinement of `MetadataChannel` | two changes, one deletion, one lost delivery (a crash or a lost connection), the code's 3 retries |
| `pipeline_settle` | `EveryChangeSettles` under `FairSpec` | two changes, any rejections and a deletion, with the code's 3 retries and no lost delivery (`MaxLosses` 0). A rejected message circulates for ever (`deadloop`), so its change is excepted; the other one must settle beside it |
| `deadloop` | counterexample: a rejected message circulates for ever | one change, one rejection |
| `shared` | `TypeOK`, `OneFetchPerVideo`, `NoLostWakeup`, and `SearchesEnd` under `FairSpec` | two searches, two videos (so that one request both leads and waits), one of which is edited or withdrawn; every fault |
| `engage` | `TypeOK`, `VotesAddUp`, `SubscribersAddUp`, `NoOrphans`, `SequentialIsExact` | three calls of any kind by the owner and a viewer: one that leaves a row and two that race over it; every fault, edits and the deletion |
| `notify` | `TypeOK`, `NeverPushedAgain`, `AckedWasPushed`, `OpenStreamsAreServed`, `InOrder`, `StreamDrains` | two notifications in batches of up to 2, two processes, one crash, two tabs of one user (who may share a process or not) |
| `transcode` | `TypeOK`, `InterimStaysHome`, `RenditionIsConsistent`, `ComesToRest` | two runs, so that one starts on what the other left; two sources with different ladders, streams and lengths; uploads one at a time, in any order, where the code has four. With four (739012 states) the invariants hold too, and with one source so does `ComesToRest`; together they are too slow for a routine run, and the proofs, `RunsEnd` among them, hold for any number |
| `semantic` | `TypeOK`, `TranscriptIsKept`, `OlderBehindNewer` | two jobs, transcripts of up to five segments (more than one window of 3 s, and a rest), captions over up to three windows of 2 s |
| `auth` | `TypeOK`, `CookiesAgree`, `NobodyAfterLoss`, `OrderlyIsSignedIn` | three calls from two tabs, two users, two sessions: one that is lost and one made in its place |

The bounds are on the numbers of calls; inside a call nothing is bounded but
`MaxAttempts` and `MaxStalls`, which are BullMQ's own, `MaxLosses`, `MaxEdits`,
`MaxChanged`, `MaxCrashes`, `MaxRuns`, `MaxSegments`, `MaxJobs` and
`MaxSessions`.  The proofs hold for every value of them.

## 4. Proofs

`VideoLifecycle_proofs` proves, for every finite or infinite set of calls and
every `MaxAttempts` and `MaxStalls`, from `LifecycleAssumption` alone:

* `TypeCorrect`, `PublicationSafe`, `CompletionSafe`, `UploadedSafe`,
  `NoJobIsLost`, `DeletionSafe`: the safety invariants of the runs `jobs` and
  `delete`;
* `QueueSafe`: `JobFollowsWrites`, a part of the invariant that says when a job
  may be queued;
* `Implementation`: every step is a step of `VideoPublication` or a stutter.

All rest on `Invariance`: `IInv` is inductive.  The properties are not
inductive alone.  `PublishedIsReady` needs that a run in stage "trigger" which
remembers PROCESSED metadata is backed by a COMPLETED META row (`RunInv`),
which needs that `metaStatus` is PROCESSED only after some answer completed a
row (`AnswerInv`).  `CompletedIsPlayable` needs what each stage has uploaded
(`RunInv`) and that paths are set only over stored artifacts (`PathInv`).
`JobFollowsWrites` needs that a call still in flight has no job yet
(`CompleteInv`), and `GoneForAReason` that a job with a run is active with
retries left (`QueueInv`).  `UploadedSafe` has an invariant of its own on top,
`OwedInv`: a row has an outcome only once its job was queued, so a call that has
yet to write its mark has a row without outcome (`OwedStep`).  `ChannelUse` shows that its steps follow
`MetadataChannel`.

`RetriesEnd` is the half of `JobsDrain` that needs no fairness.  `Work(j)` is a
number: ten for each attempt and stall a job has left, plus the steps its run
may still take.  Every step either leaves a queued job alone or shrinks it, so
failures and crashes in any mixture make at most
10 * (`MaxAttempts` + `MaxStalls` + 1) + 9 steps, and a job that is gone stays
gone.  The other half, that a queued job takes a step at all, is the fairness
of the worker, and TLC checks both together.

`MetadataPipeline_proofs` proves, for every set of changes and every `MaxLosses`,
from `PipelineAssumption`:

* `PipelineTypes`: `TypeOK`;
* `NoMessageIsLost`: `NothingLost`, provided `MaxRetries > 1`;
* `ChannelImplemented`: the refinement of `MetadataChannel`;
* `IndexIsMonotonic`: `IndexMovesForward`;
* `RejectedAreLost`: a rejected message stays with the dead letters for good,
  provided `MaxRetries > 1`.  It is why `EveryChangeSettles` excepts them.

They rest on `PipeInv`: a consumer holds a letter exactly while it is busy
(`HeldInv`), acknowledges only what it has passed on (`AckInv`), the branches of
a call run once (`CallInv`), only published messages are handled and only
published answers come in (`AnswerInv`), and a letter dies at most once, because
nothing brings it back from the dead letters (`DeathInv`).  `NothingLost` uses
the last: a death count of 1 never reaches `MaxRetries`.  `IndexMovesForward`
needs `OrderInv`: messages wait in the order of their publication, behind the one
in hand; nothing newer has been indexed, and no stray handler has a newer one.

`SearchCache_proofs` proves, for every set of searches and videos, from
`SearchAssumption`: `SearchTypes` (`TypeOK`), `SingleFetch` (`OneFetchPerVideo`)
and `WakeupsAreKept` (`NoLostWakeup`).  Neither property is inductive: both
follow from the table.  `TableInv` says that `inflight[v] = s` exactly when s has
a running fetch of v; `EventInv` that an Event somebody waits for is the one in
the table; `StageInv` that a slot starts with no task of an earlier request.

`SearchesAreShort` and `NoneIsStuck` are what `SearchesEnd` rests on.  A search
and the tasks it starts take eight steps at most: each shrinks `SlotWork`, and
nobody else adds to it.  A search that is not over has a step to take
(`CanGo`), or waits for a fetch that has: two searches that each wait for a
fetch of the other both go on.  That a step that can be taken is taken is the
fairness of the event loop.

`Engagement_proofs` proves, for every finite set of calls and users, from
`EngagementAssumption`: `TypesHold` (`TypeOK`), `VotesAlwaysAddUp`
(`VotesAddUp`), `SubscribersAlwaysAddUp` (`SubscribersAddUp`) and
`NothingIsOrphaned` (`NoOrphans`).  The counting properties are inductive
together with `SeenInv`: a call that owes a counter saw what it replaced, and
what was seen tells votes from subscriptions.  The steps of the proof are about
cardinalities: a write moves one user between the marked and the unmarked and
one call into those that owe, a counter takes it out again.

`SequentialCallsAreExact` is `SequentialIsExact`, an implication between two
temporal formulas: while calls neither overlap nor fail, `SequentialInv` holds.
`FreshInv` says that what a call saw is still what the rows say, and `LikesInv`
that the likes are the users marked so, but for the like the one call in flight
has still to count or to take back; the dislikes then follow from `VotesAddUp`.  Both are inductive only under `OneAtATime` before and
after the step, which is all that `[]OneAtATime` gives.

`NotificationStream_proofs` proves, for every set of notifications, users, tabs
and processes and every batch size, from `StreamAssumption`: `TypesHold`
(`TypeOK`), `PushedOnce` (`NeverPushedAgain`), `PushedBeforeAcked`
(`AckedWasPushed`), `StreamsAreServed` (`OpenStreamsAreServed`) and
`TabsAreInOrder` (`InOrder`).  They need `BatchInv`, that batches are intervals
below the cursor, and `TabInv`, that a connected tab has received nothing at or
after what its process is still to push.

`SettledForGood` is the half of `StreamDrains` that needs no fairness: the group
only goes forward, a batch only gets shorter (`BatchWork`), and an entry that no
process has still to handle is never given out again.

`TranscodeWorkspace_proofs` proves, for every set of sources, every number of
runs and of concurrent uploads, from `WorkspaceAssumption`: `TypesHold`
(`TypeOK`), `TracksStayHome` (`InterimStaysHome`) and `RenditionsAreConsistent`
(`RenditionIsConsistent`).  `DiskInv` says that from its download to its commit
a run finds only its own source on the disk, also where a crashed run left
others; `TaskInv` that a run has the uploads for itself unless it overtook;
`StoreInv` that what it has not put it has still to put; `InterimInv` that no
task ever has an encoder's track.

`RunsEnd` is the half of `ComesToRest` that needs no fairness.  `WorkLeft` adds
up the stages before a run and the tasks of every run, a stage weighing more
than all the tasks that listing the directory can create.  Every step shrinks
it, but for the delivery of a job to an idle worker and a new original, which
concerns no task; it is 0 exactly when the workspace is at rest.

`SemanticIndex_proofs` proves, for transcripts of any length, any window and
threshold and any number of jobs, from `SemanticAssumption`: `TypesHold`
(`TypeOK`), `TranscriptsAreKept` (`TranscriptIsKept`), `OlderStaysBehind`
(`OlderBehindNewer`) and `TheFilterKeepsTheClear`: what is embedded is exactly
the chunks below the threshold, each once and in their order.  The invariant
adds `StageInv` (transcript and chunks are there only while they are needed),
`TimeInv` (segments follow one another in time), `OrderInv` (chunks follow one another in time, and what becomes a chunk next
follows them) and `IndexInv` (the job at work has no point yet).  The library's
induction theorems take an operator, which the provers cannot instantiate.
Here induction is proved for sets of numbers instead: `LeastElement`, from the
well-foundedness of the numbers, gives `Induction` over a set, and `Recursion`
that the functions `Noise` and `Clear` are defined with are what their equations
say.  A step of the loop appends one segment, so the cuts so far stay cuts
(`CutStep`), and it makes a new one exactly when the window is full.  A segment
with a text lies in the chunk of the first cut that is not before it, or in the
remainder, which is then not blank (`SaidKept`).

`AuthSession_proofs` proves, for every set of users, tabs and calls, from
`AuthAssumption`: `TypesHold` (`TypeOK`), `CookiesAlwaysAgree` (`CookiesAgree`)
and `NobodyNeedsLoss` (`NobodyAfterLoss`).  They need `AgreeInv` (cookies travel
in pairs), `MadeInv` (a name that was given out is of a session that was made)
and `NobodyInv` (whoever answers for nobody has seen that a session is gone).
`OrderlyCallsSignIn` is `OrderlyIsSignedIn`: as long as calls are orderly,
`OrderlyInv` says that the browser's cookie is of a session with a user unless a
sign-out in flight has deleted it, and that what a call in flight carries is
what the browser has.

Every safety property of the runs is stated by a theorem.  Only model-checked
are the five liveness properties (`JobsDrain`, `EveryChangeSettles`,
`SearchesEnd`, `StreamDrains`, `ComesToRest`): they rest on fairness, and with it
on ENABLED, which the provers do not handle.  For four of them the theorems
above bound the steps there are to take.  `EveryChangeSettles` has no such
bound: the dead-letter queue is a loop (section 5) that goes on beside the
change that settles, and the rejected ones never do (`RejectedAreLost`).  The two properties that the code violates
are counterexamples of TLC.

## 5. What the runs found

Two counterexamples have a run and an entry under `findings`:

* `unpublished`: a video whose metadata is processed after its file is never
  published; only the worker looks at both statuses.
* `deadloop`: a rejected metadata message circulates between the dead-letter
  queue and its consumer, which republishes it to the dead-letter exchange.

The rest was met while modelling or as a counterexample to a stronger
property, which was then weakened to what is true:

* An update during processing makes the video PUBLIC: the guarding status is
  never set.  Two overlapping `completeUpload` calls create two jobs (`jobs` has
  both and shows that they do no harm to what it checks), and a slow UPLOADED of
  one may follow the PROCESSED of the other's job; `UploadedIsOwed` says that the
  slow one's own job is still to come or was lost.  When `queue.add` fails, the
  upload is stuck: it is UPLOADED with an open row, and `completeUpload` refuses
  it.  A failed upload is never retried, although a comment announces a cron job.
* After two changes of different fields the index misses one of them: the point
  is replaced by the payload, and the row is never pulled.  A change still in
  the queue brings the point of a deleted video back.
* A search that waits for another one's fetch is woken before the cache is
  filled and drops the videos it waited for.  One whose waiting task starts only
  after the fetch has ended looks up an Event that is gone, and the whole search
  fails with a KeyError (`WaitMissesEvent`).  A cache entry that is read often
  is refreshed with its own old value and never shows an edit.
* Only the owner of a video can like it, comment on it or track its progress,
  because `findVideo` filters by the caller.  An unsubscription that finds no
  row subscribes.  Two overlapping changes of one vote put both counters off,
  possibly below zero, while their sum stays right (`VotesAddUp`).  The pages of
  comments are sorted upwards but their cursor goes downwards
  (`video.repository.ts:218`).
* A notification's row belongs to its sender, so a subscriber who is not
  connected never sees it; the unread listing and the full one have each
  other's queries.  An entry whose process dies, whose reply is lost or whose
  acknowledgement fails is never delivered again: nobody reads the pending ones
  or claims them.  Without its group the loop polls without end and without
  pause.  A subscriber connected to another process than the one that read the
  entry does not get it.
* What a failed run's straggling uploads put may be of an original that has been
  replaced, in the middle of the next run's rendition: `RenditionIsConsistent`
  needs `overtook`.  A video of three seconds or less has no thumbnail and
  always fails, unless a crashed run of a longer one left its own in the
  directory.  Sources below 360p, and narrow portrait ones, have an empty
  ladder.  `videoPath` defaults to the empty string, so the comparison with null
  that guards it never holds.
* The S3 client of `search_service` has no `download_file`, and nothing
  publishes to the queue of the semantic worker.  After a shorter transcript the
  end of the longer one stays in the index (`OlderBehindNewer` says where).
* A rotation that overlaps a sign-out in another tab makes a session again.  A
  refresh without a session is answered with a token of nobody, and the session
  it makes stays nobody's (`NobodyAfterLoss` says when).  A tab whose token is of
  another user than the session's clears the cookies and leaves the session.
* The gRPC deletion always answers INTERNAL (`grpc_server.py` calls the module
  `container` instead of the container), and behind it `delete_by_pattern` is
  never awaited (`video.py:63`).

## 6. Plan

Done: `VideoLifecycle` with `VideoPublication`, `MetadataPipeline` with
`MetadataChannel`, `SearchCache`, `Engagement`, `NotificationStream`,
`TranscodeWorkspace`, `SemanticIndex`, `AuthSession`, and the proofs of all
their safety properties.  Left, in this order:

1. `VideoDeletion`: the rows, the objects, both vector collections and the
   search service's point and cache, with the calls that fail and the writers
   still in flight.  Abstract specification: what is deleted stays deleted.
   Theorem: what remains is only what a late writer put there.
2. The cached ranking and its pages, next to `SearchCache`.
3. An abstract specification of a rendition that `VideoLifecycle` and
   `TranscodeWorkspace` share, as they share "upload" now.

## 7. Not modelled

The ranking of a query and its cached pages: the order is the model's scores.
The removal of a video by gRPC: it never gets past its error.  The visibility of
chunks and the search over them: it is written once, with the chunk.  Firebase's
verification of a user, listings and pagination, DTO validation, codec options,
logging and health endpoints, configuration, the machine-learning models and
embeddings, database migrations, CI and deployment files: they keep no state
that others race for, or are outside the repository's own logic.
