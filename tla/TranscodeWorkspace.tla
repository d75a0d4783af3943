------------------------- MODULE TranscodeWorkspace -------------------------
(***************************************************************************)
(* One run after the other of the transcoding handler over one video: the  *)
(* working directory they share on the worker's disk, what ffmpeg leaves   *)
(* there, and the uploads to R2, which go on when the run has failed.      *)
(*                                                                         *)
(* VideoLifecycle has the rows and the queue; here a run starts whenever   *)
(* BullMQ delivers a job of the video, for the first time or again.        *)
(***************************************************************************)
EXTENDS Naturals, FiniteSets

CONSTANTS
  Sources,    \* what the client may have put as the original
  None,       \* no file, no object
  MaxRuns,    \* bound: runs over this video
  MaxUploads  \* maxConcurrentUploads, 4 in the code

Shape == [video : BOOLEAN, audio : BOOLEAN,  \* has such a stream
          w : Nat, h : Nat,
          format : Nat, stream : Nat]       \* durations in seconds, 0 if missing

ASSUME WorkspaceAssumption ==
  /\ Sources \subseteq Shape
  /\ None \notin Sources
  /\ MaxRuns \in Nat
  /\ MaxUploads \in Nat \ {0}

VARIABLES
  source,  \* the original in R2
  disk,    \* the working directory of the video
  store,   \* the rendition in R2
  run,     \* number of the last run
  stage,
  outcome, \* of the last run
  upload,  \* the upload tasks of every run
  paths,   \* the uploaded files whose path the run needs
  overtook \* history: uploads of an earlier run were under way when it began

vars == <<source, disk, store, run, stage, outcome, upload, paths, overtook>>

-----------------------------------------------------------------------------
(* The source *)

Tiers == <<[w |-> 640, h |-> 360], [w |-> 854, h |-> 480], [w |-> 1280, h |-> 720],
           [w |-> 1920, h |-> 1080], [w |-> 2560, h |-> 1440], [w |-> 3840, h |-> 2160]>>

(* The variants that exceed the source in neither dimension. *)
Ladder(s) == {q \in 1 .. 6 : Tiers[q].w <= s.w /\ Tiers[q].h <= s.h}

Duration(s) == IF s.format > 0 THEN s.format ELSE s.stream

(* getVideoMetadata and the ladder throw for anything else. *)
Usable(s) == s.video /\ Duration(s) > 0 /\ Ladder(s) # {}

(* The inputs of the manifest: the variants, and the audio after them. *)
Streams(s) == {i \in 0 .. 6 : i < Cardinality(Ladder(s)) \/ (i = Cardinality(Ladder(s)) /\ s.audio)}

-----------------------------------------------------------------------------
(* The files: the number says which tier, or which stream *)

Input      == <<"input", 0>>
Manifest   == <<"manifest", 0>>
Thumb      == <<"thumb", 0>>
Segment(i) == <<"segment", i>>
Interim    == {<<"interim", q>> : q \in 0 .. 6}  \* 0 is the audio track
Named(s)   == {Manifest} \cup {Segment(i) : i \in Streams(s)}
Artifacts  == {Manifest, Thumb} \cup {Segment(i) : i \in 0 .. 6} \cup Interim
Files      == Artifacts \cup {Input}

Content == Sources \cup {None}
Runs    == 1 .. MaxRuns
Task    == [step : {"none", "queued", "open"}, content : Content]
NoTask  == [step |-> "none", content |-> None]
Needed  == {Manifest, Thumb}  \* remoteManifestPath and remoteThumbnailPath

Stage == {"idle", "download", "probe", "audio", "video", "manifest", "tidy", "thumb",
          "list", "upload", "commit", "cleanup"}

TypeOK ==
  /\ source \in Sources
  /\ disk \in [Files -> Content]
  /\ store \in [Artifacts -> Content]
  /\ run \in 0 .. MaxRuns
  /\ stage \in Stage
  /\ outcome \in {"none", "running", "committed", "failed", "crashed"}
  /\ upload \in [Runs -> [Artifacts -> Task]]
  /\ paths \subseteq Needed
  /\ overtook \in BOOLEAN

Init ==
  /\ source \in Sources
  /\ disk = [f \in Files |-> None]
  /\ store = [f \in Artifacts |-> None]
  /\ run = 0 /\ stage = "idle" /\ outcome = "none"
  /\ upload = [r \in Runs |-> [f \in Artifacts |-> NoTask]]
  /\ paths = {} /\ overtook = FALSE

-----------------------------------------------------------------------------
(* A run until the uploads *)

Pending(r, f) == upload[r][f].step \in {"queued", "open"}

Begin ==
  /\ stage = "idle" /\ run < MaxRuns
  /\ run' = run + 1 /\ stage' = "download" /\ outcome' = "running"
  /\ overtook' = \E r \in Runs, f \in Artifacts : Pending(r, f)
  /\ UNCHANGED <<source, disk, store, upload, paths>>

(* What the files of F contain is made from what was downloaded. *)
Write(from, to, F, content) ==
  /\ stage = from
  /\ stage' = to
  /\ disk' = [f \in Files |-> IF f \in F THEN content ELSE disk[f]]
  /\ UNCHANGED <<source, store, run, outcome, upload, paths, overtook>>

Download == Write("download", "probe", {Input}, source)

Throw ==
  /\ stage' = "cleanup" /\ outcome' = "failed"
  /\ UNCHANGED <<source, disk, store, run, upload, paths, overtook>>

Probe ==
  /\ stage = "probe"
  /\ IF Usable(disk[Input]) THEN Write("probe", "audio", {}, None) ELSE Throw

EncodeAudio ==
  Write("audio", "video", IF disk[Input].audio THEN {<<"interim", 0>>} ELSE {}, disk[Input])

(* One ffmpeg command, each tier scaled from the next higher one. *)
EncodeLadder ==
  Write("video", "manifest", {<<"interim", q>> : q \in Ladder(disk[Input])}, disk[Input])

Combine == Write("manifest", "tidy", Named(disk[Input]), disk[Input])

(* Mutant: the tracks are kept, as after a failure. *)
TidyNothing == Write("tidy", "thumb", {}, None)

Tidy == Write("tidy", "thumb", Interim, None)

(* The frame at three seconds: ffmpeg ends without one when there is none. *)
ExtractThumbnail ==
  Write("thumb", "list", IF Duration(disk[Input]) > 3 THEN {Thumb} ELSE {}, disk[Input])

-----------------------------------------------------------------------------
(* Uploading: one task per file found, MaxUploads of them at a time *)

List ==
  /\ stage = "list"
  /\ stage' = "upload"
  /\ upload' = [upload EXCEPT ![run] = [f \in Artifacts |->
       [step |-> IF disk[f] = None THEN "none" ELSE "queued", content |-> None]]]
  /\ UNCHANGED <<source, disk, store, run, outcome, paths, overtook>>

SetTask(r, f, step, content) ==
  upload' = [upload EXCEPT ![r][f] = [step |-> step, content |-> content]]

HasSlot(r) == Cardinality({f \in Artifacts : upload[r][f].step = "open"}) < MaxUploads

(* An open file keeps its content when the directory is removed. *)
Open(r, f) ==
  /\ upload[r][f].step = "queued" /\ HasSlot(r)
  /\ disk[f] # None
  /\ SetTask(r, f, "open", disk[f])
  /\ UNCHANGED <<source, disk, store, run, stage, outcome, paths, overtook>>

(* Mutant: the path of any file is taken for one of the two. *)
PutAny(r, f) ==
  /\ upload[r][f].step = "open"
  /\ store' = [store EXCEPT ![f] = upload[r][f].content]
  /\ SetTask(r, f, "none", None)
  /\ paths' = IF r = run /\ stage = "upload" THEN paths \cup {f} ELSE paths
  /\ UNCHANGED <<source, disk, run, stage, outcome, overtook>>

Put(r, f) ==
  /\ upload[r][f].step = "open"
  /\ store' = [store EXCEPT ![f] = upload[r][f].content]
  /\ SetTask(r, f, "none", None)
  /\ paths' = IF r = run /\ stage = "upload" THEN paths \cup ({f} \cap Needed) ELSE paths
  /\ UNCHANGED <<source, disk, run, stage, outcome, overtook>>

(* Mutant: a file that cannot be opened goes unnoticed. *)
BrokenRequest(r, f) == upload[r][f].step = "open"

(* Opening the file or the request fails. *)
Broken(r, f) ==
  \/ upload[r][f].step = "open"
  \/ upload[r][f].step = "queued" /\ HasSlot(r) /\ disk[f] = None

(* Mutant: Promise.all is allSettled. *)
UploadFailsQuietly(r, f) ==
  /\ Broken(r, f)
  /\ SetTask(r, f, "none", None)
  /\ UNCHANGED <<source, disk, store, run, stage, outcome, paths, overtook>>

(* Promise.all rejects, and the other tasks go on. *)
UploadFails(r, f) ==
  /\ Broken(r, f)
  /\ SetTask(r, f, "none", None)
  /\ IF r = run /\ stage = "upload"
     THEN stage' = "cleanup" /\ outcome' = "failed" /\ paths' = {}
     ELSE UNCHANGED <<stage, outcome, paths>>
  /\ UNCHANGED <<source, disk, store, run, overtook>>

Uploaded ==
  /\ stage = "upload"
  /\ \A f \in Artifacts : upload[run][f].step = "none"
  /\ IF paths = Needed
     THEN stage' = "commit" /\ UNCHANGED outcome
     ELSE stage' = "cleanup" /\ outcome' = "failed"
  /\ paths' = {}
  /\ UNCHANGED <<source, disk, store, run, upload, overtook>>

Commit ==
  /\ stage = "commit"
  /\ stage' = "cleanup" /\ outcome' = "committed"
  /\ UNCHANGED <<source, disk, store, run, upload, paths, overtook>>

-----------------------------------------------------------------------------
(* How a run ends *)

Fail == stage \notin {"idle", "upload", "cleanup"} /\ Throw

Cleanup ==
  /\ stage = "cleanup"
  /\ stage' = "idle"
  /\ disk' = [f \in Files |-> None]
  /\ UNCHANGED <<source, store, run, outcome, upload, paths, overtook>>

(* The error is only logged. *)
CleanupFails ==
  /\ stage = "cleanup"
  /\ stage' = "idle"
  /\ UNCHANGED <<source, disk, store, run, outcome, upload, paths, overtook>>

(* The directory outlives the worker, its requests do not. *)
Crash ==
  /\ stage # "idle"
  /\ stage' = "idle" /\ outcome' = IF outcome = "committed" THEN outcome ELSE "crashed"
  /\ upload' = [r \in Runs |-> [f \in Artifacts |-> NoTask]]
  /\ paths' = {}
  /\ UNCHANGED <<source, disk, store, run, overtook>>

(* The presigned URL takes another file while it is valid. *)
Replace(s) ==
  /\ s # source
  /\ source' = s
  /\ UNCHANGED <<disk, store, run, stage, outcome, upload, paths, overtook>>

-----------------------------------------------------------------------------
Work ==
  \/ Download \/ Probe \/ EncodeAudio \/ EncodeLadder \/ Combine \/ Tidy
  \/ ExtractThumbnail \/ List \/ Uploaded \/ Commit \/ Cleanup \/ CleanupFails

Transfer(r, f) == Open(r, f) \/ Put(r, f) \/ UploadFails(r, f)

Transferring == \E r \in Runs, f \in Artifacts : Transfer(r, f)

Next ==
  \/ Begin \/ Work \/ Fail \/ Crash
  \/ Transferring
  \/ \E s \in Sources : Replace(s)

Spec == Init /\ [][Next]_vars

(* ffmpeg, the disk and R2 answer, well or not. *)
Progress == WF_vars(Work) /\ WF_vars(Transferring)

FairSpec == Spec /\ Progress

-----------------------------------------------------------------------------
(* Properties *)

(* Nothing of the encoder's workspace is ever published, whatever a crashed
   run left on the disk (ffmpeg.service.ts:161). *)
InterimStaysHome == \A f \in Interim : store[f] = None

(* Once a run has committed, the stored manifest and the segments it names are
   of one source, unless it overtook uploads of a run that had failed before
   it: what those put later may be of an original that has been replaced
   (video-processing.service.ts:184). *)
RenditionIsConsistent ==
  outcome = "committed" /\ ~ overtook =>
    store[Manifest] # None /\ \A f \in Named(store[Manifest]) : store[f] = store[Manifest]

AtRest == stage = "idle" /\ \A r \in Runs, f \in Artifacts : ~ Pending(r, f)

(* The workspace comes to rest: a run ends, a failed upload gives its slot
   back, and those behind it find out that their file has gone. *)
ComesToRest == []<>AtRest
-----------------------------------------------------------------------------
(* The inductive invariant *)

Encoded  == {"tidy", "thumb", "list", "upload", "commit"}
Probed   == {"probe", "audio", "video", "manifest"} \cup Encoded
InTheRun == {"download"} \cup Probed

RunInv == stage # "idle" \/ outcome = "committed" => run \in Runs

(* From the download to the commit a run works on the source it downloaded. *)
DiskInv ==
  /\ stage \in InTheRun => outcome = "running"
  /\ stage \in Probed => disk[Input] \in Sources
  /\ stage \in Encoded => \A f \in Named(disk[Input]) : disk[f] = disk[Input]

(* Only runs that have begun upload, and only this one unless it overtook. *)
TaskInv ==
  \A r \in Runs, f \in Artifacts : Pending(r, f) =>
    /\ r <= run
    /\ overtook \/ r = run
    /\ r = run => outcome # "committed" /\ stage \notin InTheRun \ {"upload"}

(* What a run has not put yet it has still to put. *)
StoreInv ==
  ~ overtook /\ stage \in {"upload", "commit"} =>
    \A f \in Named(disk[Input]) :
      /\ store[f] = disk[Input] \/ (stage = "upload" /\ Pending(run, f))
      /\ upload[run][f].step = "open" => upload[run][f].content = disk[Input]

InterimInv ==
  \A q \in Interim :
    /\ store[q] = None
    /\ \A r \in Runs : ~ Pending(r, q)
    /\ stage \in {"thumb", "list"} => disk[q] = None

IInv ==
  /\ TypeOK /\ RunInv /\ DiskInv /\ TaskInv /\ StoreInv
  /\ InterimInv /\ RenditionIsConsistent
-----------------------------------------------------------------------------
(* Why the workspace comes to rest: the steps it has still to take. *)

StageWork ==
  CASE stage = "idle"     -> 0
    [] stage = "cleanup"  -> 1
    [] stage = "commit"   -> 2
    [] stage = "upload"   -> 3
    [] stage = "list"     -> 4
    [] stage = "thumb"    -> 5
    [] stage = "tidy"     -> 6
    [] stage = "manifest" -> 7
    [] stage = "video"    -> 8
    [] stage = "audio"    -> 9
    [] stage = "probe"    -> 10
    [] stage = "download" -> 11

Tasks(step) == {t \in Runs \X Artifacts : upload[t[1]][t[2]].step = step}

(* A stage outweighs the tasks that List may create. *)
StageWeight == 2 * Cardinality(Artifacts) + 1

WorkLeft ==
  StageWeight * StageWork + 2 * Cardinality(Tasks("queued")) + Cardinality(Tasks("open"))

(* Only a delivery of the job brings new work, and only to an idle worker. *)
WindsDown == Begin \/ (\E s \in Sources : Replace(s)) \/ WorkLeft' < WorkLeft
=============================================================================
