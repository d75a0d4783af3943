---------------------------- MODULE SemanticIndex ----------------------------
(***************************************************************************)
(* What the semantic worker makes searchable of one video: the segments    *)
(* Whisper hears merged into chunks, the captions of frames when nobody    *)
(* speaks, and the points in Qdrant, which job after job writes at the     *)
(* positions of its own chunks.                                            *)
(*                                                                         *)
(* Times are seconds, and noise is a probability in percent.               *)
(***************************************************************************)
EXTENDS Integers, Sequences, FiniteSetsExt

CONSTANTS
  Utterances,    \* what Whisper may hear next
  Durations,     \* what ffprobe may say of the file
  Window,        \* CHUNK_WINDOW_SECONDS
  CaptionWindow, \* CAPTION_WINDOW_SECONDS
  Threshold,     \* NO_SPEECH_THRESHOLD
  CanDownload,   \* whether the S3 client has download_file
  MaxSegments,   \* bound: segments of one transcript
  MaxJobs        \* bound: jobs over this video

Utterance == [pause : Nat, length : Nat \ {0}, noise : 0 .. 100, blank : BOOLEAN]

ASSUME SemanticAssumption ==
  /\ Utterances \subseteq Utterance
  /\ Durations \subseteq Nat
  /\ Window \in Nat \ {0} /\ CaptionWindow \in Nat \ {0} /\ Threshold \in 0 .. 100
  /\ CanDownload \in BOOLEAN
  /\ MaxSegments \in Nat /\ MaxJobs \in Nat

VARIABLES
  job,      \* number of the last job
  stage,
  segments, \* that the loop over the transcript has taken
  buffer,   \* text_buf, start_buf, end_buf and prob_buf
  chunks,
  start,    \* of the next caption window
  duration,
  index     \* the points of the video, by position

vars == <<job, stage, segments, buffer, chunks, start, duration, index>>

-----------------------------------------------------------------------------
(* The data *)

Segment == [start : Nat, end : Nat, noise : Nat, blank : BOOLEAN]
Chunk   == [start : Nat, end : Nat, noise : Nat, count : Nat, source : {"audio", "caption"}]
Buffer  == [start : Nat, end : Nat, noise : Nat, count : Nat, blank : BOOLEAN]
Point   == [job : Nat, start : Nat, end : Nat, source : {"audio", "caption"}]

NoText == [start |-> 0, end |-> 0, noise |-> 0, count |-> 0, blank |-> TRUE]

Stage == {"idle", "download", "extract", "merge", "captions", "embed"}

TypeOK ==
  /\ job \in 0 .. MaxJobs
  /\ stage \in Stage
  /\ segments \in Seq(Segment)
  /\ buffer \in Buffer
  /\ chunks \in Seq(Chunk)
  /\ start \in Nat /\ duration \in Nat
  /\ index \in Seq(Point)

Init ==
  /\ job = 0 /\ stage = "idle"
  /\ segments = <<>> /\ buffer = NoText /\ chunks = <<>>
  /\ start = 0 /\ duration = 0
  /\ index = <<>>

-----------------------------------------------------------------------------
(* A job until there is something to transcribe *)

Start ==
  /\ stage = "idle" /\ job < MaxJobs
  /\ job' = job + 1 /\ stage' = "download"
  /\ UNCHANGED <<segments, buffer, chunks, start, duration, index>>

Rest == segments' = <<>> /\ buffer' = NoText /\ chunks' = <<>> /\ start' = 0 /\ duration' = 0

Download ==
  /\ stage = "download"
  /\ stage' = IF CanDownload THEN "extract" ELSE "idle"
  /\ Rest /\ UNCHANGED <<job, index>>

(* A file without an audio track goes to the captions. *)
ExtractAudio ==
  /\ stage = "extract"
  /\ stage' = "merge"
  /\ UNCHANGED <<job, segments, buffer, chunks, start, duration, index>>

ToCaptions(d) ==
  /\ stage' = "captions"
  /\ start' = 0 /\ duration' = d
  /\ segments' = <<>> /\ buffer' = NoText /\ chunks' = <<>>
  /\ UNCHANGED <<job, index>>

NoAudio(d) == stage = "extract" /\ ToCaptions(d)

-----------------------------------------------------------------------------
(* merge_segments_to_chunks *)

Clock == IF segments = <<>> THEN 0 ELSE segments[Len(segments)].end

Heard(u) == [start |-> Clock + u.pause, end |-> Clock + u.pause + u.length,
             noise |-> u.noise, blank |-> u.blank]

Merged(s) == [start |-> IF buffer.count = 0 THEN s.start ELSE buffer.start,
              end   |-> s.end,
              noise |-> buffer.noise + s.noise,
              count |-> buffer.count + 1,
              blank |-> buffer.blank /\ s.blank]

AudioChunk(b) == [start |-> b.start, end |-> b.end, noise |-> b.noise, count |-> b.count,
                  source |-> "audio"]

AddSegment(u) ==
  /\ stage = "merge" /\ Len(segments) < MaxSegments
  /\ segments' = Append(segments, Heard(u))
  /\ LET b == Merged(Heard(u))
     IN  IF b.end - b.start >= Window
         THEN chunks' = Append(chunks, AudioChunk(b)) /\ buffer' = NoText
         ELSE buffer' = b /\ UNCHANGED chunks
  /\ UNCHANGED <<job, stage, start, duration, index>>

(* Mutant: what is left after the loop is not flushed. *)
LoopChunks == chunks

(* The rest of the video is a chunk too, however short, unless it is blank. *)
AllChunks == IF buffer.blank THEN chunks ELSE Append(chunks, AudioChunk(buffer))

(* no_speech_prob_avg, the mean over the segments, is below the threshold. *)
Clearly(c) == c.noise < Threshold * c.count

Clear(s) ==
  LET kept[n \in 0 .. Len(s)] ==
        IF n = 0 THEN <<>>
        ELSE IF Clearly(s[n]) THEN Append(kept[n - 1], s[n]) ELSE kept[n - 1]
  IN  kept[Len(s)]

Valid == Clear(AllChunks)

EndOfTranscript ==
  /\ stage = "merge" /\ Valid # <<>>
  /\ stage' = "embed"
  /\ chunks' = Valid
  /\ segments' = <<>> /\ buffer' = NoText
  /\ UNCHANGED <<job, start, duration, index>>

NoClearSpeech(d) == stage = "merge" /\ Valid = <<>> /\ ToCaptions(d)

-----------------------------------------------------------------------------
(* _generate_caption_chunks: a frame of each window, and its caption; a window
   whose frame or caption fails is left out *)

CaptionChunk == [start  |-> start,
                 end    |-> IF start + CaptionWindow < duration THEN start + CaptionWindow
                            ELSE duration,
                 noise  |-> 0, count |-> 0, source |-> "caption"]

Describe ==
  /\ stage = "captions" /\ start < duration
  /\ chunks' = Append(chunks, CaptionChunk)
  /\ start' = CaptionChunk.end
  /\ UNCHANGED <<job, stage, segments, buffer, duration, index>>

Skip ==
  /\ stage = "captions" /\ start < duration
  /\ start' = CaptionChunk.end
  /\ UNCHANGED <<job, stage, segments, buffer, chunks, duration, index>>

(* A video without a frame is not indexed. *)
EndOfCaptions ==
  /\ stage = "captions" /\ start >= duration
  /\ IF chunks = <<>>
     THEN stage' = "idle" /\ Rest
     ELSE stage' = "embed" /\ start' = 0 /\ duration' = 0 /\ UNCHANGED <<segments, buffer, chunks>>
  /\ UNCHANGED <<job, index>>

-----------------------------------------------------------------------------
(* upsert_chunks: the id of a point is the video's and the position *)

(* Mutant: the payload has no source. *)
PointsUnsourced == [i \in DOMAIN chunks |-> [job |-> job, start |-> chunks[i].start,
                                             end |-> chunks[i].end]]

Points == [i \in DOMAIN chunks |-> [job |-> job, start |-> chunks[i].start,
                                    end |-> chunks[i].end, source |-> chunks[i].source]]

(* Mutant: the ids go on after those that are there. *)
UpsertBehind ==
  /\ stage = "embed"
  /\ index' = index \o Points
  /\ stage' = "idle" /\ Rest
  /\ UNCHANGED job

Upsert ==
  /\ stage = "embed"
  /\ index' = Points \o SubSeq(index, Len(chunks) + 1, Len(index))
  /\ stage' = "idle" /\ Rest
  /\ UNCHANGED job

(* Anything throws: the job fails, and the queue may deliver it again. *)
Fail ==
  /\ stage # "idle"
  /\ stage' = "idle" /\ Rest
  /\ UNCHANGED <<job, index>>

-----------------------------------------------------------------------------
Work ==
  \/ Download \/ ExtractAudio \/ EndOfTranscript
  \/ \E u \in Utterances : AddSegment(u)
  \/ \E d \in Durations : NoAudio(d) \/ NoClearSpeech(d)
  \/ Describe \/ Skip \/ EndOfCaptions \/ Upsert

Next == Start \/ Work \/ Fail

Spec == Init /\ [][Next]_vars

-----------------------------------------------------------------------------
(* Properties *)

(* Of the first n segments, for every n. *)
Noise(s) ==
  LET sum[n \in 0 .. Len(s)] == IF n = 0 THEN 0 ELSE sum[n - 1] + s[n].noise
  IN  sum

(* The segments i .. j, as text and as a chunk. *)
Text(i, j)  == [start |-> segments[i].start, end |-> segments[j].end,
                noise |-> Noise(segments)[j] - Noise(segments)[i - 1],
                count |-> j - i + 1, blank |-> \A k \in i .. j : segments[k].blank]
Whole(i, j) == AudioChunk(Text(i, j))

Span(i, j) == segments[j].end - segments[i].start

(* What ends with the segment j begins after the cut before it. *)
First(cuts, j) == Max({0} \cup {k \in cuts : k < j}) + 1

Remainder(cuts) ==
  LET n == Len(segments)
  IN  IF First(cuts, n + 1) > n THEN NoText ELSE Text(First(cuts, n + 1), n)

(* The loop over the transcript cuts it where the window is full and nowhere
   else: every segment is in one chunk or in the buffer, with its own noise
   and no other (transcription_service.py:60). *)
CutAt(cuts) ==
  /\ Cardinality(cuts) = Len(chunks)
  /\ \A j \in cuts :
       /\ chunks[Cardinality({k \in cuts : k <= j})] = Whole(First(cuts, j), j)
       /\ Span(First(cuts, j), j) >= Window
  /\ \A j \in DOMAIN segments \ cuts : Span(First(cuts, j), j) < Window
  /\ buffer = Remainder(cuts)
CutWhereFull == stage = "merge" => \E cuts \in SUBSET DOMAIN segments : CutAt(cuts)

(* Nothing that is said is lost with the end of the transcript: each segment
   with a text lies in one of the chunks, those of the remainder too, and only
   a remainder of nothing but blanks is dropped (transcription_service.py:87). *)
Inside(k, c) == c.start <= segments[k].start /\ segments[k].end <= c.end
SaidIsKept ==
  stage = "merge" => \A k \in DOMAIN segments :
    \/ segments[k].blank
    \/ \E i \in DOMAIN AllChunks : Inside(k, AllChunks[i])

(* The chunks of a transcript are cut where the window is full, and together
   with the remainder they hold all that is said (transcription_service.py:70). *)
TranscriptIsKept == CutWhereFull /\ SaidIsKept

(* After a shorter transcript the points of the longer one before it stay, but
   only behind those of the newer job, and a job's points follow the video:
   the stale ones can be told by their position (chunk_qdrant.py:95). *)
OlderBehindNewer ==
  \A i, j \in DOMAIN index : i < j =>
    /\ index[i].job >= index[j].job
    /\ index[i].job = index[j].job => index[i].end <= index[j].start
-----------------------------------------------------------------------------
(* The inductive invariant *)

(* The transcript is there while it is merged, the chunks until the upsert. *)
StageInv ==
  /\ stage # "merge" => segments = <<>> /\ buffer = NoText
  /\ stage \in {"idle", "download", "extract"} => chunks = <<>>

(* Whisper's segments follow one another. *)
TimeInv ==
  \A i, j \in DOMAIN segments :
    /\ segments[i].start <= segments[i].end
    /\ i < j => segments[i].end <= segments[j].start

(* The chunks follow one another, and what becomes a chunk next follows them. *)
OrderInv ==
  /\ \A i, j \in DOMAIN chunks : i < j => chunks[i].end <= chunks[j].start
  /\ \A i \in DOMAIN chunks :
       /\ stage = "merge" => chunks[i].end <= IF buffer.count = 0 THEN Clock ELSE buffer.start
       /\ stage = "captions" => chunks[i].end <= start

(* The job at work has no point yet. *)
IndexInv ==
  \A i \in DOMAIN index : index[i].job <= job /\ (stage # "idle" => index[i].job < job)

IInv == TypeOK /\ StageInv /\ TimeInv /\ OrderInv /\ IndexInv /\ CutWhereFull /\ OlderBehindNewer
=============================================================================
