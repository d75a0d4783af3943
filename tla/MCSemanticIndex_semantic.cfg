\* Two jobs over transcripts of up to five segments, with every failure, and
\* the S3 client the tests mock.
CONSTANTS
  Utterances <- MCUtterances
  Durations = {0, 2, 5}
  Window = 3
  CaptionWindow = 2
  Threshold = 60
  CanDownload = TRUE
  MaxSegments = 5
  MaxJobs = 2
SPECIFICATION Spec
INVARIANTS
  TypeOK
  TranscriptIsKept
  OlderBehindNewer
CHECK_DEADLOCK FALSE
