\* Two completeUpload calls, one update and every fault; jobs are retried once,
\* and a crash drops the job (delete has the crash that reruns it).
CONSTANTS
  Jobs = {j1, j2}
  Updates = {u1}
  Deletes = {}
  MaxAttempts = 2
  MaxStalls = 0
SPECIFICATION Spec
SYMMETRY Symmetric
INVARIANTS
  TypeOK
  PublishedIsReady
  CompletedIsPlayable
  UploadedIsOwed
  GoneForAReason
