\* A deletion racing one upload, its job, an update and the answer to it, with
\* a retry of the job and a crash that reruns it.
CONSTANTS
  Jobs = {j1}
  Updates = {u1}
  Deletes = {d1}
  MaxAttempts = 2
  MaxStalls = 1
SPECIFICATION FairSpec
INVARIANTS
  DeletedLeavesNoRow
PROPERTIES
  ImplementsPublication
  ImplementsChannel
  JobsDrain
