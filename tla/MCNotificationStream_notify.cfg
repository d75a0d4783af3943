\* Two notifications, two processes, two tabs, one crash, every failure.
CONSTANTS
  Notes = {n1, n2}
  Users = {u1}
  Tabs = {t1, t2}
  Processes = {p1, p2}
  None = None
  BatchSize = 2
  MaxCrashes = 1
SPECIFICATION FairSpec
INVARIANTS
  TypeOK
  NeverPushedAgain
  AckedWasPushed
  OpenStreamsAreServed
PROPERTIES
  InOrder
  StreamDrains
