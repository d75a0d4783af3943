\* Two concurrent searches for two videos, with every fault.
CONSTANTS
  Searches = {s1, s2}
  Videos = {v1, v2}
  None = None
  MaxEdits = 1
  MaxChanged = 1
SPECIFICATION FairSpec
INVARIANTS
  TypeOK
  OneFetchPerVideo
  NoLostWakeup
PROPERTIES
  SearchesEnd
