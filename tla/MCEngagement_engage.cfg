\* Three calls of any kind by the owner and a viewer, with every failure.
CONSTANTS
  Calls = {c1, c2, c3}
  Users = {owner, viewer}
  Owner = owner
SPECIFICATION Spec
INVARIANTS
  TypeOK
  VotesAddUp
  SubscribersAddUp
  NoOrphans
PROPERTIES
  SequentialIsExact
CHECK_DEADLOCK FALSE
