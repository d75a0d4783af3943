\* Two changes, a deletion, and every fault.
CONSTANTS
  Changes = {u1, u2}
  None = None
  MaxRetries = 3
  MaxLosses = 1
SPECIFICATION Spec
SYMMETRY Symmetric
INVARIANTS
  TypeOK
  NothingLost
PROPERTIES
  ImplementsChannel
  IndexMovesForward
CHECK_DEADLOCK FALSE
