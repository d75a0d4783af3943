\* Two changes, rejections and a deletion, with the code's limit: what is
\* rejected circulates beside the rest.
CONSTANTS
  Changes = {u1, u2}
  None = None
  MaxRetries = 3
  MaxLosses = 0
SPECIFICATION FairSpec
PROPERTIES
  EveryChangeSettles
CHECK_DEADLOCK FALSE
