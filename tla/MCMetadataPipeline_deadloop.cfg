\* One message whose processing fails once.
CONSTANTS
  Changes = {u1}
  None = None
  MaxRetries = 3
  MaxLosses = 0
SPECIFICATION FairSpec
PROPERTIES
  DeadLettersSettle
CHECK_DEADLOCK FALSE
