\* Three calls of any kind from two tabs, of one user or of two, with every
\* failure.
CONSTANTS
  Users = {u1, u2}
  Tabs = {t1, t2}
  Calls = {c1, c2, c3}
  Nobody = Nobody
  None = None
  MaxSessions = 2
SPECIFICATION Spec
INVARIANTS
  TypeOK
  CookiesAgree
  NobodyAfterLoss
PROPERTIES
  OrderlyIsSignedIn
CHECK_DEADLOCK FALSE
