SPECIFICATION Spec
CONSTANTS
  Accounts = {a1}
  Tokens = {t1, t2}
  Requests = {r1, r2}
  NoAccount = NoAccount
  NoToken = NoToken
  MaxResets = 1
  Disturbances = {}
SYMMETRY Symmetry
INVARIANT ResetEndsOldSessions
CHECK_DEADLOCK FALSE
