SPECIFICATION Spec
CONSTANTS
  Accounts = {a1}
  Tokens = {t1, t2, t3}
  Requests = {r1, r2}
  NoAccount = NoAccount
  NoToken = NoToken
  MaxResets = 1
  Disturbances = {"fail", "expire", "disable"}
INVARIANT ChainInv
INVARIANT ResetEndsOtherSessions
SYMMETRY Symmetry
PROPERTY ImplementsChains
CHECK_DEADLOCK FALSE
