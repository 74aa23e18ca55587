SPECIFICATION SignInSpec
CONSTANTS
  Accounts = {a1}
  Tokens = {t1, t2, t3}
  Requests = {r1, r2}
  NoAccount = NoAccount
  NoToken = NoToken
  MaxResets = 1
  Disturbances = {}
  Tasks = {k1, k2}
  MaxPairs = 3
  MaxActs = 2
  Troubles = {"network", "refusal", "expire", "revoke", "kill"}
INVARIANT MobileInv
INVARIANT NoSelfTheft
INVARIANT PairsMatch
INVARIANT SessionMatchesStore
PROPERTY EndedChainDrains
PROPERTY ApiKeepsPromise
PROPERTY LoadingEnds
CHECK_DEADLOCK FALSE
