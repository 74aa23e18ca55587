SPECIFICATION Spec
CONSTANTS
  Accounts = {a1, a2, a3}
  FamilyIds = {f1, f2}
  Codes = {c1}
  Requests = {r1, r2}
  NoAccount = NoAccount
  NoFamily = NoFamily
  NoCode = NoCode
SYMMETRY Symmetry
INVARIANT FamiliesInv
INVARIANT FamilyKeepsOwner
PROPERTY ImplementsHouseholds
INVARIANT LogTellsMembership
INVARIANT NoOrphans
CHECK_DEADLOCK FALSE
