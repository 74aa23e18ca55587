SPECIFICATION Spec
CONSTANTS
  Accounts = {a1, a2}
  FamilyIds = {f1, f2}
  Codes = {c1}
  Requests = {r1, r2}
  NoAccount = NoAccount
  NoFamily = NoFamily
  NoCode = NoCode
SYMMETRY Symmetry
INVARIANT OwnerIsNeverDeleted
CHECK_DEADLOCK FALSE
