SPECIFICATION Spec
CONSTANTS
  Accounts = {x1}
  IncomeCategories = {i1}
  ExpenseCategories = {e1}
  SystemCategories = {i1, e1}
  Details = {d1}
  Movements = {m1}
  Requests = {r1, r2}
  NoCategory = NoCategory
  NoDoc = NoDoc
  NoMovement = NoMovement
  MaxRequests = 3
SYMMETRY Symmetry
INVARIANT KindsAlwaysMatch
CHECK_DEADLOCK FALSE
