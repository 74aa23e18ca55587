SPECIFICATION MobileSpec
CONSTANTS
  Tasks = {k1, k2}
  MaxPairs = 2
  MaxActs = 3
  Troubles = {}
INVARIANT CodeEntryVerifies
CHECK_DEADLOCK FALSE
