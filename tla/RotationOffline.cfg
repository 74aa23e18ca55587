SPECIFICATION MobileSpec
CONSTANTS
  Tasks = {k1}
  MaxPairs = 3
  MaxActs = 1
  Troubles = {"network", "expire"}
INVARIANT ExpiredMeansCleared
CHECK_DEADLOCK FALSE
