SPECIFICATION Spec
CONSTANTS
  Members = {m1}
  Keys = {k1}
  Payloads = {p1}
  Resources = {x1, x2}
  Requests = {r1, r2}
  NoSlot = NoSlot
  NoPayload = NoPayload
  NoResource = NoResource
  Rejecting = {"audit", "complete"}
  CanCrash = FALSE
SYMMETRY Symmetry
INVARIANT AtMostOnce
CHECK_DEADLOCK FALSE
