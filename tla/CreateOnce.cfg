SPECIFICATION FairSpec
CONSTANTS
  Members = {m1}
  Keys = {k1}
  Payloads = {p1, p2}
  Resources = {x1, x2}
  Requests = {r1, r2, r3}
  NoSlot = NoSlot
  NoPayload = NoPayload
  NoResource = NoResource
  Rejecting = {"reserve", "validate", "insert", "release", "lookup", "reload"}
  CanCrash = TRUE
INVARIANT OnceInv
PROPERTY ImplementsKeyedCreates
INVARIANT RepliesNameTheCreate
PROPERTY PendingSettles
CHECK_DEADLOCK FALSE
