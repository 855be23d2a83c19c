SPECIFICATION GateSpec
CONSTANTS
  Reqs = {r1, r2, r3}
  MaxSlots = 2
  Lease = 3
  MaxHold = 13
  RedisFails = FALSE
SYMMETRY Symmetry
INVARIANT SlotLimit
CHECK_DEADLOCK FALSE
