SPECIFICATION GateSpec
CONSTANTS
  Reqs = {r1, r2, r3}
  MaxSlots = 2
  Lease = 3
  MaxHold = 13
  RedisFails = TRUE
SYMMETRY Symmetry
INVARIANTS ConcurrencyBound CrashFreesSlot ReleasedStaysFree
CHECK_DEADLOCK FALSE
