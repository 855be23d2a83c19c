SPECIFICATION MCSpec
CONSTANTS
  r1 = r1
  c1 = c1
  c2 = c2
  k1 = k1
  k2 = k2
  Requests = {r1}
  Channels = {c1, c2}
  Keys = {k1, k2}
  VendorOf <- MCVendorOf
  Priority <- MCPriority
  Sealed = {}
  Coordinators = {"mem", "redis"}
  CooldownScope = "channel"
  MaxConcurrency = 1
  MaxCandidates = 3
  MaxItems = 5
  MaxParts = 4
INVARIANTS SlotsAccounted StatusTellsCause RequestFaithful EventsNest Rebuilt Harvested
PROPERTIES EveryRequestEnds
CHECK_DEADLOCK FALSE
