SPECIFICATION HealthSpec
CONSTANTS
  Channels = {c1}
  Vendors <- MCVendors
  Keys <- MCKeys
  Models = {m1}
  PoolOf <- OnePool
  Workers <- MCWorkers
  JobsOf <- MCJobs
  Retirable = {c1, m1, "v1"}
  Threshold = 1
  TestThreshold = 1
INVARIANTS SwitchedOffStays QuietChannels QuietModels
PROPERTY Recovers
CHECK_DEADLOCK FALSE
