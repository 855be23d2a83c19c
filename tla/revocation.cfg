SPECIFICATION GrantSpec
CONSTANTS
  Users = {u1}
  Vendors <- OneVendor
  Models <- TwoModels
  HomeOf <- OneHome
  Serving <- OneServing
  Tickets = {t1}
  Calls = {h1, h2}
  OrgExceptions = {"m1"}
  Retired = {"m1"}
SYMMETRY Symmetry
INVARIANT OnlyStraysUncovered
PROPERTY RevocationCascades
CHECK_DEADLOCK FALSE
