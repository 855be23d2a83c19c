SPECIFICATION GrantSpec
CONSTANTS
  Users = {u1}
  Vendors <- MCVendors
  Models <- TwoModels
  HomeOf <- TwoHomes
  Serving <- TwoServing
  Tickets = {t1}
  Calls = {h1, h2}
  OrgExceptions = {}
  Retired = {}
SYMMETRY Symmetry
INVARIANT CallsCovered
CHECK_DEADLOCK FALSE
