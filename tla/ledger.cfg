SPECIFICATION Spec
CONSTANTS
  Orgs <- MCOrgs
  Users <- MCUsers
  OrgOf <- MCOrgOf
  AdminOf <- MCAdminOf
  Reqs = {r1, r2}
  Dialect = "sqlite"
  NULL = NULL
  MaxInt = 6
  MaxCost = 2
  InitialQuotas = {1}
  OrgDeltas <- MCOrgDeltas
  OrgTargets = {2}
  UserDeltas = {1}
  MonthlyCaps = {1}
  MaxGrants = 3
  MaxPeriod = 2
SYMMETRY Symmetry
INVARIANTS GrantsMatchLimit UsedMatchesLogs ArrearsMeansExhausted OverdraftBound MonthlyAccurate
PROPERTIES ManualDisableSticky
CHECK_DEADLOCK FALSE
