SPECIFICATION MCSpec
CONSTANTS
  Orgs <- MCOrgs
  Users <- MCUsers
  OrgOf <- MCOrgOf
  AdminOf <- MCAdminOf
  Reqs = {}
  Dialect = "postgres"
  NULL = NULL
  MaxInt = 3
  MaxCost = 0
  InitialQuotas = {0, 1}
  OrgDeltas = {1}
  OrgTargets = {}
  UserDeltas = {1}
  MonthlyCaps = {}
  MaxGrants = 2
  MaxPeriod = 1
  Tickets = {t1, t2}
  Handlers = {h1, h2}
  TicketAmounts = {1}
  n1 = n1
  n2 = n2
  Admin = Admin
  Nodes = {n1, n2}
  Retention = 1
  LongMonths = {2}
  LastMonth = 4
  RowsPerMonth = 2
  MaxFaults = 2
  MaxManual = 1
INVARIANTS CreditedExactly ClosedExactly BillReconciles NothingLost
PROPERTIES ImplementsLedger OldLogsLeave
CHECK_DEADLOCK FALSE
