SPECIFICATION CloseSpec
CONSTANTS
  Admin = Admin
  Nodes = {n1}
  Retention = 3
  LongMonths = {2}
  LastMonth = 4
  RowsPerMonth = 1
  MaxFaults = 1
  MaxManual = 0
INVARIANT MonthEndExact
CHECK_DEADLOCK FALSE
