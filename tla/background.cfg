SPECIFICATION MCSpec
CONSTANTS
  n1 = n1
  n2 = n2
  c1 = c1
  c2 = c2
  t1 = t1
  t2 = t2
  Gates = {n1, n2}
  Checks = {c1, c2}
  Budgets = {0, 2, 4}
  LevelChoices <- OneOrTwoLevels
  BalanceChoices = {0, 2}
  MaxUsed = 2
  MaxChanges = 1
  MaxStops = 1
  Tasks = {t1, t2}
  Sweepers = {n1}
  Clients = {c1}
  BatchLimit = 1
INVARIANTS OneMailPerCrossing
PROPERTIES CrossingsTold ImplementsBilling CompensationSettles
CHECK_DEADLOCK FALSE
