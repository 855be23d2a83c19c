SPECIFICATION MCSpec
CONSTANTS
  u1 = u1
  u2 = u2
  u3 = u3
  e1 = e1
  e2 = e2
  c1 = c1
  c2 = c2
  Calls = {c1, c2}
  Accounts = {u1, u2, u3}
  Admins = {u1, u2}
  Emails = {e1, e2}
  MaxWrong = 2
  MaxEdits = 2
  MaxMails = 2
  MaxPasswords = 2
SYMMETRY Symmetry
INVARIANT NoLockout
CHECK_DEADLOCK FALSE
