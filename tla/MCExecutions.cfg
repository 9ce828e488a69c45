SPECIFICATION Spec
CONSTANTS
  e1 = e1
  e2 = e2
  A = A
  B = B
  Exec <- MCExec
  Accounts <- MCAccounts
  Account <- MCAccount
  Every = Every
  DayLength = 2
  MaxDays = 3
  MaxTime = 5
  NotYet = NotYet
  Empty = "zero"
INVARIANTS EachExecutionOnce
PROPERTIES ReportReachesRow
