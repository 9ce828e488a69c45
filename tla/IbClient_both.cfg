SPECIFICATION FairSpec
CONSTANTS
  Task = {t1, t2, t3}
  Nobody = Nobody
  Owners = {"operator", "agent"}
  MaxConnectors = 6
  MaxOpen = 2
INVARIANTS SerialCallerHasNoOrphan ReportedIsUp
PROPERTIES OnlyRequestsMakeOrphans LockIsGranted
