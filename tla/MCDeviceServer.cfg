SPECIFICATION Spec
CONSTANTS
  MaxConn = 2
  User = {u1, u2}
  State = {"OK", "EMERGENCY"}
  NoOne = NoOne
  MaxJobs = 2
  MaxSent = 2
INVARIANTS
  TypeOK
  RowsNeedOverlap
  LastStateKept
  OnlineIsTrue
PROPERTIES
  OwnerKept
  EndedIsOffline
CHECK_DEADLOCK FALSE
