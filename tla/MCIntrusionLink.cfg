SPECIFICATION LinkSpec
CONSTANTS
  MY_ID = 0
  EdgeLimit = 2
  EmergencyTime = 20
  SendInterval = 3
  PollAfter = 11
  TimeoutAfter = 3
  LossBound = 7
INVARIANTS
  LinkTypeOK
  ReportedInTime
  ReportIsTrue
  FalseTimeoutTakesLosses
  MissedIntrusionTakesLosses
PROPERTIES
  EmergencyEnds
  DeadSensorShown
