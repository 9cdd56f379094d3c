SPECIFICATION Spec
CONSTANTS
  MY_ID = 1
  EmergencyTime = 20
  SendInterval = 3
INVARIANTS
  TapReported
