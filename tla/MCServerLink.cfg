SPECIFICATION LinkSpec
CONSTANTS
  PingEvery = 5
  PongWithin = 2
  RetryEvery = 10
  UpWithin = 24
INVARIANTS
  LinkTypeOK
  UpInTime
