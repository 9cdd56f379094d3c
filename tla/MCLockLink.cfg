SPECIFICATION LinkSpec
CONSTANTS
  MY_ID = 3
  SendInterval = 3
  HoldTime = 3
  Card = {"member", "stranger"}
  NoKey = "none"
  Member = "member"
  PollAfter = 11
  TimeoutAfter = 3
  LossBound = 2
INVARIANTS
  OneCodePerCard
  NeverQuietForLong
  MemberSwitches
  StrangerNeverSwitches
  LedShowsAlarm
  FalseTimeoutTakesLosses
