SPECIFICATION Spec
CONSTANTS
  Slot <- MCSlot
  PresetType <- MCPresetType
  PollAfter = 11
  TimeoutAfter = 3
  SigfoxAfter = 2
  ReportedType <- MCReportedType
  Key = {"member", "stranger"}
  AllowedKey = {"member"}
PROPERTY StatusTold
