SPECIFICATION Spec
CONSTANTS
  Status = {0, 4}
  Refresh = 3
INVARIANTS
  TypeOK
  ShownWithinRef
  AlwaysAWayOn
