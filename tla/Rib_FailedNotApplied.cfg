SPECIFICATION Spec
CONSTANTS
  Names <- ThreeNames
  Faces = {f1, f2}
  NoName = NoName
  Costs = {1}
  Flags <- ChildInherit
  MaxRequests = 3
  MAX_NUM_TIMEOUTS = 1
  FibMayErr = FALSE
  MayExpire = {}
  MayFail = {f2}
INVARIANTS
  FailedNotApplied
CHECK_DEADLOCK FALSE
