SPECIFICATION Spec
CONSTANTS
  Names <- ThreeNames
  Faces = {f1, f2}
  NoName = NoName
  Costs = {1}
  Flags <- ChildInheritCapture
  MaxRequests = 4
  MAX_NUM_TIMEOUTS = 1
  FibMayErr = FALSE
  MayExpire = {}
  MayFail = {}
INVARIANTS
  AssertionsHold
CHECK_DEADLOCK FALSE
