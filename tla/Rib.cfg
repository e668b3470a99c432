SPECIFICATION Spec
CONSTANTS
  Names <- ThreeNames
  Faces = {f1, f2}
  NoName = NoName
  Costs = {1, 2}
  Flags <- ChildInherit
  MaxRequests = 4
  MAX_NUM_TIMEOUTS = 1
  FibMayErr = FALSE
  MayExpire = {2}
  MayFail = {}
INVARIANTS
  FibMatchesRib
  AssertionsHold
SYMMETRY SymmetricFaces
CHECK_DEADLOCK FALSE
