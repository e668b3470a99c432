SPECIFICATION Spec
CONSTANTS
  Names <- ThreeNames
  Faces = {f1, f2}
  NoName = NoName
  Costs = {1}
  Flags <- InheritOrCapture
  MaxRequests = 3
  MAX_NUM_TIMEOUTS = 1
  FibMayErr = TRUE
  MayExpire = {}
  MayFail = {f2}
INVARIANTS
  TypeOK
  TreeConsistent
  FaceMapExact
  NoStall
CHECK_DEADLOCK FALSE
