SPECIFICATION Spec
CONSTANTS
  SeqMax = 2
  Kinds = {"batches"}
  InitialWindows = {1}
PROPERTY TimeoutDisablesSample
CHECK_DEADLOCK FALSE
