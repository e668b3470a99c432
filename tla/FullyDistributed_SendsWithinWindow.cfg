SPECIFICATION Spec
CONSTANTS
  SeqMax = 3
  InitialWindow = 2
  WindowCap = 3
  InitialWindowOnTimeout = TRUE
  MaxOrphans = 6
  MaxRsr = 0
CHECK_DEADLOCK FALSE
PROPERTY SendsWithinWindow
