SPECIFICATION FairSpec
CONSTANTS
  SeqMax = 3
  InitialWindow = 2
  WindowCap = 3
  InitialWindowOnTimeout = TRUE
  MaxOrphans = 6
  MaxRsr = 1
INVARIANTS TypeOK NoSeqLost KarnRule NoStall
PROPERTIES NoResend EventuallyReceived
CHECK_DEADLOCK FALSE
