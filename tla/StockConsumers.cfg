SPECIFICATION FairSpec
CONSTANTS
  SeqMax = 3
  Kinds = {"window", "cbr", "zipf", "batches"}
  InitialWindows = {0, 2}
INVARIANTS TypeOK OneSendEvent InFlightIsReal NoStall KeepsSeqs KeepsKarnRule
PROPERTY EventuallyServed
CHECK_DEADLOCK FALSE
