SPECIFICATION Spec
CONSTANTS
  Packets <- FivePackets
  FreshnessPeriod <- Freshness
  Interests <- AllInterests
  Never = Never
  Off = Off
  MaxLimit = 4
INVARIANTS
  TypeOK
  QueuesExact
  TimersExact
  WithinLimit
  FindsSelectedChild
PROPERTIES
  EvictionOrder
