CONSTANTS
  Contracts = {c1}
  Total = 3
  Window = 2
  Ramp <- MCRamp
  AbortAfter = 2
  MaxClock = 2
  MaxStarts = 1
  MaxOrders = 4
  MaxCrashes = 0
  Overlap = FALSE
  AbortCalls = FALSE
  StatusErrors = TRUE
  LostReplies = FALSE
  StoreErrors = FALSE
  CancelIsFinal = TRUE
  NoRecord = NoRecord
  NoSpray = NoSpray
SPECIFICATION MCSpec
INVARIANTS
  NeverOvercounts
  SingleLiveOrderInOrder
PROPERTIES
  SprayResolvedIfWritable
  ImplementsPurchaseIfAnswered
