CONSTANTS
  Ticks = {t1, t2}
  OpenInterval = 3
  MaxStops = 2
  StopInFlight = FALSE
  OrderIds = {o1, o2}
  Requests = 3
  Pieces = 3
  Clients = {c1, c2}
  Rounds = {r1, r2}
  NoClient = NoClient
  NotSet = NotSet
  MaxAttempts = 1
  MaxRounds = 1
  Window = 8
  FirstExitDelay = 1
  MaxExitDelay = 4
  Callers = FALSE
  Signals = FALSE
  StoreErrors = FALSE
SPECIFICATION MCSpec
INVARIANTS
  NeverAsleep
  EachRunsOnceIfApart
  OnlyExcusedOrdersRemain
  OneSession
PROPERTIES
  CyclesSpacedUndisturbed
  CyclesRecurUndisturbed
  SignalEndsProcess
  ExitLeavesNoSessionAlone
  DeafIsRecoveredIfBusy
CHECK_DEADLOCK FALSE
