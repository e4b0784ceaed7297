SPECIFICATION MCSpec
CONSTANTS
  Cycles = {"scheduler"}
  AccountType = "cash"
  Symbols <- OneSymbol
  Sides <- JustCalls
  HeldAtOpen <- TwoCalls
  Overnight <- OneSymbol
  ExpiringToday = {}
  DoNotTouch = {}
  Resting = {"spray-buy"}
  ScalesOut = TRUE
  HasExclusions = TRUE
  MaxOrders = 3
  MaxHeld = 2
  LastPhase = 5
  Flaky = FALSE
  FillsInCycle = TRUE
  Throws = TRUE
  Worlds = {"alone", "overlap", "rough", "quiet", "disturbed"}
  s1 = s1
  Tracked = {s1, s2}
  TicksPerDay = 1
  MaxNow = 2
  KeepDays = 1
  MaxCrashes = 0
  NoRow = NoRow
  NoEntry = NoEntry
  Torn = Torn
INVARIANTS
  OneReductionIfAlone
  NoRoundTrip
  NoFlipFlop
  RunnerSoldItsTranche
  OvernightIsTrueIfQuiet
PROPERTIES
  StaleIsClosedIfDisturbed
CHECK_DEADLOCK FALSE
