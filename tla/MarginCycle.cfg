SPECIFICATION MCSpec
CONSTANTS
  Cycles = {"scheduler"}
  AccountType = "margin"
  Symbols <- OneSymbol
  Sides <- Shares
  HeldAtOpen <- SomeShares
  Overnight <- OneSymbol
  ExpiringToday = {}
  DoNotTouch <- SharesOnly
  Resting = {"manual"}
  ScalesOut = FALSE
  HasExclusions = TRUE
  MaxOrders = 5
  MaxHeld = 2
  LastPhase = 2
  Flaky = FALSE
  FillsInCycle = TRUE
  Throws = TRUE
  Worlds = {"alone"}
  s1 = s1
  Tracked = {s1, s2}
  TicksPerDay = 1
  MaxNow = 2
  KeepDays = 1
  MaxCrashes = 0
  NoRow = NoRow
  NoEntry = NoEntry
  Torn = Torn
INVARIANTS
  SweptBeforeActing
  NeverOversells
CHECK_DEADLOCK FALSE
