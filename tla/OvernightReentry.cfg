CONSTANTS
  Symbols = {s1}
  TicksPerDay = 2
  MaxNow = 4
  KeepDays = 1
  SweepFails = FALSE
  Outside = TRUE
  Manual = FALSE
  MaxCrashes = 0
  NoRow = NoRow
  NoEntry = NoEntry
  Torn = Torn
SPECIFICATION Spec
INVARIANTS
  FreshIsNotOvernight
