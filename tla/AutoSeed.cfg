CONSTANTS
  Handlers = {h1, h2}
  LossyHandlers = {h1}
  Accounts = {cash, margin}
  Symbols = {s1}
  Cooldown <- MCCooldown
  MaxLive = 2
  PromptOrders = TRUE
  Throws = TRUE
  LostReplies = FALSE
  Attempts = {1, 2}
  Dtes <- MCDtes
  Prices = {1, 2, 3}
  Liquid <- MCLiquid
  CapPct <- MCCapPct
  DayCaps = {25, 100}
  Elsewhere = 1
  MaxOrders = 2
  RaceDtes = {5}
  RacePrices = {2}
  MaxPending = 2
  MaxAge = 1
  MaxLogs = 4
  MaxTime = 3
SPECIFICATION MCSpec
INVARIANTS
  OneStakeUnlessRaced
  OneOrderPerAttemptInWorld
  SeedIsSuitableInWorld
  WithinCapsIfAlone
  LogsGoOut
  CacheAgeIsTrue
PROPERTIES
  TriedAgainIfFair
