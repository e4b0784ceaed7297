CONSTANTS
  Held <- LargerLast
  MaxToClose = 3
  MaxTickMoves = 2
  Bid = 12
  Ask = 36
  FreshBids = {6, 18, 33}
  MinTick = 3
  Grid = 3
  MidFloor = TRUE
  PartialFills = FALSE
  OrdersExpire = TRUE
  CancelIsFinal = TRUE
  CancelErrors = TRUE
  StatusErrors = TRUE
  LostReplies = FALSE
  AnswersLackId = TRUE
  Urgent = FALSE
  Requote = TRUE
  Positions <- MCPositions
  Interval = 4
  CycleMinutes = 8
SPECIFICATION MCSpec
INVARIANTS
  NeverDoubleSells
  ProfitBooksNoLossInWorld
  RiskCloseIsCarriedOutIfOne
  SlideIsCutShortInWorld
PROPERTIES
  ImplementsSale
