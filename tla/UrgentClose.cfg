CONSTANTS
  Held <- LargerFirst
  MaxToClose = 3
  MaxTickMoves = 2
  Bid = 12
  Ask = 36
  FreshBids = {6, 18, 33}
  MinTick = 3
  Grid = 3
  MidFloor = FALSE
  PartialFills = FALSE
  OrdersExpire = TRUE
  CancelIsFinal = FALSE
  CancelErrors = FALSE
  StatusErrors = TRUE
  LostReplies = TRUE
  AnswersLackId = TRUE
  Urgent = TRUE
  Requote = TRUE
  Positions = {}
  Interval = 4
  CycleMinutes = 8
SPECIFICATION MCSpec
INVARIANTS
  UrgentEndsAtEdge
