CONSTANTS
  Account = "margin"
  Groups = 2
  Inputs <- AllInputs
  TotalCapital = 10000
  BuyingPower = 3000
  Exposure = 2000
  BuyPct = 20
  BuyMultiple = 3
  MaxContracts = 6
  MaxNotional = 2500
  MinEntryDTE = 2
  MaxRounds = 100
  MidTicks = 3
  AskTicks = 5
  MidWait = 30
  AskWait = 30
  RunInterval = 240
  Cutoff = 1000
  Evaluated = 520
  CloseTime = 0
  LateFills = FALSE
  AnswersLackId = FALSE
SPECIFICATION MCSpec
INVARIANTS
  BudgetBalances
  TargetRespected
  GroupWithinCapIfSeen
  BuysBeforeCutoffIfFew
