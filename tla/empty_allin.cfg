\* An all-in for nothing: one of the players has no coins left, and goes.
SPECIFICATION Spec
CONSTANTS
  None = None
  Ante = 1  Tax = 5  MaxLimit = 2  MaxAllIn = 8
  Rase2 = 90  Rase3 = 91  Rase4 = 92
  MinMoney = 1  MaxMoney = 0
  CheckRound = 0  CompareRound = 1  AllinRound = 1  MaxRound = 2
  BetMaxAllin = FALSE  TimeoutLimit = 2  Leopard = 9
  InitAcct <- MCAcct  Deals <- MCDeals  Coins = 5  Ranks = {1, 2}
  RaseChoices = {1, 2}
  User = {a, b, c}  MaxNum = 3  Robots = {a}  RobotMoney = {1}  Polite = TRUE
CONSTRAINT FirstHand
CHECK_DEADLOCK FALSE
PROPERTY AllinLoserLoses
