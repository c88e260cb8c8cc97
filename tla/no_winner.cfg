\* A comparison whose result is announced later leaves no winner.
SPECIFICATION Spec
CONSTANTS
  None = None
  Ante = 1  Tax = 5  MaxLimit = 2  MaxAllIn = 2
  Rase2 = 90  Rase3 = 91  Rase4 = 92
  MinMoney = 1  MaxMoney = 0
  CheckRound = 0  CompareRound = 1  AllinRound = 2  MaxRound = 2
  BetMaxAllin = FALSE  TimeoutLimit = 2  Leopard = 9
  InitAcct <- MCAcct  Deals <- MCDeals  Coins = 3  Ranks = {1, 2}
  RaseChoices = {1, 2}
  User = {a, b, c}  MaxNum = 3  Robots = {}  RobotMoney = {}  Polite = TRUE
CONSTRAINT FirstHand
SYMMETRY MCSymmetry
CHECK_DEADLOCK FALSE
INVARIANT NoCrash
