\* A player and a robot, any number of hands, timers that expire.
SPECIFICATION FairSpec
CONSTANTS
  None = None
  Ante = 1  Tax = 5  MaxLimit = 2  MaxAllIn = 2
  Rase2 = 90  Rase3 = 91  Rase4 = 92
  MinMoney = 1  MaxMoney = 3
  CheckRound = 0  CompareRound = 1  AllinRound = 2  MaxRound = 2
  BetMaxAllin = FALSE  TimeoutLimit = 2  Leopard = 9
  InitAcct <- MCAcct  Deals <- MCDeals  Coins = 2  Ranks = {1, 2}
  RaseChoices = {1}
  User = {a, r}  MaxNum = 3  Robots = {r}  RobotMoney = {3}  Polite = TRUE
CHECK_DEADLOCK FALSE
INVARIANTS CountMatches LedgerAgrees NoCrash
INVARIANTS ActiveTogether LobbyTimersOff LockHasTimer TurnOwnsTimer
PROPERTIES HandEnds LockReleased DroppedArePutOut HandIsSettled
