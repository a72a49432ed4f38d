SPECIFICATION Spec
CONSTANTS
  Fast = 1
  Slow = 3
  Stake = 6
  MCLength = 8
  Histories <- MCHistories
  StartingCash = 1220
  RiskCapital = 1220
  Denominator = 10
  Slippage = 1
  Fee = 2
  CostBuffer = 4
  MaxRisk = 9
  MaxExposure = 9
  DailyCutoff = 3
  DrawdownCutoff = 5
INVARIANTS
  TypeOK
  SignalsNeverLookAhead
  SignalsFollowOrder
  AveragesStayInRange
  RsiMirrors
  FillsAlternate
  LedgerExplainsResult
  CashNeverNegative
CHECK_DEADLOCK FALSE
