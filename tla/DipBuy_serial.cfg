SPECIFICATION FairSpec
CONSTANTS
  e1 = e1
  e2 = e2
  Evaluations = {e1}
  Prices <- MCPrices
  References = {100}
  Scale = 2000
  Slippage = 1
  Dip = 40
  TakeProfit = 60
  StopLoss = 40
  Trailing = 30
  Cooldown = 2
  None = None
  MaxClock = 2
  MaxManual = 0
  Faults = {"crash", "unavailable"}
INVARIANTS
  PositionsMatchHoldings
  CooldownBetweenBuys
PROPERTIES
  ClosedStaysClosed
  HighWaterMarkNeverFalls
  TriggeredExitSettles
