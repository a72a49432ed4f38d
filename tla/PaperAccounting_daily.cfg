SPECIFICATION Spec
CONSTANTS
  Denominator = 10
  Slippage = 1
  Fee = 2
  CostBuffer = 4
  MaxRisk = 9
  MaxExposure = 9
  DailyCutoff = 3
  DrawdownCutoff = 5
  StartingCash = 1200
  Prices <- MCPrices
  Quantities <- MCQuantities
  MaxDay = 2
  MaxVersion = 5
PROPERTY DailyLossIsOfToday
