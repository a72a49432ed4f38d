SPECIFICATION Spec
CONSTANTS
  e1 = e1
  e2 = e2
  Evaluations = {e1, e2}
  Prices = {97, 100}
  References = {100}
  Scale = 2000
  Slippage = 1
  Dip = 40
  TakeProfit = 60
  StopLoss = 40
  Trailing = 30
  Cooldown = 1
  None = None
  MaxClock = 1
  MaxManual = 1
  Faults = {"overlap", "ambiguous", "crash"}
SYMMETRY EvaluationSymmetry
INVARIANTS
  TypeOK
  EntersOncePerSignal
