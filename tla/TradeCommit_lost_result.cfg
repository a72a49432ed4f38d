SPECIFICATION Spec
CONSTANTS
  i1 = i1
  i2 = i2
  i3 = i3
  buy = buy
  buyAgain = buyAgain
  otherBuy = otherBuy
  sell = sell
  k1 = k1
  k2 = k2
  k3 = k3
  Missing = Missing
  Invocations = {i1, i2}
  Proposals = {buy}
  Keys = {k1}
  KeyOf <- MCKeyOf
  SideOf <- MCSideOf
  Automatic = {}
  MaxAttempts = 2
  MaxClock = 1
  Faults = {"overlap", "unavailable"}
SYMMETRY InvocationSymmetry
INVARIANTS
  ReturnedOrderIsStored
CHECK_DEADLOCK FALSE
