SPECIFICATION Spec
CONSTANTS
  i1 = i1
  i2 = i2
  i3 = i3
  buy = buy
  buyAgain = buyAgain
  otherBuy = otherBuy
  sell = sell
  k1 = k1
  k2 = k2
  k3 = k3
  Missing = Missing
  Invocations = {i1, i2, i3}
  Proposals = {buy, buyAgain, otherBuy, sell}
  Keys = {k1, k2, k3}
  KeyOf <- MCKeyOf
  SideOf <- MCSideOf
  Automatic = {}
  MaxAttempts = 2
  MaxClock = 1
  Faults = {"unavailable", "lostReply", "crash"}
SYMMETRY InvocationSymmetry
INVARIANTS
  ReturnedOrderIsStored
  ReportIsOfCommittedTrade
PROPERTIES
  ImplementsAccount
CHECK_DEADLOCK FALSE
