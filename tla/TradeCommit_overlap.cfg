SPECIFICATION FairSpec
CONSTANTS
  i1 = i1
  i2 = i2
  i3 = i3
  buy = buy
  buyAgain = buyAgain
  otherBuy = otherBuy
  sell = sell
  k1 = k1
  k2 = k2
  k3 = k3
  Missing = Missing
  Invocations = {i1, i2}
  Proposals = {buy, buyAgain, sell}
  Keys = {k1, k3}
  KeyOf <- MCKeyOf
  SideOf <- MCSideOf
  Automatic = {}
  MaxAttempts = 3
  MaxClock = 1
  Faults = {"overlap", "unavailable", "crash"}
INVARIANTS
  RejectedNeverCommits
  SnapshotAlwaysLoadable
PROPERTY
  Termination
CHECK_DEADLOCK FALSE
