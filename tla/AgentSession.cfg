SPECIFICATION FairSpec
CONSTANTS
  a1 = a1
  a2 = a2
  buy = buy
  buyHigher = buyHigher
  sell = sell
  buyNoKey = buyNoKey
  k1 = k1
  k2 = k2
  Missing = Missing
  Agents = {a1, a2}
  Proposals = {buy, buyHigher, sell, buyNoKey}
  Keys = {k1, k2}
  KeyOf <- MCKeyOf
  Unkeyed = {buyNoKey}
  SideOf <- MCSideOf
  MaxOrders = 2
  MaxIterations = 2
  MaxToolCalls = 2
  MaxRounds = 2
  MaxRuns = 3
INVARIANTS
  TypeOK
  VersionCountsCommits
  ReturnedOrderIsStored
  PortfolioAppliesOwnCommits
  ConflictNamesItsCause
  AnswerMatchesLedger
PROPERTIES
  ImplementsLedger
  RunEnds
CHECK_DEADLOCK FALSE
