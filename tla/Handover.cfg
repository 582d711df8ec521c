CONSTANTS
  OrdinaryServers = {"ordinary", "handoff"}
  OrdinaryRequests <- MCOrdinaryRequests
  MetaRequests <- MCMetaRequests
  MaxMetaPayloads = 2
  UpgradeRequests <- MCUpgradeRequests
  WriteSizes = {0, 1, 2}
  Stamps = {"s1", "s2"}
  MaxCommit = 2
  MaxCrashes = 1
SPECIFICATION Spec
INVARIANTS
  TypeOK
  SocketsFollowRoot
  FewStragglers
PROPERTIES
  ClosedIsFinal
  RefinesCutover
