CONSTANTS
  OrdinaryServers = {"ordinary"}
  OrdinaryRequests <- MCOrdinaryRequests
  MetaRequests <- MCMetaRequests
  MaxMetaPayloads = 2
  UpgradeRequests <- MCUpgradeRequests
  WriteSizes = {0, 1}
  Stamps = {"s1"}
  MaxCommit = 1
  MaxCrashes = 0
SPECIFICATION Spec
PROPERTIES
  DirectWritesObeyPublicState
