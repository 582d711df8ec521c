CONSTANTS
  OrdinaryServers = {"ordinary"}
  OrdinaryRequests <- MCOrdinaryRequests
  MetaRequests <- MCMetaRequests
  MaxMetaPayloads = 2
  UpgradeRequests <- MCUpgradeRequests
  WriteSizes = {1}
  Stamps = {"s1"}
  MaxCommit = 1
  MaxCrashes = 1
  Names = {"operator"}
  Generations = {"g1"}
  Policies = {"p1", "p2"}
  MaxEdits = 1
  MaxPlaneStops = 1
SPECIFICATION PlaneFairSpec
INVARIANTS
  PlaneTypeOK
  IdentitiesAreLastOrders
PROPERTIES
  SocketsCatchUp
  PolicyIsKept
