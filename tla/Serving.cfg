CONSTANTS
  Daemons = {"forever", "bounded", "wrong"}
  Bound <- MCBound
  Serves <- MCServes
  Misconfigured = {"wrong"}
  Clients = {"persona", "reader"}
  SocketOf <- MCSocketOf
  MaxLaunches = 2
SPECIFICATION FairSpec
INVARIANTS
  TypeOK
  ServedOnceStarted
  ReachableIfUndisturbed
PROPERTIES
  LeftoversDoNotBlock
  ShutdownLeavesNoFile
  UpgradeIsAnswered
CHECK_DEADLOCK FALSE
