CONSTANTS
  Clients = {alice, bob}
  Operations <- MCOperations
  MaxRequests = 4
  MaxCandidates = 2
  MaxFaults = 1
  MaxRestarts = 1
SPECIFICATION FairSpec
INVARIANTS
  TypeOK
  StatusIsTrue
  TokensDenoteOwn
PROPERTIES
  ExchangesEnd
CHECK_DEADLOCK FALSE
