CONSTANTS
  Identifiers = {1, 2, 3}
  TopicLists <- MCTopicLists
  Targets = {}
  MaxCommits = 4
  MaxFaults = 0
  MaxRestarts = 0
  Seconds <- MCSeconds
  Limits <- MCLimits
  Queries <- MCWindowQueries
SPECIFICATION QuerySpec
INVARIANTS
  WindowIsNewest
  RangesAreExact
  CatalogAgreesWithQueries
PROPERTIES
  ChangesKeepRecency
CHECK_DEADLOCK FALSE
