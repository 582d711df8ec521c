CONSTANTS
  Identifiers = {id1, id2}
  TopicLists <- MCTopicLists
  Targets = {"Default", "Path", "Print"}
  MaxCommits = 3
  MaxFaults = 0
  MaxRestarts = 0
SPECIFICATION Spec
INVARIANTS
  IdentifiersNotReused
