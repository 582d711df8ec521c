CONSTANTS
  Identifiers = {id1, id2}
  TopicLists <- MCTopicLists
  Targets = {"Default", "Path", "Print"}
  MaxCommits = 3
  MaxFaults = 2
  MaxRestarts = 1
SYMMETRY IdentifierSymmetry
SPECIFICATION Spec
INVARIANTS
  TypeOK
  CollectedIsCaptured
  ReceiptTellsTheStore
PROPERTIES
  CaptureBeforeRetract
  CollectsOnlyZeroPublic
