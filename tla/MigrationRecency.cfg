CONSTANTS
  Kinds = {"shorten"}
  Identifiers = {0, 1, 2, 3, 4, 5}
  Radix = 2
  MinLength = 1
  MaxLength = 2
  Bits = {0, 1}
  Entries = {e1}
  Seconds = {1}
  Sources <- MCSources
  Targets <- MCTargets
  MaxFaults = 0
SPECIFICATION Spec
INVARIANTS
  RecencyKept
