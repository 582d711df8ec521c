CONSTANTS
  Kinds = {"copy", "remint", "shorten"}
  Identifiers = {0, 1, 2, 3, 4, 5}
  Radix = 2
  MinLength = 1
  MaxLength = 2
  Bits = {0, 1}
  Entries = {e1, e2}
  Seconds = {1}
  Sources <- MCSources
  Targets <- MCTargets
  MaxFaults = 2
SPECIFICATION Spec
INVARIANTS
  TypeOK
  CompletedIsFaithful
  SidecarStaysFaithful
  RunAccountsForTarget
PROPERTIES
  TargetOnlyGrows
  MintsShortest
  FailsOnlyWhenFull
