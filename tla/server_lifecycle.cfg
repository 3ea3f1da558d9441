SPECIFICATION Spec
CONSTANTS
  Projects = {p1, p2}
  Requests = {r1, r2}
  Unset = Unset
  Malformed = Malformed
  Environments <- MCEnvironments
INVARIANTS
  TypeOK
  CleanExit
  OpenForItsUsers
  PanicsOnlyIfMisconfigured
PROPERTIES
  RoundIsComplete
  InterruptEnds
