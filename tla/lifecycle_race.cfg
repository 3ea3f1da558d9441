SPECIFICATION Spec
CONSTANTS
  Projects = {p1}
  Keys = {k1, k2}
  Workers = {w1, w2}
  NoProject = NoProject
  NoKey = NoKey
  RequestedRoles <- MCRequestedRoles
  ClockTies = FALSE
  MaxFaults = 0
  MaxCrashes = 0
PROPERTIES
  AllowedTransitions
