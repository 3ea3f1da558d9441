SPECIFICATION Spec
CONSTANTS
  Projects = {p1}
  Keys = {k1, k2, k3}
  Workers = {w1, w2}
  NoProject = NoProject
  NoKey = NoKey
  RequestedRoles <- MCRequestedRoles
  ClockTies = TRUE
  MaxFaults = 0
  MaxCrashes = 0

PROPERTIES
  CreatedIsNotUndone
