SPECIFICATION Spec
CONSTANTS
  Projects = {p1}
  Keys = {k1, k2, k3}
  Workers = {w1, w2}
  NoProject = NoProject
  NoKey = NoKey
  RequestedRoles <- MCRequestedRoles
  ClockTies = FALSE
  MaxFaults = 2
  MaxCrashes = 1
SYMMETRY MCSymmetry
INVARIANTS
  TypeOK
  SystemKeyActive
  NothingOutlivesWipe
  OneFailureLeavesNothing
  KeysReferToRows
  ListedHasDatabase
PROPERTIES
  DeletionBySystemKey
  IllegalOnlyIfOvertaken
  CreatedIsComplete
  WipeLeavesNoKeys
