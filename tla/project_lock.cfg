SPECIFICATION Spec
CONSTANTS
  Projects = {p1, p2}
  Holders = {h1, h2, h3}
  Mutexes = {m1, m2}
  NoProject = NoProject
  NoMutex = NoMutex
  NoHolder = NoHolder
INVARIANTS
  Exclusion
PROPERTIES
  ImplementsLock
  RefusedByOwnProject
  Answered
