SPECIFICATION Spec
CONSTANTS
  Workers = {w1, w2}
  Scheduler = Scheduler
  Names <- MCNames
  MaxGen = 1
  None = None
  Partial = Partial
  Torn = Torn
  Mixed = Mixed
  MaxCommits = 1
  MaxAccidents = 1
SYMMETRY MCSymmetry
INVARIANTS
  ReplacedAtomically
