SPECIFICATION Spec
CONSTANTS
  Texts <- MCStacked
INVARIANTS
  EveryStatementCounts
