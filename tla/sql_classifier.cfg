SPECIFICATION Spec
CONSTANTS
  Texts <- MCTexts
INVARIANTS
  LexerReadsText
  RefusedUnlessReadOver
  LeadersFound
  PermittedUnlessReadOver
PROPERTIES
  EndsInTime
