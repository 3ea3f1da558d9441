SPECIFICATION Spec
CONSTANTS
  Callers = {a, b}
  Versions <- MCVersions
  Number <- MCNumber
  Disks <- MCDisks
  MaxTime = 1
  MaxRedone = 1
  NoDigits = NoDigits
  TooLarge = TooLarge
  NotApplied = NotApplied
  NoVersion = NoVersion
  NoCaller = NoCaller
SYMMETRY MCSymmetry
INVARIANTS
  TypeOK
  InEffectAsRecorded
PROPERTIES
  UpInOrder
  UpIsComplete
  DownUndoesLast
  ImplementsVersionedSchema
