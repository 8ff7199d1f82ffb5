SPECIFICATION Spec
CONSTANTS
  MaxIter = 2
  MaxRuns = 3
  Inherited = TRUE
INVARIANTS
  TypeOK
  SaveWhole
  OneWriter
  EndsWithSave
  AlarmSet
PROPERTIES
  SaveKept
