SPECIFICATION Spec
CONSTANTS
  Trab = 2
  K = 1
  MaxIter = 4
  NoFile = NoFile
  NoOne = NoOne
INVARIANTS
  FreedApart
