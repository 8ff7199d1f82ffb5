SPECIFICATION FairSpec
CONSTANTS
  Trab = 3
  K = 2
  MaxIter = 4
  NoFile = NoFile
  NoOne = NoOne
INVARIANTS
  TypeOK
  NoTornRow
  CountIsBlocked
  PrintedWhole
PROPERTIES
  Terminates
